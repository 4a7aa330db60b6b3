---------------------------- MODULE SdHostProofs ----------------------------
(***************************************************************************)
(* Proofs about SdHost, for all scatter lists and any number of retries,   *)
(* as long as commands are answered in time (PromptSpec).                  *)
(*                                                                         *)
(* That a counted block is in its place depends on the whole chain from    *)
(* the walk through the scatter list (Walk) over the position of the card  *)
(* and of the memory that go with it (InStep) and the registers they are   *)
(* copied to (Loaded) to the blocks that moved (Moved) and the number the  *)
(* handler takes from there (Credited).  The slots (Slots) say which of    *)
(* these is the case.                                                      *)
(***************************************************************************)
EXTENDS SdHost, TLAPS

\* A request occupies one slot while the driver waits for the controller and none
\* while it works on it.
Slots ==
  /\ ~(cmd /\ dat)
  /\ dat => kind = "data"
  /\ sub # "stray"
  /\ sub # "none" => phase = "pending" /\ ~cmd /\ ~dat
  /\ phase # "pending" => ~cmd /\ ~dat
  /\ phase = "pending" /\ sub = "none" => cmd \/ dat

DataRequest == kind = "data" /\ phase # "idle"

\* The walk is within the scatter list and count is what is left of the page.
Walk ==
  DataRequest =>
    /\ pages \in PageLists /\ sg \in 1 .. Len(pages) - 1
    /\ count = PageSize(pages, sg) - sgofs /\ count > 0

\* A transfer is submitted once.
Once ==
  /\ phase = "setup" => first = "none"
  /\ DataRequest => retries = 0
  /\ DataRequest /\ sub = "submit" => first = "none"

\* The card's position, the position in memory and what was counted go together.
InStep ==
  DataRequest /\ first # "refused" /\ sub # "finish" =>
    arg = xfered /\ arg = pages[sg] + sgofs

\* A command in a slot is the one in the registers.
Loaded ==
  DataRequest /\ first # "refused" /\ (cmd \/ dat) =>
    actual = 0 /\ hw.arg = arg /\ hw.mem = arg /\ hw.count = count

Moved ==
  /\ hw.moved <= hw.count
  /\ hw.mem # -1 /\ first # "refused" => hw.mem = hw.arg
  /\ hw.mem # -1 => \A j \in 0 .. hw.moved - 1 : <<hw.mem + j, hw.arg + j>> \in mem

\* What sslsd_cmd_done is about to count has been moved.
Credited ==
  DataRequest /\ first # "refused" /\ sub = "done" =>
    /\ actual <= count
    /\ \A j \in 0 .. actual - 1 : <<arg + j, arg + j>> \in mem

SdInv == TypeOK /\ Slots /\ Walk /\ Once /\ InStep /\ Loaded /\ Moved /\ Credited /\ PlacedIfAccepted

---------------------------------------------------------------------------
(* Facts about scatter lists and about what an event may count.             *)

LEMMA PageFacts ==
  ASSUME NEW p \in PageLists, NEW i \in 1 .. Len(p) - 1
  PROVE  p[i] \in Nat /\ p[i + 1] \in Nat /\ PageSize(p, i) > 0 /\ p[1] = 0 /\ Len(p) \in Nat
BY SdAssumption DEF PageSize

LEMMA FirstPage ==
  ASSUME NEW p \in PageLists
  PROVE  /\ 1 \in 1 .. Len(p) - 1 /\ p[1] = 0 /\ p[2] \in Nat \ {0}
         /\ PageSize(p, 1) = p[2] /\ 0 \in 0 .. MaxRetries
<1>1. Len(p) \in Nat /\ Len(p) > 1 /\ 0 \in 0 .. MaxRetries
  BY SdAssumption
<1>2. 1 \in 1 .. Len(p) - 1
  BY <1>1
<1>3. p[2] \in Nat /\ PageSize(p, 1) > 0 /\ p[1] = 0 /\ PageSize(p, 1) = p[2] - p[1]
  BY <1>2, PageFacts DEF PageSize
<1> QED BY <1>1, <1>2, <1>3

\* Blocks counted after others that were counted before.
LEMMA CountMore ==
  ASSUME NEW a \in Nat, NEW n \in Nat, NEW S,
         \A i \in 0 .. a - 1 : <<i, i>> \in S,
         \A j \in 0 .. n - 1 : <<a + j, a + j>> \in S
  PROVE  \A i \in 0 .. (a + n) - 1 : <<i, i>> \in S
<1> SUFFICES ASSUME NEW i \in 0 .. (a + n) - 1 PROVE <<i, i>> \in S
  OBVIOUS
<1>1. CASE i < a
  BY <1>1
<1>2. CASE i >= a
  <2>1. i - a \in 0 .. n - 1 /\ a + (i - a) = i
    BY <1>2
  <2> QED BY <2>1
<1> QED BY <1>1, <1>2

\* The number of blocks that the registers show, taken over by the handler for the
\* transfer in slot dat, may be counted.
LEMMA MayCount ==
  ASSUME SdInv, dat, first # "refused"
  PROVE  /\ hw.moved <= count
         /\ \A j \in 0 .. hw.moved - 1 : <<arg + j, arg + j>> \in mem
<1>1. DataRequest
  BY DEF SdInv, Slots, DataRequest
<1>2. hw.arg = arg /\ hw.mem = arg /\ hw.count = count /\ arg \in Nat
  BY <1>1 DEF SdInv, Loaded, TypeOK
<1> QED BY <1>2 DEF SdInv, Moved

---------------------------------------------------------------------------
(* One lemma per action.                                                   *)

USE DEF SdInv, DataRequest, Bits, CMD, DAT, RSP_ERR, DAT_ERR, A12, CARD,
        issuer, tcmd, tdat, walk, slots, code, chip, ghost

LEMMA RequestRefused_Step ==
  ASSUME SdInv, RequestRefused
  PROVE  SdInv'
<1> USE DEF RequestRefused, NewRequest, Running
<1>1. TypeOK'
  <2>1. retry' \in BOOLEAN /\ missed' \in BOOLEAN /\ cmd' \in BOOLEAN /\ dat' \in BOOLEAN
    BY Zenon DEF TypeOK
  <2> QED BY <2>1, SMTT(60) DEF TypeOK
<1>2. Slots'
  BY DEF TypeOK, Slots
<1>3. Walk' /\ Once'
  BY DEF TypeOK, Slots, Walk, Once
<1>4. InStep' /\ Loaded'
  BY DEF TypeOK, Slots, Walk, Once, InStep, Loaded, Credited
<1>5. Moved'
  BY DEF TypeOK, Moved
<1>6. Credited' /\ PlacedIfAccepted'
  BY DEF TypeOK, Slots, Once, InStep, Loaded, Moved, Credited, PlacedIfAccepted, Placed
<1> QED BY <1>1, <1>2, <1>3, <1>4, <1>5, <1>6

LEMMA RequestPlain_Step ==
  ASSUME SdInv, NEW k \in {"plain", "busy"}, NEW r \in 0 .. MaxRetries, RequestPlain(k, r)
  PROVE  SdInv'
<1> USE DEF RequestPlain, NewRequest, Running
<1>1. TypeOK'
  <2>1. retry' \in BOOLEAN /\ missed' \in BOOLEAN /\ cmd' \in BOOLEAN /\ dat' \in BOOLEAN
    BY Zenon DEF TypeOK
  <2> QED BY <2>1, SMTT(60) DEF TypeOK
<1>2. Slots'
  BY DEF TypeOK, Slots
<1>3. Walk' /\ Once'
  BY DEF TypeOK, Slots, Walk, Once
<1>4. InStep' /\ Loaded'
  BY DEF TypeOK, Slots, Walk, Once, InStep, Loaded, Credited
<1>5. Moved'
  BY DEF TypeOK, Moved
<1>6. Credited' /\ PlacedIfAccepted'
  BY DEF TypeOK, Slots, Once, InStep, Loaded, Moved, Credited, PlacedIfAccepted, Placed
<1> QED BY <1>1, <1>2, <1>3, <1>4, <1>5, <1>6

LEMMA RequestData_Step ==
  ASSUME SdInv, NEW p \in PageLists, RequestData(p)
  PROVE  SdInv'
<1>0. /\ 1 \in 1 .. Len(p) - 1 /\ p[1] = 0 /\ p[2] \in Nat \ {0}
      /\ PageSize(p, 1) = p[2] /\ 0 \in 0 .. MaxRetries
  BY FirstPage
<1> USE DEF RequestData, NewRequest, Running
<1>1. TypeOK'
  <2>1. retry' \in BOOLEAN /\ missed' \in BOOLEAN
    BY Zenon
  <2> QED BY <1>0, <2>1, SMTT(60) DEF TypeOK
<1>2. Slots'
  BY DEF TypeOK, Slots
<1>3. Walk' /\ Once'
  BY <1>0 DEF TypeOK, Walk, Once
<1>4. InStep' /\ Loaded'
  BY <1>0 DEF TypeOK, Slots, InStep, Loaded
<1>5. Moved'
  BY DEF TypeOK, Moved
<1>6. Credited' /\ PlacedIfAccepted'
  BY DEF TypeOK, Slots, Once, InStep, Loaded, Moved, Credited, PlacedIfAccepted, Placed
<1> QED BY <1>1, <1>2, <1>3, <1>4, <1>5, <1>6

LEMMA Submit_Step ==
  ASSUME SdInv, Submit
  PROVE  SdInv'
<1> USE DEF Submit, Running
<1>1. TypeOK'
  BY DEF TypeOK
<1>2. Slots'
  BY DEF TypeOK, Slots
<1>3. Walk' /\ Once'
  BY DEF TypeOK, Slots, Walk, Once
<1>4. InStep' /\ Loaded'
  BY DEF TypeOK, Slots, Walk, Once, InStep, Loaded, Credited
<1>5. Moved'
  BY DEF TypeOK, Moved
<1>6. Credited' /\ PlacedIfAccepted'
  BY DEF TypeOK, Slots, Once, InStep, Loaded, Moved, Credited, PlacedIfAccepted, Placed
<1> QED BY <1>1, <1>2, <1>3, <1>4, <1>5, <1>6

LEMMA sdhc_cmd_Step ==
  ASSUME SdInv, sdhc_cmd
  PROVE  SdInv'
<1> USE DEF sdhc_cmd, LineBusy, NoTransfer
<1>0. kind = "data" => pages[sg] \in Nat
  BY PageFacts DEF Slots, Walk
<1>1. TypeOK'
  <2>1. hw' \in [kind : {"plain", "busy", "data"}, arg : Nat, mem : Nat \cup {-1},
                 count : Nat, moved : Nat]
    BY <1>0 DEF TypeOK
  <2>2. actual' \in Nat
    BY DEF TypeOK
  <2>3. cmd' \in BOOLEAN /\ missed' \in BOOLEAN
    BY Zenon
  <2> QED BY <2>1, <2>2, <2>3 DEF TypeOK
<1>2. Slots'
  BY DEF TypeOK, Slots
<1>3. Walk' /\ Once'
  BY DEF TypeOK, Slots, Walk, Once
<1>4. InStep' /\ Loaded'
  BY DEF TypeOK, Slots, Walk, Once, InStep, Loaded, Credited
<1>5. Moved'
  <2>1. CASE kind = "data"
    <3>1. /\ hw'.moved = 0 /\ hw'.count = count /\ hw'.arg = arg
          /\ hw'.mem = pages[sg] + sgofs
      BY <2>1
    <3>2. first' # "refused" => arg = pages[sg] + sgofs
      BY <2>1 DEF Slots, InStep
    <3> QED BY <3>1, <3>2 DEF TypeOK, Moved
  <2>2. CASE kind # "data"
    BY <2>2 DEF Moved
  <2> QED BY <2>1, <2>2
<1>6. Credited' /\ PlacedIfAccepted'
  BY DEF TypeOK, Slots, Once, InStep, Loaded, Moved, Credited, PlacedIfAccepted, Placed
<1> QED BY <1>1, <1>2, <1>3, <1>4, <1>5, <1>6

LEMMA sdhc_cmd_refused_Step ==
  ASSUME SdInv, sdhc_cmd_refused
  PROVE  SdInv'
<1> USE DEF sdhc_cmd_refused
<1>1. TypeOK'
  BY DEF TypeOK
<1>2. Slots'
  BY DEF TypeOK, Slots
<1>3. Walk' /\ Once'
  BY DEF TypeOK, Slots, Walk, Once
<1>4. InStep' /\ Loaded'
  BY DEF TypeOK, Slots, Walk, Once, InStep, Loaded, Credited
<1>5. Moved'
  BY DEF TypeOK, Moved
<1>6. Credited' /\ PlacedIfAccepted'
  BY DEF TypeOK, Slots, Once, InStep, Loaded, Moved, Credited, PlacedIfAccepted, Placed
<1> QED BY <1>1, <1>2, <1>3, <1>4, <1>5, <1>6

LEMMA CmdDoneNext_Step ==
  ASSUME SdInv, CmdDoneNext
  PROVE  SdInv'
<1> USE DEF CmdDoneNext
<1>0. /\ DataRequest /\ pages \in PageLists /\ sg \in 1 .. Len(pages) - 1
      /\ pages[sg] \in Nat /\ pages[sg + 1] \in Nat
      /\ count = (pages[sg + 1] - pages[sg]) - sgofs /\ count > 0
      /\ sg \in Nat /\ sgofs \in Nat /\ actual \in Nat /\ count \in Nat
      /\ arg \in Nat /\ xfered \in Nat /\ Len(pages) \in Nat
  BY PageFacts DEF Walk, TypeOK, PageSize
<1>1. /\ sg' \in 1 .. Len(pages) - 1 /\ sgofs' \in Nat /\ retry' \in BOOLEAN
      /\ count' = PageSize(pages, sg') - sgofs' /\ count' > 0 /\ count' \in Nat
      /\ first # "refused" => arg' = xfered' /\ arg' = pages[sg'] + sgofs'
  <2>1. CASE PageLeft
    <3>1. sg' = sg /\ sgofs' = sgofs + actual /\ count' = PageSize(pages, sg) - sgofs'
      BY <2>1
    <3>2. retry' \in BOOLEAN
      BY <2>1, Zenon DEF TypeOK
    <3>3. count' = count - actual /\ count' \in Nat /\ count' > 0 /\ sgofs' \in Nat
      BY <1>0, <2>1, <3>1, SMTT(40) DEF PageLeft, PageSize
    <3>4. first # "refused" => arg' = xfered' /\ arg' = pages[sg'] + sgofs'
      BY <1>0, <3>1, SMTT(40) DEF InStep
    <3> QED BY <1>0, <3>1, <3>2, <3>3, <3>4
  <2>2. CASE ~PageLeft
    <3>1. sg' = sg + 1 /\ sgofs' = 0 /\ retry' = TRUE /\ count' = PageSize(pages, sg + 1) - 0
      BY <2>2
    <3>2. sg + 1 \in 1 .. Len(pages) - 1
      BY <1>0, <2>2 DEF MorePages
    <3>3. PageSize(pages, sg + 1) \in Nat /\ PageSize(pages, sg + 1) > 0
      BY <1>0, <3>2, PageFacts, SMTT(40) DEF PageSize
    <3>4. first # "refused" => actual = count
      BY <1>0, <2>2 DEF PageLeft, Credited
    <3>5. first # "refused" => arg' = xfered' /\ arg' = pages[sg + 1]
      <4> SUFFICES ASSUME first # "refused" PROVE arg' = xfered' /\ arg' = pages[sg + 1]
        OBVIOUS
      <4>1. arg = xfered /\ arg = pages[sg] + sgofs /\ arg' = arg + actual /\ xfered' = xfered + actual
        BY <1>0 DEF InStep
      <4> QED BY <1>0, <3>4, <4>1
    <3> QED BY <1>0, <3>1, <3>2, <3>3, <3>5
  <2> QED BY <2>1, <2>2
<1>2. first # "refused" => \A i \in 0 .. (xfered + actual) - 1 : <<i, i>> \in mem
  <2> SUFFICES ASSUME first # "refused"
               PROVE  \A i \in 0 .. (xfered + actual) - 1 : <<i, i>> \in mem
    OBVIOUS
  <2>1. arg = xfered
    BY <1>0 DEF InStep
  <2> QED BY <1>0, <2>1, CountMore DEF Credited, PlacedIfAccepted, Placed
<1>3. TypeOK'
  <2>1. xfered' \in Nat /\ arg' \in Nat /\ sg' \in Nat \ {0}
    BY <1>0, <1>1
  <2>2. /\ timer' \in BOOLEAN /\ rt' = "ok" /\ sub' = "next"
        /\ UNCHANGED <<issuer, kind, actual, pages, fins, slots, step, sta, chip, ghost>>
    OBVIOUS
  <2> HIDE DEF CmdDoneNext
  <2> QED BY <1>1, <2>1, <2>2 DEF TypeOK
<1>4. Slots'
  BY DEF Slots
<1>5. Walk' /\ Once'
  BY <1>0, <1>1 DEF Walk, Once
<1>6. InStep' /\ Loaded'
  BY <1>1 DEF Slots, InStep, Loaded
<1>7. Moved' /\ Credited'
  BY DEF Moved, Credited
<1>8. PlacedIfAccepted'
  BY <1>2 DEF PlacedIfAccepted, Placed
<1> QED BY <1>3, <1>4, <1>5, <1>6, <1>7, <1>8

LEMMA CmdDoneLast_Step ==
  ASSUME SdInv, CmdDoneLast
  PROVE  SdInv'
<1> USE DEF CmdDoneLast, NothingMoved, PageLeft, MorePages
<1>1. TypeOK'
  <2>1. xfered' \in Nat /\ rt' \in {"ok", "err"}
    BY DEF TypeOK
  <2>2. /\ timer' \in BOOLEAN /\ sub' = "finish"
        /\ UNCHANGED <<issuer, kind, arg, tdat, pages, sg, sgofs, retry, fins, slots, step, sta,
                       chip, ghost>>
    OBVIOUS
  <2> HIDE DEF CmdDoneLast
  <2> QED BY <2>1, <2>2 DEF TypeOK
<1>2. Slots'
  BY DEF TypeOK, Slots
<1>3. Walk' /\ Once'
  BY DEF TypeOK, Slots, Walk, Once
<1>4. InStep' /\ Loaded'
  BY DEF TypeOK, Slots, Walk, Once, InStep, Loaded, Credited
<1>5. Moved'
  BY DEF TypeOK, Moved
<1>6. Credited' /\ PlacedIfAccepted'
  <2>1. CASE kind = "data" /\ ~NothingMoved /\ first # "refused"
    <3>1. DataRequest /\ xfered \in Nat /\ actual \in Nat /\ arg = xfered
      BY <2>1 DEF InStep, TypeOK
    <3>2. \A i \in 0 .. (xfered + actual) - 1 : <<i, i>> \in mem
      BY <2>1, <3>1, CountMore DEF Credited, PlacedIfAccepted, Placed
    <3> QED BY <2>1, <3>2 DEF Credited, PlacedIfAccepted, Placed
  <2> QED BY <2>1 DEF Credited, PlacedIfAccepted, Placed
<1> QED BY <1>1, <1>2, <1>3, <1>4, <1>5, <1>6

LEMMA Retry_Step ==
  ASSUME SdInv, Retry
  PROVE  SdInv'
<1> USE DEF Retry
<1>1. TypeOK'
  BY SdAssumption DEF TypeOK
<1>2. Slots'
  BY DEF TypeOK, Slots
<1>3. Walk' /\ Once'
  BY DEF TypeOK, Slots, Walk, Once
<1>4. InStep' /\ Loaded'
  BY DEF TypeOK, Slots, Walk, Once, InStep, Loaded, Credited
<1>5. Moved'
  BY DEF TypeOK, Moved
<1>6. Credited' /\ PlacedIfAccepted'
  BY DEF TypeOK, Slots, Once, InStep, Loaded, Moved, Credited, PlacedIfAccepted, Placed
<1> QED BY <1>1, <1>2, <1>3, <1>4, <1>5, <1>6

LEMMA mmc_request_done_Step ==
  ASSUME SdInv, mmc_request_done
  PROVE  SdInv'
<1> USE DEF mmc_request_done
<1>1. TypeOK'
  BY DEF TypeOK
<1>2. Slots'
  BY DEF TypeOK, Slots
<1>3. Walk' /\ Once'
  BY DEF TypeOK, Slots, Walk, Once
<1>4. InStep' /\ Loaded'
  BY DEF TypeOK, Slots, Walk, Once, InStep, Loaded, Credited
<1>5. Moved'
  BY DEF TypeOK, Moved
<1>6. Credited' /\ PlacedIfAccepted'
  BY DEF TypeOK, Slots, Once, InStep, Loaded, Moved, Credited, PlacedIfAccepted, Placed
<1> QED BY <1>1, <1>2, <1>3, <1>4, <1>5, <1>6

LEMMA sdhc_isr_Step ==
  ASSUME SdInv, sdhc_isr
  PROVE  SdInv'
<1> USE DEF sdhc_isr, Running
<1>1. TypeOK'
  BY DEF TypeOK
<1>2. Slots'
  BY DEF TypeOK, Slots
<1>3. Walk' /\ Once'
  BY DEF TypeOK, Slots, Walk, Once
<1>4. InStep' /\ Loaded'
  BY DEF TypeOK, Slots, Walk, Once, InStep, Loaded, Credited
<1>5. Moved'
  BY DEF TypeOK, Moved
<1>6. Credited' /\ PlacedIfAccepted'
  BY DEF TypeOK, Slots, Once, InStep, Loaded, Moved, Credited, PlacedIfAccepted, Placed
<1> QED BY <1>1, <1>2, <1>3, <1>4, <1>5, <1>6

LEMMA IsrCard_Step ==
  ASSUME SdInv, IsrCard
  PROVE  SdInv'
<1> USE DEF IsrCard, Part, Evt
<1>1. TypeOK'
  <2>1. sub' \in {sub, "done"} /\ rt' \in {"ok", "err"} /\ fins' \in BOOLEAN
    BY DEF TypeOK
  <2>2. /\ step' \in {"card2", "none"} /\ cmd' \in BOOLEAN /\ dat' \in BOOLEAN /\ line' = "idle"
        /\ UNCHANGED <<issuer, kind, arg, tdat, walk, timer, sta, hw, irq, present, ghost>>
    OBVIOUS
  <2> HIDE DEF IsrCard
  <2> QED BY <2>1, <2>2 DEF TypeOK
<1>2. Slots'
  BY DEF TypeOK, Slots
<1>3. Walk' /\ Once'
  BY DEF TypeOK, Slots, Walk, Once
<1>4. InStep' /\ Loaded'
  BY DEF TypeOK, Slots, Walk, Once, InStep, Loaded, Credited
<1>5. Moved'
  BY DEF TypeOK, Moved
<1>6. Credited' /\ PlacedIfAccepted'
  BY DEF TypeOK, Slots, Once, InStep, Loaded, Moved, Credited, PlacedIfAccepted, Placed
<1> QED BY <1>1, <1>2, <1>3, <1>4, <1>5, <1>6

LEMMA IsrRsp_Step ==
  ASSUME SdInv, IsrRsp
  PROVE  SdInv'
<1> USE DEF IsrRsp, Part, Evt, ResetCmd
<1>1. TypeOK'
  <2>1. cmd' \in BOOLEAN /\ dat' \in BOOLEAN /\ missed' \in BOOLEAN
    BY Zenon DEF TypeOK
  <2>2. sub' \in {sub, "done"} /\ step' \in {"none", "daterr"} /\ sta' \subseteq sta
    BY DEF TypeOK
  <2>3. rt' \in {rt, "err"} /\ line' \in {line, "abort", "idle"}
    BY DEF TypeOK
  <2>4. UNCHANGED <<issuer, kind, arg, tdat, walk, timer, fins, hw, irq, present, first, mem>>
    OBVIOUS
  <2> HIDE DEF IsrRsp
  <2> QED BY <2>1, <2>2, <2>3, <2>4 DEF TypeOK
<1>2. Slots'
  BY DEF TypeOK, Slots
<1>3. Walk' /\ Once'
  BY DEF TypeOK, Slots, Walk, Once
<1>4. InStep' /\ Loaded'
  BY DEF TypeOK, Slots, Walk, Once, InStep, Loaded, Credited
<1>5. Moved'
  BY DEF TypeOK, Moved
<1>6. Credited' /\ PlacedIfAccepted'
  BY DEF TypeOK, Slots, Once, InStep, Loaded, Moved, Credited, PlacedIfAccepted, Placed
<1> QED BY <1>1, <1>2, <1>3, <1>4, <1>5, <1>6

LEMMA IsrDatErr_Step ==
  ASSUME SdInv, IsrDatErr
  PROVE  SdInv'
<1> USE DEF IsrDatErr, Part, Evt, ResetDat
<1>1. TypeOK'
  <2>1. cmd' \in BOOLEAN /\ dat' \in BOOLEAN /\ missed' \in BOOLEAN
    BY Zenon DEF TypeOK
  <2>2. sub' \in {sub, "done"} /\ step' = "a12" /\ sta' \subseteq sta
    BY DEF TypeOK
  <2>3. rt' \in {rt, "err"} /\ line' \in {line, "idle"} /\ actual' \in Nat
    BY DEF TypeOK
  <2>4. UNCHANGED <<issuer, kind, arg, count, walk, timer, fins, hw, irq, present, first, mem>>
    OBVIOUS
  <2> HIDE DEF IsrDatErr
  <2> QED BY <2>1, <2>2, <2>3, <2>4 DEF TypeOK
<1>2. Slots'
  BY DEF TypeOK, Slots
<1>3. Walk' /\ Once'
  BY DEF TypeOK, Slots, Walk, Once
<1>4. InStep' /\ Loaded'
  BY DEF TypeOK, Slots, Walk, Once, InStep, Loaded, Credited
<1>5. Moved'
  BY DEF TypeOK, Moved
<1>6. Credited' /\ PlacedIfAccepted'
  <2>1. CASE DAT_ERR \in sta /\ dat /\ first # "refused"
    <3>1. actual' = hw.moved /\ UNCHANGED <<count, arg, mem>>
      BY <2>1
    <3>2. Credited'
      BY <2>1, <3>1, MayCount DEF Credited
    <3> QED BY <3>2 DEF PlacedIfAccepted, Placed
  <2>2. CASE ~(DAT_ERR \in sta /\ dat)
    BY <2>2 DEF TypeOK, Slots, Loaded, Credited, PlacedIfAccepted, Placed
  <2>3. CASE first = "refused"
    BY <2>3 DEF Credited, PlacedIfAccepted, Placed
  <2> QED BY <2>1, <2>2, <2>3
<1> QED BY <1>1, <1>2, <1>3, <1>4, <1>5, <1>6

LEMMA IsrA12_Step ==
  ASSUME SdInv, IsrA12
  PROVE  SdInv'
<1> USE DEF IsrA12, Part, Evt
<1>1. TypeOK'
  <2>1. rt' \in {rt, "err"} /\ line' \in {line, "abort"} /\ sta' \subseteq sta
    OBVIOUS
  <2>2. /\ step' \in {"none", "cmd"}
        /\ UNCHANGED <<issuer, kind, arg, tdat, walk, timer, fins, slots, sub, hw, irq, present,
                       first, mem>>
    OBVIOUS
  <2>3. missed' \in BOOLEAN
    BY Zenon DEF TypeOK
  <2> HIDE DEF IsrA12
  <2> QED BY <2>1, <2>2, <2>3 DEF TypeOK
<1>2. Slots'
  BY DEF TypeOK, Slots
<1>3. Walk' /\ Once'
  BY DEF TypeOK, Slots, Walk, Once
<1>4. InStep' /\ Loaded'
  BY DEF TypeOK, Slots, Walk, Once, InStep, Loaded, Credited
<1>5. Moved'
  BY DEF TypeOK, Moved
<1>6. Credited' /\ PlacedIfAccepted'
  BY DEF TypeOK, Slots, Once, InStep, Loaded, Moved, Credited, PlacedIfAccepted, Placed
<1> QED BY <1>1, <1>2, <1>3, <1>4, <1>5, <1>6

LEMMA IsrCmd_Step ==
  ASSUME SdInv, IsrCmd
  PROVE  SdInv'
<1> USE DEF IsrCmd, Part, Evt
<1>1. TypeOK'
  <2>1. cmd' \in BOOLEAN /\ dat' \in BOOLEAN /\ missed' \in BOOLEAN
    BY Zenon DEF TypeOK
  <2>2. sub' \in {sub, "done"}
    OBVIOUS
  <2> QED BY <2>1, <2>2 DEF TypeOK
<1>2. Slots'
  BY DEF TypeOK, Slots
<1>3. Walk' /\ Once'
  BY DEF TypeOK, Slots, Walk, Once
<1>4. InStep' /\ Loaded'
  BY DEF TypeOK, Slots, Walk, Once, InStep, Loaded, Credited
<1>5. Moved'
  BY DEF TypeOK, Moved
<1>6. Credited' /\ PlacedIfAccepted'
  BY DEF TypeOK, Slots, Once, InStep, Loaded, Moved, Credited, PlacedIfAccepted, Placed
<1> QED BY <1>1, <1>2, <1>3, <1>4, <1>5, <1>6

LEMMA IsrDat_Step ==
  ASSUME SdInv, IsrDat
  PROVE  SdInv'
<1> USE DEF IsrDat, Part, Evt
<1>1. TypeOK'
  <2>1. dat' \in BOOLEAN
    BY Zenon DEF TypeOK
  <2>2. actual' \in Nat /\ sub' \in {sub, "done", "stray"}
    BY DEF TypeOK
  <2> QED BY <2>1, <2>2 DEF TypeOK
<1>2. Slots'
  BY DEF TypeOK, Slots
<1>3. Walk' /\ Once'
  BY DEF TypeOK, Slots, Walk, Once
<1>4. InStep' /\ Loaded'
  BY DEF TypeOK, Slots, Walk, Once, InStep, Loaded, Credited
<1>5. Moved'
  BY DEF TypeOK, Moved
<1>6. Credited' /\ PlacedIfAccepted'
  <2>1. CASE DAT \in sta /\ dat /\ first # "refused"
    <3>1. actual' = hw.moved /\ UNCHANGED <<count, arg, mem>>
      BY <2>1
    <3>2. Credited'
      BY <2>1, <3>1, MayCount DEF Credited
    <3> QED BY <3>2 DEF PlacedIfAccepted, Placed
  <2>2. CASE ~(DAT \in sta /\ dat)
    BY <2>2 DEF Credited, PlacedIfAccepted, Placed
  <2>3. CASE first = "refused"
    BY <2>3 DEF Credited, PlacedIfAccepted, Placed
  <2> QED BY <2>1, <2>2, <2>3
<1> QED BY <1>1, <1>2, <1>3, <1>4, <1>5, <1>6

LEMMA HwMoves_Step ==
  ASSUME SdInv, HwMoves
  PROVE  SdInv'
<1> USE DEF HwMoves, driver
<1>0. /\ hw.moved \in Nat /\ hw.count \in Nat /\ hw.arg \in Nat /\ hw.mem \in Nat \cup {-1}
      /\ hw'.moved = hw.moved + 1 /\ hw'.count = hw.count /\ hw'.arg = hw.arg
      /\ hw'.mem = hw.mem /\ hw'.kind = hw.kind
  BY DEF TypeOK
<1>1. TypeOK'
  <2>1. hw' \in [kind : {"plain", "busy", "data"}, arg : Nat, mem : Nat \cup {-1},
                 count : Nat, moved : Nat]
    BY SMTT(40) DEF TypeOK
  <2>2. mem' \subseteq Nat \X Nat
    BY <1>0 DEF TypeOK
  <2> QED BY <2>1, <2>2, SMTT(40) DEF TypeOK
<1>2. Slots'
  BY DEF TypeOK, Slots
<1>3. Walk' /\ Once'
  BY DEF TypeOK, Slots, Walk, Once
<1>4. InStep' /\ Loaded'
  BY <1>0 DEF InStep, Loaded
<1>5. Moved'
  <2>1. ASSUME hw.mem # -1, NEW j \in 0 .. hw.moved
        PROVE  <<hw.mem + j, hw.arg + j>> \in mem'
    <3>1. CASE j = hw.moved
      BY <1>0, <2>1, <3>1
    <3>2. CASE j \in 0 .. hw.moved - 1
      BY <1>0, <2>1, <3>2 DEF Moved
    <3> QED BY <1>0, <3>1, <3>2
  <2>2. 0 .. hw'.moved - 1 = 0 .. hw.moved
    BY <1>0
  <2> QED BY <1>0, <2>1, <2>2 DEF Moved
<1>6. Credited' /\ PlacedIfAccepted'
  BY <1>0 DEF TypeOK, Moved, Credited, PlacedIfAccepted, Placed
<1> QED BY <1>1, <1>2, <1>3, <1>4, <1>5, <1>6

\* The controller's and the card's other steps: no variable of the driver changes.
LEMMA Quiet_Step ==
  ASSUME SdInv, UNCHANGED <<driver, hw, ghost>>,
         line' \in {"idle", "cmd", "data", "busy", "abort", "dead"},
         irq' \subseteq Bits, present' \in BOOLEAN
  PROVE  SdInv'
<1> USE DEF driver
<1>1. TypeOK'
  BY DEF TypeOK
<1>2. Slots' /\ Walk' /\ Once' /\ InStep' /\ Loaded'
  BY DEF Slots, Walk, Once, InStep, Loaded
<1>3. Moved' /\ Credited' /\ PlacedIfAccepted'
  BY DEF Moved, Credited, PlacedIfAccepted, Placed
<1> QED BY <1>1, <1>2, <1>3

---------------------------------------------------------------------------

LEMMA SdInit == Init => SdInv
<1> SUFFICES ASSUME Init PROVE SdInv
  OBVIOUS
<1> USE SdAssumption DEF Init, NoTransfer
<1>1. TypeOK
  <2>1. hw \in [kind : {"plain", "busy", "data"}, arg : Nat, mem : Nat \cup {-1},
               count : Nat, moved : Nat]
    OBVIOUS
  <2>2. /\ timer \in BOOLEAN /\ fins \in BOOLEAN /\ cmd \in BOOLEAN /\ dat \in BOOLEAN
        /\ retry \in BOOLEAN /\ present \in BOOLEAN /\ missed \in BOOLEAN
    BY Zenon
  <2> QED BY <2>1, <2>2 DEF TypeOK
<1>2. Slots /\ Walk /\ Once /\ InStep /\ Loaded
  BY DEF Slots, Walk, Once, InStep, Loaded
<1>3. Moved /\ Credited /\ PlacedIfAccepted
  BY DEF Moved, Credited, PlacedIfAccepted, Placed
<1> QED BY <1>1, <1>2, <1>3

LEMMA SdNext == SdInv /\ [Prompt]_vars => SdInv'
<1> SUFFICES ASSUME SdInv, [Prompt]_vars PROVE SdInv'
  OBVIOUS
<1>1. CASE Request
  BY <1>1, RequestRefused_Step, RequestPlain_Step, RequestData_Step, Submit_Step DEF Request
<1>2. CASE Driver
  BY <1>2, sdhc_cmd_Step, sdhc_cmd_refused_Step, CmdDoneNext_Step, CmdDoneLast_Step,
     Retry_Step, mmc_request_done_Step, sdhc_isr_Step, IsrCard_Step, IsrRsp_Step,
     IsrDatErr_Step, IsrA12_Step, IsrCmd_Step, IsrDat_Step DEF Driver
<1>3. CASE Hw
  <2>1. CASE HwMoves
    BY <2>1, HwMoves_Step
  <2>2. CASE HwResponds \/ HwAborts \/ HwFails
    BY <2>2, Quiet_Step DEF TypeOK, HwResponds, HwAborts, HwFails
  <2>3. CASE HwCompletes \/ HwStopFails \/ HwDataFails \/ HwBusyEnds
    BY <2>3, Quiet_Step DEF TypeOK, HwCompletes, HwStopFails, HwDataFails, HwBusyEnds
  <2> QED BY <1>3, <2>1, <2>2, <2>3 DEF Hw
<1>4. CASE CardChanges
  BY <1>4, Quiet_Step DEF TypeOK, CardChanges
<1>5. CASE UNCHANGED vars
  BY <1>5, Quiet_Step DEF TypeOK, vars, driver
<1> QED BY <1>1, <1>2, <1>3, <1>4, <1>5 DEF Prompt

LEMMA SdInductive == PromptSpec => []SdInv
<1> QED BY SdInit, SdNext, PTL DEF PromptSpec

(***************************************************************************)
(* The state is well typed: the walk stays within the scatter list and no  *)
(* more retries are taken than were granted (mmc_request_done).            *)
(***************************************************************************)
THEOREM SdTypes == PromptSpec => []TypeOK
<1>1. SdInv => TypeOK
  OBVIOUS
<1> QED BY <1>1, SdInductive, PTL

(***************************************************************************)
(* For every scatter list, every block that bytes_xfered counts was moved  *)
(* to its place, unless sdhc_cmd refused the first command.                *)
(***************************************************************************)
THEOREM SdPlaced == PromptSpec => []PlacedIfAccepted
<1>1. SdInv => PlacedIfAccepted
  OBVIOUS
<1> QED BY <1>1, SdInductive, PTL

(***************************************************************************)
(* The request in progress is in exactly one of sdhc.c's slots whenever    *)
(* the driver waits for the controller, and a finished one is in none.     *)
(***************************************************************************)
THEOREM SdOneSlot == PromptSpec => []OneSlot
<1>1. SdInv => OneSlot
  BY DEF Slots, OneSlot, Running
<1> QED BY <1>1, SdInductive, PTL

(***************************************************************************)
(* sslsd_cmd_done never completes a request that is not in progress.       *)
(***************************************************************************)
THEOREM SdNoStray == PromptSpec => []NoStray
<1>1. SdInv => NoStray
  BY DEF Slots, NoStray
<1> QED BY <1>1, SdInductive, PTL
=============================================================================
