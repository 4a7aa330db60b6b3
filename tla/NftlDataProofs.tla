---------------------------- MODULE NftlDataProofs ----------------------------
(***************************************************************************)
(* What module Nftl promises as long as nftl_get_free_block finds a block  *)
(* for every log, merge and table (NeverStarved): the pool is used as      *)
(* NftlPool says, no page is programmed twice, no block leaks, no log      *)
(* stays full, and every page reads as what was last written to it.        *)
(***************************************************************************)
EXTENDS NftlTableProofs

-----------------------------------------------------------------------------
(***************************************************************************)
(* The inductive invariant                                                 *)
(***************************************************************************)

\* Every log has a block.
NoHole == \A i \in 1..Len(dl) : dl[i].pba # NoBlock

\* A block that is held and not yet programmed is about to be.
TakeOps == {"append", "mergecopy", "mtappend", "mtcopy", "move", "mapwrite"}
Taking  == {t.blk : t \in {u \in Elems(todo) : u.op \in TakeOps}}
Spent   == held \ Programmed \subseteq Taking

\* A log without a free page is about to be merged.
LogOps  == {"full", "merge", "mergecopy", "dldel"}
Room    == \A i \in 1..Len(dl) : dl[i].used = PagesPerBlock =>
             \E t \in Elems(todo) : t.op \in LogOps /\ t.i = i
\* nftl_write_logicpage looks, after a conversion, at the index of the log converted.
SameLog == \A t, u \in Elems(todo) : t.op \in {"convert", "dldel"} /\ u.op = "full" => t.i = u.i

\* An MTLog block without a free page is about to be merged.
MtOps  == {"mtmerge", "mtcopy", "mtset"}
MtRoom == mtl # <<>> /\ mtl[1].used = PagesPerBlock => \E t \in Elems(todo) : t.op \in MtOps

FedInv == ~Lost /\ NoHole /\ Spent /\ Room /\ SameLog /\ MtRoom

-----------------------------------------------------------------------------
(***************************************************************************)
(* What a step leaves alone                                                *)
(***************************************************************************)

\* The tasks of two stacks put together.
LEMMA Joint ==
  ASSUME NEW S, NEW s \in Seq(S), NEW q \in Seq(S)
  PROVE  Elems(s \o q) = Elems(s) \cup Elems(q)
  <1> DEFINE r == s \o q
  <1>1. /\ r \in Seq(S) /\ Len(r) = Len(s) + Len(q) /\ Len(s) \in Nat /\ Len(q) \in Nat
        /\ \A i \in 1..Len(s) : r[i] = s[i]
        /\ \A i \in 1..Len(q) : r[Len(s) + i] = q[i]
    OBVIOUS
  <1> HIDE DEF r
  <1>2. ASSUME NEW x \in Elems(r) PROVE x \in Elems(s) \cup Elems(q)
    <2>1. PICK i \in 1..(Len(s) + Len(q)) : x = r[i]
      BY <1>1, <1>2 DEF Elems
    <2>2. CASE i \in 1..Len(s)
      BY <1>1, <2>1, <2>2 DEF Elems
    <2>3. CASE i \notin 1..Len(s)
      <3>1. i - Len(s) \in 1..Len(q) /\ i = Len(s) + (i - Len(s))
        BY <1>1, <2>3
      <3>2. r[i] = q[i - Len(s)]
        BY <1>1, <3>1
      <3> QED BY <2>1, <3>1, <3>2 DEF Elems
    <2> QED BY <2>2, <2>3
  <1>3. ASSUME NEW i \in 1..Len(s) PROVE s[i] \in Elems(r)
    <2>1. i \in 1..Len(r)
      BY <1>1
    <2> QED BY <1>1, <2>1 DEF Elems
  <1>4. ASSUME NEW i \in 1..Len(q) PROVE q[i] \in Elems(r)
    <2>1. Len(s) + i \in 1..Len(r)
      BY <1>1
    <2> QED BY <1>1, <2>1 DEF Elems
  <1>5. Elems(s) \subseteq Elems(r) /\ Elems(q) \subseteq Elems(r)
    BY <1>3, <1>4 DEF Elems
  <1> QED BY <1>2, <1>5 DEF r

LEMMA Pair ==
  ASSUME NEW t, NEW u
  PROVE  Elems(<<t, u>>) = {t, u}
  <1>1. Len(<<t, u>>) = 2 /\ <<t, u>>[1] = t /\ <<t, u>>[2] = u /\ 1..2 = {1, 2}
    OBVIOUS
  <1> QED BY <1>1 DEF Elems

LEMMA Triple ==
  ASSUME NEW t, NEW u, NEW v
  PROVE  Elems(<<t, u, v>>) = {t, u, v}
  <1>1. Len(<<t, u, v>>) = 3 /\ <<t, u, v>>[1] = t /\ <<t, u, v>>[2] = u /\ <<t, u, v>>[3] = v
        /\ 1..3 = {1, 2, 3}
    OBVIOUS
  <1> QED BY <1>1 DEF Elems

\* The task on top makes way for others.
LEMMA Turned ==
  ASSUME StackOK, todo # <<>>, NEW S, NEW ts \in Seq(S), Then(ts)
  PROVE  /\ Elems(todo) = {Task} \cup Elems(Tail(todo))
         /\ Elems(todo') = Elems(ts) \cup Elems(Tail(todo))
  <1> DEFINE k == Tail(todo)
  <1>1. k \in Seq(Under) /\ Elems(todo) = {Task} \cup Elems(k)
    BY Stack
  <1>2. todo' = ts \o k
    BY DEF Then
  <1> HIDE DEF k
  <1>3. k \in Seq(S \cup Under) /\ ts \in Seq(S \cup Under)
    BY <1>1
  <1>4. Elems(todo') = Elems(ts) \cup Elems(k)
    BY <1>2, <1>3, Joint
  <1> QED BY <1>1, <1>4 DEF k

\* One task or none.
LEMMA Whens ==
  ASSUME NEW c, NEW t
  PROVE  When(c, t) \in Seq({t}) /\ \A u \in Elems(When(c, t)) : c /\ u = t
  <1>1. <<t>> \in Seq({t}) /\ <<>> \in Seq({t})
    OBVIOUS
  <1> QED BY <1>1, Alone, PlainStacks DEF When

\* The step drops no task of a log and adds none that ends one.
EndOps == {"lost", "convert", "dldel", "full"}

LEMMA RoomKept ==
  ASSUME ~Lost, Room, SameLog, UNCHANGED dl,
         \A t \in Elems(todo) : t.op \in LogOps => t \in Elems(todo'),
         \A t \in Elems(todo') : t.op \in EndOps => t \in Elems(todo)
  PROVE  ~Lost' /\ Room' /\ SameLog'
  <1>1. ~Lost'
    BY DEF Lost, Has, EndOps
  <1>2. Room'
    BY DEF Room
  <1>3. SameLog'
    BY DEF SameLog, EndOps
  <1> QED BY <1>1, <1>2, <1>3

LEMMA MtRoomKept ==
  ASSUME MtRoom, UNCHANGED mtl,
         \A t \in Elems(todo) : t.op \in MtOps => t \in Elems(todo')
  PROVE  MtRoom'
  BY DEF MtRoom

LEMMA SpentKept ==
  ASSUME Spent,
         \A t \in Elems(todo) : t.op \in TakeOps => t \in Elems(todo') \/ t.blk \in Programmed',
         \A b \in held' \ Programmed' :
           b \in held \ Programmed \/ \E t \in Elems(todo') : t.op \in TakeOps /\ t.blk = b
  PROVE  Spent'
  <1> SUFFICES ASSUME NEW b \in held' \ Programmed' PROVE b \in Taking'
    BY DEF Spent
  <1>1. CASE \E t \in Elems(todo') : t.op \in TakeOps /\ t.blk = b
    BY <1>1 DEF Taking
  <1>2. CASE b \in held \ Programmed
    <2>1. PICK t \in Elems(todo) : t.op \in TakeOps /\ t.blk = b
      BY <1>2 DEF Spent, Taking
    <2> QED BY <2>1 DEF Taking
  <1> QED BY <1>1, <1>2

\* The step leaves the logs alone.
LEMMA FedKept ==
  ASSUME FedInv, UNCHANGED <<dl, mtl>>, Spent',
         \A t \in Elems(todo) : t.op \in LogOps \cup MtOps => t \in Elems(todo'),
         \A t \in Elems(todo') : t.op \in EndOps => t \in Elems(todo)
  PROVE  FedInv'
  <1>1. ~Lost' /\ Room' /\ SameLog'
    BY RoomKept DEF FedInv
  <1>2. MtRoom'
    BY MtRoomKept DEF FedInv
  <1> QED BY <1>1, <1>2 DEF FedInv, NoHole

\* ... and the pool.
LEMMA FedQuiet ==
  ASSUME FedInv, UNCHANGED <<dl, mtl, poolVars>>,
         \A t \in Elems(todo) : t.op \in LogOps \cup MtOps \cup TakeOps => t \in Elems(todo'),
         \A t \in Elems(todo') : t.op \in EndOps => t \in Elems(todo)
  PROVE  FedInv'
  <1>1. held' = held /\ Programmed' = Programmed
    BY DEF poolVars, Programmed
  <1>2. Spent'
    BY <1>1, SpentKept DEF FedInv
  <1> QED BY <1>2, FedKept

-----------------------------------------------------------------------------
(***************************************************************************)
(* Steps that leave logs and pool alone                                    *)
(***************************************************************************)

LEMMA WriteFed ==
  ASSUME NftlInv, FedInv, NEW lpa \in Lpa, NEW d \in HostWrites(lpa), WriteLogicPage(lpa, d)
  PROVE  FedInv'
  <1>1. /\ todo = <<>> /\ UNCHANGED <<poolVars, mtl, dl>>
        /\ todo' = When(Len(dl) >= DL_BLOCKS_HIGH, T("blockloop"))
                   \o <<T("pages"), T("put"), T("low"), T("ack")>>
    BY DEF WriteLogicPage, Idle
  <1>2. todo' \in {PagesK, BlockLoopK}
    <2>1. PagesK \in Seq(Plain)
      BY PlainStacks
    <2>2. <<>> \o PagesK = PagesK
      BY <2>1
    <2> QED BY <1>1, <2>2, WriteStack DEF When
  <1>3. \A t \in Elems(todo') : t.op \in PlainOps \ {"full"}
    BY <1>2, WriteTasks
  <1>4. Elems(todo) = {}
    BY <1>1, PlainStacks
  <1>5. \A t \in Elems(todo') : t.op \notin EndOps
    BY <1>3 DEF PlainOps, EndOps
  <1> QED BY <1>1, <1>4, <1>5, FedQuiet

\* A task of the write ends, but perhaps for one other.
LEMMA TurnFed ==
  ASSUME NftlInv, FedInv, todo # <<>>, Task.op \in {"pages", "low", "blockloop", "pageloop", "ack"},
         NEW c, NEW t, t.op \in {"pageloop", "merge"}, Then(When(c, t)),
         UNCHANGED <<poolVars, mtl, dl>>
  PROVE  FedInv'
  <1> DEFINE ts == When(c, t)
  <1>1. ts \in Seq({t}) /\ \A u \in Elems(ts) : u = t
    BY Whens
  <1> HIDE DEF ts
  <1>2. Then(ts) /\ StackOK
    BY DEF ts, NftlInv
  <1>3. /\ Elems(todo) = {Task} \cup Elems(Tail(todo))
        /\ Elems(todo') = Elems(ts) \cup Elems(Tail(todo))
    BY <1>1, <1>2, Turned
  <1>4. Task.op \notin LogOps \cup MtOps \cup TakeOps
    BY DEF LogOps, MtOps, TakeOps
  <1>5. t.op \notin EndOps
    BY DEF EndOps
  <1> QED BY <1>1, <1>3, <1>4, <1>5, FedQuiet

LEMMA ManyPagesFed == NftlInv /\ FedInv /\ ManyPages => FedInv'
  <1> SUFFICES ASSUME NftlInv, FedInv, ManyPages PROVE FedInv'
    OBVIOUS
  <1> DEFINE c == DlPages >= DL_PAGES_HIGH
             t == T("pageloop")
  <1>1. /\ todo # <<>> /\ Task.op = "pages" /\ UNCHANGED <<poolVars, mtl, dl>>
        /\ Then(When(c, t)) /\ t.op = "pageloop"
    BY DEF ManyPages, Top, T
  <1> HIDE DEF c, t
  <1> QED BY <1>1, TurnFed

LEMMA LowSpaceFed == NftlInv /\ FedInv /\ LowSpace => FedInv'
  <1> SUFFICES ASSUME NftlInv, FedInv, LowSpace PROVE FedInv'
    OBVIOUS
  <1> DEFINE c == free_blkcnt <= MINI_FREE_BLOCK /\ dl # <<>> /\ Mergeable # {}
             t == OnLog("merge", MergeFirst)
  <1>1. /\ todo # <<>> /\ Task.op = "low" /\ UNCHANGED <<poolVars, mtl, dl>>
        /\ Then(When(c, t)) /\ t.op = "merge"
    BY DEF LowSpace, Top, OnLog
  <1> HIDE DEF c, t
  <1> QED BY <1>1, TurnFed

LEMMA MergeLoopFed == NftlInv /\ FedInv /\ MergeLoop => FedInv'
  <1> SUFFICES ASSUME NftlInv, FedInv, MergeLoop PROVE FedInv'
    OBVIOUS
  <1> DEFINE t == OnLog("merge", MergeFirst)
  <1>1. /\ todo # <<>> /\ Task.op \in {"blockloop", "pageloop"} /\ StackOK
        /\ UNCHANGED <<poolVars, mtl, dl>>
        /\ todo' = <<t>> \o todo \/ todo' = Tail(todo)
    BY DEF MergeLoop, Top, NftlInv
  <1>2. Elems(todo) = {Task} \cup Elems(Tail(todo)) /\ t.op = "merge"
    BY <1>1, Stack DEF OnLog
  <1>3. Task.op \notin LogOps \cup MtOps \cup TakeOps
    BY <1>1 DEF LogOps, MtOps, TakeOps
  <1> HIDE DEF t
  <1>4. CASE todo' = Tail(todo)
    BY <1>1, <1>2, <1>3, <1>4, FedQuiet
  <1>5. CASE todo' = <<t>> \o todo
    <2>1. todo \in {BlockLoopK, PageLoopK}
      BY <1>1, Unders
    <2>2. todo \in Seq(Plain)
      BY <2>1, PlainStacks
    <2>3. Elems(todo') = {t} \cup Elems(todo)
      BY <1>5, <2>2, Cons
    <2>4. t.op \notin EndOps
      BY <1>2 DEF EndOps
    <2> QED BY <1>1, <2>3, <2>4, FedQuiet
  <1> QED BY <1>1, <1>4, <1>5

LEMMA WriteReturnsFed == NftlInv /\ FedInv /\ WriteReturns => FedInv'
  <1> SUFFICES ASSUME NftlInv, FedInv, WriteReturns PROVE FedInv'
    OBVIOUS
  <1>1. todo # <<>> /\ Task.op = "ack" /\ todo' = <<>> /\ UNCHANGED <<poolVars, mtl, dl>> /\ StackOK
    BY DEF WriteReturns, Top, NftlInv
  <1>2. Tail(todo) = <<>> /\ Elems(todo) = {Task} \cup Elems(Tail(todo))
    <2>1. Lies(Task, Tail(todo))
      BY <1>1, Stack
    <2> QED BY <1>1, <2>1, Stack DEF Lies, T, UpdMts, MtSets
  <1>3. Elems(todo) = {Task} /\ Elems(todo') = {}
    BY <1>1, <1>2, PlainStacks
  <1>4. Task.op \notin LogOps \cup MtOps \cup TakeOps
    BY <1>1 DEF LogOps, MtOps, TakeOps
  <1> QED BY <1>1, <1>3, <1>4, FedQuiet

LEMMA ReadFed ==
  ASSUME FedInv, NEW lpa, Read(lpa)
  PROVE  FedInv'
  <1>1. UNCHANGED <<poolVars, mtl, dl, todo>>
    BY DEF Read
  <1>2. Elems(todo') = Elems(todo)
    BY <1>1
  <1> QED BY <1>1, <1>2, FedQuiet

\* The log whose last page was written is full, and is merged.
LEMMA FullLogFed == NftlInv /\ FedInv /\ FullLog => FedInv'
  <1> SUFFICES ASSUME NftlInv, FedInv, FullLog PROVE FedInv'
    OBVIOUS
  <1> DEFINE c == Task.i <= Len(dl) /\ dl[Task.i].used = PagesPerBlock
             t == OnLog("merge", Task.i)
             ts == When(c, t)
  <1>1. todo # <<>> /\ Task.op = "full" /\ Then(ts) /\ UNCHANGED <<poolVars, mtl, dl>> /\ StackOK
    BY DEF FullLog, Top, NftlInv
  <1>2. t.op = "merge" /\ t.i = Task.i
    BY DEF OnLog
  <1>3. ts \in Seq({t}) /\ (\A u \in Elems(ts) : u = t) /\ (c => t \in Elems(ts))
    BY Whens, Alone DEF When
  <1>4. ~Lost /\ \A u \in Elems(Tail(todo)) : u.op \in PlainOps \ {"full"}
    <2>1. Tail(todo) = LowK
      BY <1>1, Unders
    <2> QED BY <2>1, WriteTasks DEF FedInv
  <1> HIDE DEF c, ts
  <1>5. /\ Elems(todo) = {Task} \cup Elems(Tail(todo))
        /\ Elems(todo') = Elems(ts) \cup Elems(Tail(todo))
    BY <1>1, <1>3, Turned
  <1> HIDE DEF t
  <1>6. Spent' /\ MtRoom'
    <2>1. held' = held /\ Programmed' = Programmed
      BY <1>1 DEF poolVars, Programmed
    <2>2. Task.op \notin MtOps /\ Task.op \notin TakeOps
      BY <1>1 DEF MtOps, TakeOps
    <2>3. Spent'
      BY <1>5, <2>1, <2>2, SpentKept DEF FedInv
    <2> QED BY <1>1, <1>5, <2>2, <2>3, MtRoomKept DEF FedInv
  <1>7. ~Lost' /\ SameLog'
    <2>1. \A u \in Elems(todo') : u.op \notin {"lost", "full"}
      BY <1>2, <1>3, <1>4, <1>5 DEF PlainOps
    <2> QED BY <2>1 DEF Lost, Has, SameLog
  <1>8. Room'
    <2> SUFFICES ASSUME NEW i \in 1..Len(dl), dl[i].used = PagesPerBlock
                 PROVE  \E u \in Elems(todo') : u.op \in LogOps /\ u.i = i
      BY <1>1 DEF Room
    <2>1. PICK u \in Elems(todo) : u.op \in LogOps /\ u.i = i
      BY DEF FedInv, Room
    <2>2. u = Task
      BY <1>4, <1>5, <2>1 DEF LogOps, PlainOps
    <2>3. c
      BY <2>1, <2>2 DEF c
    <2> QED BY <1>2, <1>3, <1>5, <2>1, <2>2, <2>3 DEF LogOps
  <1> QED BY <1>1, <1>6, <1>7, <1>8 DEF FedInv, NoHole

-----------------------------------------------------------------------------
(***************************************************************************)
(* Steps that take a block                                                 *)
(***************************************************************************)

LEMMA SpentTaken ==
  ASSUME NftlInv, FedInv, NEW b \in Block, Alloc(b),
         NEW t \in Elems(todo'), t.op \in TakeOps, t.blk = b,
         \A u \in Elems(todo) : u.op \in TakeOps => u \in Elems(todo')
  PROVE  Spent'
  <1>1. Programmed' = Programmed /\ held' = held \cup {b}
    BY Taken DEF NftlInv
  <1> QED BY <1>1, SpentKept DEF FedInv

\* The task on top takes a block and becomes t.
LEMMA TakesFed ==
  ASSUME NftlInv, FedInv, todo # <<>>, Task.op \in {"put", "updmt", "format"},
         NEW b \in Block, Alloc(b), UNCHANGED <<dl, mtl>>,
         NEW t, t.op \in TakeOps, t.blk = b, Then(<<t>>)
  PROVE  FedInv'
  <1>1. /\ Elems(todo) = {Task} \cup Elems(Tail(todo))
        /\ Elems(todo') = {t} \cup Elems(Tail(todo))
    <2>1. <<t>> \in Seq({t}) /\ Elems(<<t>>) = {t} /\ StackOK
      BY Alone DEF NftlInv
    <2> QED BY <2>1, Turned
  <1>2. Task.op \notin LogOps \cup MtOps \cup TakeOps /\ t.op \notin EndOps
    BY DEF LogOps, MtOps, TakeOps, EndOps
  <1>3. Spent'
    BY <1>1, <1>2, SpentTaken
  <1> QED BY <1>1, <1>2, <1>3, FedKept

LEMMA PutAllocFed ==
  ASSUME NftlInv, FedInv, NEW b \in Block, PutAlloc(b)
  PROVE  FedInv'
  <1> DEFINE t == [op |-> "append", blk |-> b]
  <1>1. /\ todo # <<>> /\ Task.op = "put" /\ Alloc(b) /\ Then(<<t>>) /\ UNCHANGED <<dl, mtl>>
        /\ t.op \in TakeOps /\ t.blk = b
    BY DEF PutAlloc, Top, TakeOps
  <1> HIDE DEF t
  <1> QED BY <1>1, TakesFed

LEMMA UpdateMtAllocFed ==
  ASSUME NftlInv, FedInv, NEW b \in Block, UpdateMtAlloc(b)
  PROVE  FedInv'
  <1> DEFINE t == [op |-> "mtappend", lba |-> Task.lba, pba |-> Task.pba, blk |-> b]
  <1>1. /\ todo # <<>> /\ Task.op = "updmt" /\ Alloc(b) /\ Then(<<t>>) /\ UNCHANGED <<dl, mtl>>
        /\ t.op \in TakeOps /\ t.blk = b
    BY DEF UpdateMtAlloc, Top, TakeOps
  <1> HIDE DEF t
  <1> QED BY <1>1, TakesFed

LEMMA FormatAllocFed ==
  ASSUME NftlInv, FedInv, NEW b \in Block, FormatAlloc(b)
  PROVE  FedInv'
  <1> DEFINE t == [op |-> "mapwrite", blk |-> b]
  <1>1. /\ todo # <<>> /\ Task.op = "format" /\ Alloc(b) /\ Then(<<t>>) /\ UNCHANGED <<dl, mtl>>
        /\ t.op \in TakeOps /\ t.blk = b
    BY DEF FormatAlloc, Top, TakeOps
  <1> HIDE DEF t
  <1> QED BY <1>1, TakesFed

\* A merge, and the merge of the MapTab.
LEMMA MergeAllocFed ==
  ASSUME NftlInv, FedInv, NEW b \in Block, MergeAlloc(b)
  PROVE  FedInv'
  <1> DEFINE t == [op |-> "mergecopy", i |-> Task.i, old |-> MapTable[dl[Task.i].lba], blk |-> b]
  <1>1. /\ todo # <<>> /\ Task.op = "merge" /\ Alloc(b) /\ Then(<<t>>) /\ UNCHANGED <<dl, mtl>>
        /\ t.op = "mergecopy" /\ t.blk = b /\ t.i = Task.i
    BY DEF MergeAlloc, Top
  <1> HIDE DEF t
  <1>2. /\ Elems(todo) = {Task} \cup Elems(Tail(todo))
        /\ Elems(todo') = {t} \cup Elems(Tail(todo))
    <2>1. <<t>> \in Seq({t}) /\ Elems(<<t>>) = {t} /\ StackOK
      BY Alone DEF NftlInv
    <2> QED BY <1>1, <2>1, Turned
  <1>3. Spent'
    BY <1>1, <1>2, SpentTaken DEF TakeOps
  <1>4. MtRoom'
    BY <1>1, <1>2, MtRoomKept DEF FedInv, MtOps
  <1>5. ~Lost'
    BY <1>1, <1>2 DEF FedInv, Lost, Has
  <1>6. SameLog'
    <2>1. SameLog /\ \A u \in Elems(todo') : u.op \in {"convert", "dldel", "full"} => u \in Elems(todo)
      BY <1>1, <1>2 DEF FedInv
    <2> QED BY <2>1 DEF SameLog
  <1>7. Room'
    <2> SUFFICES ASSUME NEW i \in 1..Len(dl), dl[i].used = PagesPerBlock
                 PROVE  \E u \in Elems(todo') : u.op \in LogOps /\ u.i = i
      BY <1>1 DEF Room
    <2>1. PICK u \in Elems(todo) : u.op \in LogOps /\ u.i = i
      BY DEF FedInv, Room
    <2>2. CASE u = Task
      BY <1>1, <1>2, <2>1, <2>2 DEF LogOps
    <2> QED BY <1>2, <2>1, <2>2
  <1> QED BY <1>1, <1>3, <1>4, <1>5, <1>6, <1>7 DEF FedInv, NoHole

LEMMA MtMergeAllocFed ==
  ASSUME NftlInv, FedInv, NEW b \in Block, MtMergeAlloc(b)
  PROVE  FedInv'
  <1> DEFINE t == [op |-> "mtcopy", blk |-> b]
  <1>1. /\ todo # <<>> /\ Task.op = "mtmerge" /\ Alloc(b) /\ Then(<<t>>) /\ UNCHANGED <<dl, mtl>>
        /\ t.op = "mtcopy" /\ t.blk = b
    BY DEF MtMergeAlloc, Top
  <1> HIDE DEF t
  <1>2. /\ Elems(todo) = {Task} \cup Elems(Tail(todo))
        /\ Elems(todo') = {t} \cup Elems(Tail(todo))
    <2>1. <<t>> \in Seq({t}) /\ Elems(<<t>>) = {t} /\ StackOK
      BY Alone DEF NftlInv
    <2> QED BY <1>1, <2>1, Turned
  <1>3. Spent'
    BY <1>1, <1>2, SpentTaken DEF TakeOps
  <1>4. MtRoom'
    BY <1>1, <1>2 DEF MtRoom, MtOps
  <1>5. Task.op \notin LogOps /\ t.op \notin EndOps
    BY <1>1 DEF LogOps, EndOps
  <1>6. ~Lost' /\ Room' /\ SameLog'
    BY <1>1, <1>2, <1>5, RoomKept DEF FedInv
  <1> QED BY <1>1, <1>3, <1>4, <1>6 DEF FedInv, NoHole

LEMMA TodoSeq ==
  ASSUME NftlInv
  PROVE  \E S : todo \in Seq(S)
  <1>1. CASE todo = <<>>
    BY <1>1, PlainStacks
  <1>2. CASE todo # <<>>
    <2> DEFINE k == Tail(todo)
    <2>1. todo = <<Task>> \o k /\ k \in Seq(Under)
      BY <1>2, Stack DEF NftlInv, StackOK, GoodStack, Task
    <2> HIDE DEF k
    <2>2. <<Task>> \o k \in Seq(Under \cup {Task})
      BY <2>1, Cons
    <2> QED BY <2>1, <2>2
  <1> QED BY <1>1, <1>2

\* A block near the ECC limit.
LEMMA StartMoveFed ==
  ASSUME NftlInv, FedInv, NEW what, NEW src, NEW b \in Block, StartMove(what, src, b)
  PROVE  FedInv'
  <1> DEFINE t == [op |-> "move", what |-> what, src |-> src, blk |-> b]
  <1>1. /\ Alloc(b) /\ todo' = <<t>> \o todo /\ UNCHANGED <<dl, mtl>>
        /\ t.op = "move" /\ t.blk = b
    BY DEF StartMove
  <1> HIDE DEF t
  <1>2. \E S : todo \in Seq(S)
    BY TodoSeq
  <1>3. Elems(todo') = {t} \cup Elems(todo)
    BY <1>1, <1>2, Cons
  <1>4. Spent'
    BY <1>1, <1>3, SpentTaken DEF TakeOps
  <1>5. t.op \notin EndOps
    BY <1>1 DEF EndOps
  <1> QED BY <1>1, <1>3, <1>4, <1>5, FedKept

LEMMA MovesFed ==
  ASSUME NftlInv, FedInv, NEW b \in Block, MoveMap(b) \/ \E lpa \in Lpa : MoveLog(lpa, b) \/ MoveData(lpa, b)
  PROVE  FedInv'
  BY StartMoveFed DEF MoveMap, MoveLog, MoveData

-----------------------------------------------------------------------------
(***************************************************************************)
(* Steps that program a page                                               *)
(***************************************************************************)

LEMMA SpentBegun ==
  ASSUME NftlInv, FedInv, FirstProgram(Task.blk),
         \A u \in Elems(todo) : u = Task \/ u \in Elems(todo')
  PROVE  Spent'
  <1>1. Programmed' = Programmed \cup {Task.blk} /\ held' = held
    BY Begun DEF NftlInv, FirstProgram
  <1> QED BY <1>1, SpentKept DEF FedInv

LEMMA SpentQuiet ==
  ASSUME FedInv, UNCHANGED poolVars,
         \A u \in Elems(todo) : u.op \in TakeOps => u \in Elems(todo')
  PROVE  Spent'
  <1>1. held' = held /\ Programmed' = Programmed
    BY DEF poolVars, Programmed
  <1> QED BY <1>1, SpentKept DEF FedInv

\* Under a task of the write no log is being merged: none is full.
LEMMA RoomLeft ==
  ASSUME FedInv, Elems(todo) = {Task} \cup Elems(Tail(todo)), Task.op \notin LogOps,
         \A t \in Elems(Tail(todo)) : t.op \in PlainOps \ {"full"}
  PROVE  \A i \in 1..Len(dl) : dl[i].used # PagesPerBlock
  <1>1. \A t \in Elems(todo) : t.op \notin LogOps
    BY DEF LogOps, PlainOps
  <1> QED BY <1>1 DEF FedInv, Room

LEMMA PutInLogFed == NftlInv /\ FedInv /\ PutInLog => FedInv'
  <1> SUFFICES ASSUME NftlInv, FedInv, PutInLog PROVE FedInv'
    OBVIOUS
  <1> DEFINE i == DlIndex(LbaOf(wr[1]))
             e == dl[i]
             c == OnLog("convert", i)
             f == OnLog("full", i)
             new == [dl EXCEPT ![i].used = @ + 1, ![i].ppa[OfsOf(wr[1])] = e.used]
             g == [e EXCEPT !.used = @ + 1, !.ppa[OfsOf(wr[1])] = e.used]
  <1>1. /\ todo # <<>> /\ Task.op = "put" /\ StackOK /\ i # 0 /\ UNCHANGED <<poolVars, mtl>>
        /\ IF InOrder(e) THEN Then(<<c, f>>) /\ dl' = dl ELSE Then(<<f>>) /\ dl' = new
    BY DEF PutInLog, Top, NftlInv
  <1>2. c.op = "convert" /\ f.op = "full" /\ c.i = i /\ f.i = i
    BY DEF OnLog
  <1>3. i \in 1..Len(dl) /\ dl \in Seq(LogRec)
    <2>1. ~Lost
      BY DEF FedInv
    <2> QED BY <1>1, <2>1, Parts, Found
  <1>4. \A u \in Elems(Tail(todo)) : u.op \in PlainOps \ {"full"}
    <2>1. Tail(todo) = LowK
      BY <1>1, Unders
    <2> QED BY <2>1, WriteTasks
  <1> HIDE DEF c, f, i
  <1>5. PICK N : /\ N \in {{c, f}, {f}} /\ Elems(todo') = N \cup Elems(Tail(todo))
                 /\ Elems(todo) = {Task} \cup Elems(Tail(todo))
    <2>1. CASE InOrder(e)
      <3>1. Then(<<c, f>>) /\ <<c, f>> \in Seq({c, f}) /\ Elems(<<c, f>>) = {c, f}
        BY <1>1, <2>1, Pair
      <3> QED BY <1>1, <3>1, Turned
    <2>2. CASE ~InOrder(e)
      <3>1. Then(<<f>>) /\ <<f>> \in Seq({f}) /\ Elems(<<f>>) = {f}
        BY <1>1, <2>2, Alone
      <3> QED BY <1>1, <3>1, Turned
    <2> QED BY <2>1, <2>2
  <1>6. \A j \in 1..Len(dl) : dl[j].used # PagesPerBlock
    BY <1>1, <1>4, <1>5, RoomLeft DEF LogOps
  <1>7. /\ Len(dl') = Len(dl)
        /\ \A j \in 1..Len(dl) : dl'[j].pba = dl[j].pba /\ (j # i => dl'[j].used = dl[j].used)
    <2>1. CASE dl' = dl
      BY <2>1
    <2>2. CASE dl' = new
      <3>1. new = [dl EXCEPT ![i] = g]
        BY <1>3
      <3>2. g.pba = dl[i].pba
        BY <1>3 DEF LogRec
      <3> HIDE DEF g, new
      <3>3. Len(new) = Len(dl) /\ new[i] = g /\ \A j \in 1..Len(dl) : j # i => new[j] = dl[j]
        BY <1>3, <3>1
      <3> QED BY <2>2, <3>2, <3>3
    <2> QED BY <1>1, <2>1, <2>2
  <1>8. NoHole'
    BY <1>7 DEF FedInv, NoHole
  <1>9. Room'
    <2> SUFFICES ASSUME NEW j \in 1..Len(dl), dl'[j].used = PagesPerBlock
                 PROVE  \E u \in Elems(todo') : u.op \in LogOps /\ u.i = j
      BY <1>7 DEF Room
    <2>1. j = i
      BY <1>6, <1>7
    <2> QED BY <1>2, <1>5, <2>1 DEF LogOps
  <1>10. ~Lost' /\ SameLog'
    <2>1. ~Lost'
      BY <1>2, <1>4, <1>5 DEF Lost, Has, PlainOps
    <2>2. \A u \in Elems(todo') : u.op \in {"convert", "dldel", "full"} => u.i = i
      BY <1>2, <1>4, <1>5 DEF PlainOps
    <2> QED BY <2>1, <2>2 DEF SameLog
  <1>11. Task.op \notin MtOps /\ Task.op \notin TakeOps
    BY <1>1 DEF MtOps, TakeOps
  <1>12. MtRoom' /\ Spent'
    BY <1>1, <1>5, <1>11, MtRoomKept, SpentQuiet DEF FedInv
  <1> QED BY <1>8, <1>9, <1>10, <1>12 DEF FedInv

LEMMA PutAppendFed == NftlInv /\ FedInv /\ PutAppend => FedInv'
  <1> SUFFICES ASSUME NftlInv, FedInv, PutAppend PROVE FedInv'
    OBVIOUS
  <1>1. /\ todo # <<>> /\ Task.op = "append" /\ StackOK /\ FirstProgram(Task.blk)
        /\ dl' = Append(dl, NewLog(Task.blk)) /\ Then(<<>>) /\ UNCHANGED mtl
    BY DEF PutAppend, Top, NftlInv
  <1>2. Tail(todo) = LowK /\ Task.blk \in Block /\ NoBlock \notin Block /\ dl \in Seq(LogRec)
    <2>1. ~Lost
      BY DEF FedInv
    <2> QED BY <1>1, <2>1, Unders, Parts
  <1>3. /\ \A u \in Elems(Tail(todo)) : u.op \in PlainOps \ {"full"}
        /\ Elems(todo) = {Task} \cup Elems(Tail(todo)) /\ Elems(todo') = Elems(Tail(todo))
    BY <1>1, <1>2, WriteTasks, Stack, Popped
  <1>4. \A j \in 1..Len(dl) : dl[j].used # PagesPerBlock
    BY <1>1, <1>3, RoomLeft DEF LogOps
  <1>5. NewLog(Task.blk).pba = Task.blk /\ NewLog(Task.blk).used = 1
    BY DEF NewLog
  <1> DEFINE n == NewLog(Task.blk)
  <1> HIDE DEF n
  <1>6. /\ Len(dl') = Len(dl) + 1 /\ dl'[Len(dl) + 1] = n
        /\ \A j \in 1..Len(dl) : dl'[j] = dl[j]
    BY <1>1, <1>2 DEF n
  <1>7. ASSUME NEW j \in 1..Len(dl') PROVE dl'[j].pba # NoBlock /\ dl'[j].used # PagesPerBlock
    <2>1. CASE j \in 1..Len(dl)
      BY <1>4, <1>6, <2>1 DEF FedInv, NoHole
    <2>2. CASE j \notin 1..Len(dl)
      <3>1. j = Len(dl) + 1
        BY <1>2, <1>6, <2>2
      <3> QED BY <1>2, <1>5, <1>6, <3>1, Numbers DEF n
    <2> QED BY <2>1, <2>2
  <1>8. NoHole' /\ Room'
    BY <1>7 DEF NoHole, Room
  <1>9. ~Lost' /\ SameLog'
    BY <1>3 DEF Lost, Has, PlainOps, SameLog
  <1>10. Spent'
    BY <1>1, <1>3, SpentBegun
  <1>11. MtRoom'
    BY <1>1, <1>3, MtRoomKept DEF FedInv, MtOps
  <1> QED BY <1>8, <1>9, <1>10, <1>11 DEF FedInv

-----------------------------------------------------------------------------
(***************************************************************************)
(* Logs that end                                                           *)
(***************************************************************************)

\* A log is converted or merged: what is left is to delete it.
LEMMA EndFed ==
  ASSUME NftlInv, FedInv, todo # <<>>, Task.op \in {"convert", "mergecopy"}, NEW N,
         Elems(todo') = N \cup Elems(Tail(todo)),
         \A t \in N : t.op \in {"addgt", "updmt"} \/ (t.op = "dldel" /\ t.i = Task.i),
         \E t \in N : t.op = "dldel" /\ t.i = Task.i,
         UNCHANGED <<dl, mtl>>, Spent'
  PROVE  FedInv'
  <1>1. /\ StackOK /\ Elems(todo) = {Task} \cup Elems(Tail(todo))
        /\ \A t \in Elems(Tail(todo)) : t.op \in PlainOps
    BY Stack, PlainUnder DEF NftlInv
  <1>2. ~Lost'
    BY <1>1 DEF Lost, Has, PlainOps
  <1>3. Room'
    <2> SUFFICES ASSUME NEW i \in 1..Len(dl), dl[i].used = PagesPerBlock
                 PROVE  \E u \in Elems(todo') : u.op \in LogOps /\ u.i = i
      BY DEF Room
    <2>1. PICK u \in Elems(todo) : u.op \in LogOps /\ u.i = i
      BY DEF FedInv, Room
    <2>2. CASE u = Task
      BY <2>1, <2>2 DEF LogOps
    <2> QED BY <1>1, <2>1, <2>2
  <1>4. SameLog'
    <2> SUFFICES ASSUME NEW t \in Elems(todo'), NEW u \in Elems(todo'),
                        t.op \in {"convert", "dldel"}, u.op = "full"
                 PROVE  t.i = u.i
      BY DEF SameLog
    <2>1. t.i = Task.i
      BY <1>1 DEF PlainOps
    <2>2. u \in Elems(Tail(todo)) /\ u \in Elems(todo)
      BY <1>1
    <2>3. CASE Task.op = "convert"
      BY <1>1, <2>1, <2>2, <2>3 DEF FedInv, SameLog
    <2>4. CASE Task.op = "mergecopy"
      <3>1. Tail(todo) \in RetK
        BY <1>1, <2>4, Unders
      <3>2. u.op # "full"
        BY <2>2, <3>1, WriteTasks DEF RetK
      <3> QED BY <3>2
    <2> QED BY <2>3, <2>4
  <1>5. MtRoom'
    BY <1>1, MtRoomKept DEF FedInv, MtOps
  <1> QED BY <1>2, <1>3, <1>4, <1>5 DEF FedInv, NoHole

LEMMA MergeCopyFed == NftlInv /\ FedInv /\ MergeCopy => FedInv'
  <1> SUFFICES ASSUME NftlInv, FedInv, MergeCopy PROVE FedInv'
    OBVIOUS
  <1> DEFINE a == AddGt(<<dl[Task.i].pba>> \o When(Task.old # NoBlock, Task.old))
             u == UpdMt(dl[Task.i].lba, Task.blk)
             v == OnLog("dldel", Task.i)
  <1>1. /\ todo # <<>> /\ Task.op = "mergecopy" /\ FirstProgram(Task.blk) /\ Then(<<a, u, v>>)
        /\ UNCHANGED <<dl, mtl>> /\ StackOK
    BY DEF MergeCopy, Top, NftlInv
  <1>2. a.op = "addgt" /\ u.op = "updmt" /\ v.op = "dldel" /\ v.i = Task.i
    BY DEF AddGt, UpdMt, OnLog
  <1> HIDE DEF a, u, v
  <1>3. /\ Elems(todo) = {Task} \cup Elems(Tail(todo))
        /\ Elems(todo') = {a, u, v} \cup Elems(Tail(todo))
    <2>1. <<a, u, v>> \in Seq({a, u, v}) /\ Elems(<<a, u, v>>) = {a, u, v}
      BY Triple
    <2> QED BY <1>1, <2>1, Turned
  <1>4. Spent'
    BY <1>1, <1>3, SpentBegun
  <1> QED BY <1>1, <1>2, <1>3, <1>4, EndFed

LEMMA ConvertFed == NftlInv /\ FedInv /\ Convert => FedInv'
  <1> SUFFICES ASSUME NftlInv, FedInv, Convert PROVE FedInv'
    OBVIOUS
  <1> DEFINE c == MapTable[dl[Task.i].lba] # NoBlock
             a == AddGt(<<MapTable[dl[Task.i].lba]>>)
             u == UpdMt(dl[Task.i].lba, dl[Task.i].pba)
             v == OnLog("dldel", Task.i)
  <1>1. /\ todo # <<>> /\ Task.op = "convert" /\ Then(When(c, a) \o <<u, v>>)
        /\ UNCHANGED <<dl, mtl, poolVars>> /\ StackOK
    BY DEF Convert, Top, NftlInv
  <1>2. a.op = "addgt" /\ u.op = "updmt" /\ v.op = "dldel" /\ v.i = Task.i
    BY DEF AddGt, UpdMt, OnLog
  <1> DEFINE w == When(c, a)
             ts == w \o <<u, v>>
  <1>3. w \in Seq({a}) /\ \A x \in Elems(w) : x = a
    BY Whens
  <1> HIDE DEF a, u, v, c, w
  <1>4. ts \in Seq({a, u, v}) /\ Elems(ts) = Elems(w) \cup {u, v}
    <2>1. w \in Seq({a, u, v}) /\ <<u, v>> \in Seq({a, u, v})
      BY <1>3
    <2>2. Elems(ts) = Elems(w) \cup Elems(<<u, v>>)
      BY <2>1, Joint, ZenonT(40)
    <2> QED BY <2>1, <2>2, Pair
  <1>5. Then(ts)
    BY <1>1 DEF w
  <1> HIDE DEF ts
  <1>6. /\ Elems(todo) = {Task} \cup Elems(Tail(todo))
        /\ Elems(todo') = Elems(ts) \cup Elems(Tail(todo))
    BY <1>1, <1>4, <1>5, Turned
  <1>7. Spent'
    BY <1>1, <1>6, SpentQuiet DEF TakeOps
  <1>8. \A t \in Elems(ts) : t.op \in {"addgt", "updmt"} \/ (t.op = "dldel" /\ t.i = Task.i)
    BY <1>2, <1>3, <1>4
  <1>9. \E t \in Elems(ts) : t.op = "dldel" /\ t.i = Task.i
    BY <1>2, <1>4
  <1> QED BY <1>1, <1>6, <1>7, <1>8, <1>9, EndFed

\* The entry of the log goes, and those after it move up.
LEMMA DeleteLogFed == NftlInv /\ FedInv /\ DeleteLog => FedInv'
  <1> SUFFICES ASSUME NftlInv, FedInv, DeleteLog PROVE FedInv'
    OBVIOUS
  <1> DEFINE i == Task.i
  <1>1. /\ todo # <<>> /\ Task.op = "dldel" /\ Then(<<>>)
        /\ dl' = SubSeq(dl, 1, i - 1) \o SubSeq(dl, i + 1, Len(dl))
        /\ UNCHANGED <<poolVars, mtl>> /\ StackOK
    BY DEF DeleteLog, Top, NftlInv
  <1>2. /\ \A t \in Elems(Tail(todo)) : t.op \in PlainOps
        /\ Elems(todo) = {Task} \cup Elems(Tail(todo)) /\ Elems(todo') = Elems(Tail(todo))
    BY <1>1, PlainUnder, Stack, Popped
  <1>3. i \in 1..Len(dl) /\ dl \in Seq(LogRec)
    <2>1. ~Lost
      BY DEF FedInv
    <2> QED BY <1>1, <1>2, <2>1, Parts DEF Indices
  <1> HIDE DEF i
  <1>4. \A j \in 1..Len(dl') : \E k \in (1..Len(dl)) \ {i} : dl'[j] = dl[k]
    BY <1>1, <1>3, Removed
  <1>5. \A k \in (1..Len(dl)) \ {i} : dl[k].used # PagesPerBlock
    <2> SUFFICES ASSUME NEW k \in 1..Len(dl), dl[k].used = PagesPerBlock PROVE k = i
      OBVIOUS
    <2>1. PICK t \in Elems(todo) : t.op \in LogOps /\ t.i = k
      BY DEF FedInv, Room
    <2>2. CASE t = Task
      BY <2>1, <2>2 DEF i
    <2>3. CASE t # Task
      <3>1. t.op = "full"
        BY <1>2, <2>1, <2>3 DEF LogOps, PlainOps
      <3>2. Task.i = t.i
        BY <1>1, <1>2, <3>1 DEF FedInv, SameLog
      <3> QED BY <2>1, <3>2 DEF i
    <2> QED BY <2>2, <2>3
  <1>6. NoHole' /\ Room'
    <2>1. NoHole'
      BY <1>4 DEF FedInv, NoHole
    <2>2. \A j \in 1..Len(dl') : dl'[j].used # PagesPerBlock
      BY <1>4, <1>5
    <2> QED BY <2>1, <2>2 DEF Room
  <1>7. ~Lost' /\ SameLog'
    BY <1>2 DEF Lost, Has, PlainOps, SameLog
  <1>8. MtRoom' /\ Spent'
    <2>1. Task.op \notin MtOps /\ Task.op \notin TakeOps
      BY <1>1 DEF MtOps, TakeOps
    <2> QED BY <1>1, <1>2, <2>1, MtRoomKept, SpentQuiet DEF FedInv
  <1> QED BY <1>6, <1>7, <1>8 DEF FedInv

-----------------------------------------------------------------------------
(***************************************************************************)
(* The mapping table                                                       *)
(***************************************************************************)

\* The step leaves the logs alone and changes the MTLog block.
LEMMA MtFed ==
  ASSUME NftlInv, FedInv, todo # <<>>, Task.op \notin LogOps, NEW N,
         Elems(todo) = {Task} \cup Elems(Tail(todo)), Elems(todo') = N \cup Elems(Tail(todo)),
         \A t \in N : t.op \notin EndOps, UNCHANGED dl, Spent', MtRoom'
  PROVE  FedInv'
  <1>1. ~Lost' /\ Room' /\ SameLog'
    BY RoomKept DEF FedInv
  <1> QED BY <1>1 DEF FedInv, NoHole

LEMMA UpdateMtInsertFed == NftlInv /\ FedInv /\ UpdateMtInsert => FedInv'
  <1> SUFFICES ASSUME NftlInv, FedInv, UpdateMtInsert PROVE FedInv'
    OBVIOUS
  <1> DEFINE p == mtl[1].used
             c == p + 1 = PagesPerBlock
             t == T("mtmerge")
             ts == When(c, t)
  <1>1. /\ todo # <<>> /\ Task.op = "updmt" /\ mtl # <<>> /\ mtl' = [mtl EXCEPT ![1].used = p + 1]
        /\ Then(ts) /\ UNCHANGED <<poolVars, dl>> /\ StackOK
    BY DEF UpdateMtInsert, Top, NftlInv
  <1>2. ts \in Seq({t}) /\ (\A u \in Elems(ts) : u = t) /\ (c => t \in Elems(ts)) /\ t.op = "mtmerge"
    BY Whens, Alone DEF When, T
  <1>3. \E m \in MtlRec : mtl = <<m>>
    BY <1>1, Parts DEF FedInv
  <1> HIDE DEF ts, t
  <1>4. /\ Elems(todo) = {Task} \cup Elems(Tail(todo))
        /\ Elems(todo') = Elems(ts) \cup Elems(Tail(todo))
    BY <1>1, <1>2, Turned
  <1>5. mtl'[1].used = p + 1
    BY <1>1, <1>3 DEF MtlRec
  <1>6. MtRoom'
    BY <1>2, <1>4, <1>5 DEF MtRoom, MtOps
  <1>7. Task.op \notin LogOps /\ Task.op \notin TakeOps /\ t.op \notin EndOps
    BY <1>1, <1>2 DEF LogOps, TakeOps, EndOps
  <1>8. Spent'
    BY <1>1, <1>4, <1>7, SpentQuiet
  <1> QED BY <1>1, <1>2, <1>4, <1>6, <1>7, <1>8, MtFed

LEMMA UpdateMtAppendFed == NftlInv /\ FedInv /\ UpdateMtAppend => FedInv'
  <1> SUFFICES ASSUME NftlInv, FedInv, UpdateMtAppend PROVE FedInv'
    OBVIOUS
  <1>1. /\ todo # <<>> /\ Task.op = "mtappend" /\ FirstProgram(Task.blk) /\ Then(<<>>)
        /\ mtl' = <<[pba |-> Task.blk, used |-> 1]>> /\ UNCHANGED dl /\ StackOK
    BY DEF UpdateMtAppend, Top, NftlInv
  <1>2. Elems(todo) = {Task} \cup Elems(Tail(todo)) /\ Elems(todo') = {} \cup Elems(Tail(todo))
    BY <1>1, Stack, Popped
  <1>3. MtRoom'
    <2>1. mtl'[1].used = 1
      BY <1>1
    <2> QED BY <2>1, Numbers DEF MtRoom
  <1>4. Spent'
    BY <1>1, <1>2, SpentBegun
  <1> DEFINE N == {x \in {Task} : FALSE}
  <1>5. Elems(todo') = N \cup Elems(Tail(todo)) /\ \A t \in N : t.op \notin EndOps
    BY <1>2
  <1> HIDE DEF N
  <1> QED BY <1>1, <1>2, <1>3, <1>4, <1>5, MtFed DEF LogOps

LEMMA MtMergeCopyFed == NftlInv /\ FedInv /\ MtMergeCopy => FedInv'
  <1> SUFFICES ASSUME NftlInv, FedInv, MtMergeCopy PROVE FedInv'
    OBVIOUS
  <1> DEFINE a == AddGt(<<mt_pbas, mtl[1].pba>>)
             m == [op |-> "mtset", blk |-> Task.blk]
  <1>1. /\ todo # <<>> /\ Task.op = "mtcopy" /\ FirstProgram(Task.blk) /\ Then(<<a, m>>)
        /\ UNCHANGED <<dl, mtl>> /\ StackOK /\ a.op = "addgt" /\ m.op = "mtset"
    BY DEF MtMergeCopy, Top, NftlInv, AddGt
  <1> HIDE DEF a, m
  <1>2. /\ Elems(todo) = {Task} \cup Elems(Tail(todo))
        /\ Elems(todo') = {a, m} \cup Elems(Tail(todo))
    <2>1. <<a, m>> \in Seq({a, m}) /\ Elems(<<a, m>>) = {a, m}
      BY Pair
    <2> QED BY <1>1, <2>1, Turned
  <1>3. MtRoom'
    BY <1>1, <1>2 DEF MtRoom, MtOps
  <1>4. Spent'
    BY <1>1, <1>2, SpentBegun
  <1>5. Task.op \notin LogOps /\ \A t \in {a, m} : t.op \notin EndOps
    BY <1>1 DEF LogOps, EndOps
  <1> QED BY <1>1, <1>2, <1>3, <1>4, <1>5, MtFed

LEMMA MtMergeSetFed == NftlInv /\ FedInv /\ MtMergeSet => FedInv'
  <1> SUFFICES ASSUME NftlInv, FedInv, MtMergeSet PROVE FedInv'
    OBVIOUS
  <1>1. /\ todo # <<>> /\ Task.op = "mtset" /\ mtl' = Tail(mtl) /\ Then(<<>>)
        /\ UNCHANGED <<poolVars, dl>> /\ StackOK
    BY DEF MtMergeSet, Top, NftlInv
  <1>2. Elems(todo) = {Task} \cup Elems(Tail(todo)) /\ Elems(todo') = Elems(Tail(todo))
    BY <1>1, Stack, Popped
  <1>3. mtl' = <<>>
    <2>1. ~Lost /\ Closing
      BY <1>1, <1>2 DEF FedInv, Closing, Has
    <2>2. \E m \in MtlRec : mtl = <<m>>
      BY <2>1, Parts DEF CacheHot
    <2> QED BY <1>1, <2>2
  <1>4. MtRoom'
    BY <1>3 DEF MtRoom
  <1>5. Task.op \notin LogOps /\ Task.op \notin TakeOps
    BY <1>1 DEF LogOps, TakeOps
  <1>6. Spent'
    BY <1>1, <1>2, <1>5, SpentQuiet
  <1>7. ~Lost' /\ Room' /\ SameLog'
    BY <1>1, <1>2, <1>5, RoomKept DEF FedInv
  <1> QED BY <1>1, <1>4, <1>6, <1>7 DEF FedInv, NoHole

LEMMA FormatWriteFed == NftlInv /\ FedInv /\ FormatWrite => FedInv'
  <1> SUFFICES ASSUME NftlInv, FedInv, FormatWrite PROVE FedInv'
    OBVIOUS
  <1>1. /\ todo # <<>> /\ Task.op = "mapwrite" /\ FirstProgram(Task.blk) /\ Then(<<>>)
        /\ UNCHANGED <<dl, mtl>> /\ StackOK
    BY DEF FormatWrite, Top, NftlInv
  <1>2. Elems(todo) = {Task} \cup Elems(Tail(todo)) /\ Elems(todo') = Elems(Tail(todo))
    BY <1>1, Stack, Popped
  <1>3. Spent'
    BY <1>1, <1>2, SpentBegun
  <1>4. Task.op \notin LogOps \cup MtOps
    BY <1>1 DEF LogOps, MtOps
  <1> QED BY <1>1, <1>2, <1>3, <1>4, FedKept

-----------------------------------------------------------------------------
(***************************************************************************)
(* Moves, garbage, mounts                                                  *)
(***************************************************************************)

LEMMA MoveCopyFed == NftlInv /\ FedInv /\ MoveCopy => FedInv'
  <1> SUFFICES ASSUME NftlInv, FedInv, MoveCopy PROVE FedInv'
    OBVIOUS
  <1> DEFINE w == Task.what.op
             u == UpdMt(Task.what.lba, Task.blk)
             a == AddGt(<<Task.src>>)
             ws == When(w = "data", u)
             ts == ws \o <<a>>
  <1>1. /\ todo # <<>> /\ Task.op = "move" /\ FirstProgram(Task.blk) /\ Then(ts) /\ StackOK
        /\ dl' = IF w = "log" THEN [dl EXCEPT ![Task.what.i].pba = Task.blk] ELSE dl
        /\ mtl' = IF w = "mtl" THEN [mtl EXCEPT ![1].pba = Task.blk] ELSE mtl
    BY DEF MoveCopy, Top, NftlInv
  <1>2. /\ a.op = "addgt" /\ u.op = "updmt" /\ ~Lost /\ Task.blk \in Block /\ NoBlock \notin Block
        /\ w = "log" => Task.what.i \in 1..Len(dl)
        /\ w = "mtl" => mtl # <<>>
        /\ dl \in Seq(LogRec) /\ (mtl = <<>> \/ \E m \in MtlRec : mtl = <<m>>)
    <2>1. ~Lost /\ Task.blk \in Block
      BY <1>1, AtMove
    <2>2. TaskOK /\ dl \in Seq(LogRec) /\ (mtl = <<>> \/ \E m \in MtlRec : mtl = <<m>>)
          /\ NoBlock \notin Block
      BY <2>1, Parts
    <2> QED BY <1>1, <2>1, <2>2 DEF AddGt, UpdMt, TaskOK
  <1>3. ws \in Seq({u}) /\ \A x \in Elems(ws) : x = u
    BY Whens
  <1> HIDE DEF ws, u, a, w
  <1>4. ts \in Seq({a, u}) /\ \A x \in Elems(ts) : x = u \/ x = a
    <2>1. ws \in Seq({a, u}) /\ <<a>> \in Seq({a, u})
      BY <1>3
    <2>2. Elems(ts) = Elems(ws) \cup Elems(<<a>>)
      BY <2>1, Joint, ZenonT(40)
    <2> QED BY <1>3, <2>1, <2>2, Alone
  <1> HIDE DEF ts
  <1>5. /\ Elems(todo) = {Task} \cup Elems(Tail(todo))
        /\ Elems(todo') = Elems(ts) \cup Elems(Tail(todo))
    BY <1>1, <1>4, Turned
  <1>6. /\ Len(dl') = Len(dl)
        /\ \A j \in 1..Len(dl) : dl'[j].used = dl[j].used /\ dl'[j].pba \in {dl[j].pba, Task.blk}
    <2>1. CASE w = "log"
      <3> DEFINE i == Task.what.i
                 g == [dl[i] EXCEPT !.pba = Task.blk]
      <3>1. i \in 1..Len(dl) /\ dl' = [dl EXCEPT ![i] = g]
        BY <1>1, <1>2, <2>1
      <3>2. g.used = dl[i].used /\ g.pba = Task.blk
        BY <1>2, <3>1 DEF LogRec
      <3> HIDE DEF g, i
      <3>3. Len(dl') = Len(dl) /\ dl'[i] = g /\ \A j \in 1..Len(dl) : j # i => dl'[j] = dl[j]
        BY <1>2, <3>1
      <3> QED BY <3>2, <3>3
    <2>2. CASE w # "log"
      BY <1>1, <2>2
    <2> QED BY <2>1, <2>2
  <1>7. NoHole'
    BY <1>2, <1>6 DEF FedInv, NoHole
  <1>8. \A t \in Elems(todo') : t \in Elems(todo) \/ t.op \in {"addgt", "updmt"}
    BY <1>2, <1>4, <1>5
  <1>9. Room'
    <2> SUFFICES ASSUME NEW i \in 1..Len(dl), dl[i].used = PagesPerBlock
                 PROVE  \E t \in Elems(todo') : t.op \in LogOps /\ t.i = i
      BY <1>6 DEF Room
    <2>1. PICK t \in Elems(todo) : t.op \in LogOps /\ t.i = i
      BY DEF FedInv, Room
    <2>2. t # Task
      BY <1>1, <2>1 DEF LogOps
    <2> QED BY <1>5, <2>1, <2>2
  <1>10. ~Lost' /\ SameLog'
    <2>1. ~Lost'
      BY <1>2, <1>8 DEF Lost, Has
    <2>2. \A t \in Elems(todo') : t.op \in {"convert", "dldel", "full"} => t \in Elems(todo)
      BY <1>8
    <2> QED BY <2>1, <2>2 DEF FedInv, SameLog
  <1>11. Spent'
    BY <1>1, <1>5, SpentBegun
  <1>12. MtRoom'
    <2>1. mtl' # <<>> => mtl # <<>> /\ mtl'[1].used = mtl[1].used
      <3>1. CASE w # "mtl"
        BY <1>1, <3>1
      <3>2. CASE w = "mtl"
        <4>1. PICK m \in MtlRec : mtl = <<m>>
          BY <1>2, <3>2
        <4>2. mtl' = <<[m EXCEPT !.pba = Task.blk]>> /\ mtl[1] = m
          BY <1>1, <3>2, <4>1
        <4>3. [m EXCEPT !.pba = Task.blk].used = m.used
          BY <4>1 DEF MtlRec
        <4> QED BY <4>1, <4>2, <4>3
      <3> QED BY <3>1, <3>2
    <2>2. \A t \in Elems(todo) : t.op \in MtOps => t \in Elems(todo')
      BY <1>1, <1>5 DEF MtOps
    <2> QED BY <2>1, <2>2 DEF FedInv, MtRoom
  <1> QED BY <1>7, <1>9, <1>10, <1>11, <1>12 DEF FedInv

LEMMA AddGarbageFed == NftlInv /\ FedInv /\ AddGarbage => FedInv'
  <1> SUFFICES ASSUME NftlInv, FedInv, AddGarbage PROVE FedInv'
    OBVIOUS
  <1> DEFINE g == Task.g
  <1>1. /\ todo # <<>> /\ Task.op = "addgt" /\ Then(<<>>) /\ StackOK
        /\ AddToGt(g) \/ AddToNoGt(g) \/ \E b \in Block : AddToNewGt(g, b)
        /\ UNCHANGED <<flash, dl, mtl>>
    BY DEF AddGarbage, Top, NftlInv
  <1>2. Elems(todo) = {Task} \cup Elems(Tail(todo)) /\ Elems(todo') = Elems(Tail(todo))
    BY <1>1, Stack, Popped
  <1>3. g \in Seq(Block) /\ Len(g) \in 1..2 /\ (Len(g) = 2 => g[1] # g[2]) /\ Elems(g) \subseteq Programmed
    <2>1. g \in Seq(Block)
      <3>1. Lies(Task, Tail(todo))
        BY <1>1, Stack
      <3> QED BY <1>1, <3>1 DEF Lies, T, UpdMts, MtSets
    <2>2. Task \in Has("addgt") /\ GarbLists
      BY <1>1, <1>2 DEF Has, NftlInv
    <2>3. Garb \subseteq Programmed
      BY Members DEF FedInv
    <2>4. Elems(g) \subseteq Garb
      BY <2>2 DEF Garb
    <2> QED BY <2>1, <2>2, <2>3, <2>4 DEF GarbLists
  <1>4. Programmed' = Programmed \ Elems(g)
    <2>1. g \in Retirable
      BY <1>3, Retires
    <2> QED BY <1>1, <2>1, Retired DEF NftlInv
  <1>5. held' = held \ Elems(g)
    BY <1>1 DEF AddToGt, AddToNoGt, AddToNewGt, EnterGarbage
  <1>6. Task.op \notin LogOps \cup MtOps /\ Task.op \notin TakeOps
    BY <1>1 DEF LogOps, MtOps, TakeOps
  <1>7. Spent'
    <2>1. \A b \in held' \ Programmed' : b \in held \ Programmed
      BY <1>4, <1>5
    <2> QED BY <1>2, <1>6, <2>1, SpentKept DEF FedInv
  <1> QED BY <1>1, <1>2, <1>6, <1>7, FedKept

LEMMA ReclaimFed == NftlInv /\ FedInv /\ Reclaim => FedInv'
  <1> SUFFICES ASSUME NftlInv, FedInv, Reclaim PROVE FedInv'
    OBVIOUS
  <1>1. UNCHANGED <<mtl, dl, todo>> /\ held' = held
    BY DEF Reclaim, EraseGarbage, EraseGt, EraseNoGt, ReclaimDone
  <1>2. Programmed' = Programmed
    BY Cleaned DEF NftlInv, TypesOK
  <1>3. Elems(todo') = Elems(todo)
    BY <1>1
  <1>4. Spent'
    BY <1>1, <1>2, <1>3, SpentKept DEF FedInv
  <1> QED BY <1>1, <1>3, <1>4, FedKept

LEMMA RemountFed == NftlInv /\ FedInv /\ Remount => FedInv'
  <1> SUFFICES ASSUME NftlInv, FedInv, Remount PROVE FedInv'
    OBVIOUS
  <1>1. todo = <<>> /\ todo' = <<>> /\ Idle /\ MountScan
    BY DEF Remount, Idle, MountScan
  <1>2. Elems(todo) = {} /\ Elems(todo') = {}
    BY <1>1, PlainStacks
  <1>3. /\ mtl' = mtl
        /\ \A i \in 1..Len(dl') : dl'[i] \in Logs /\ dl'[i].pba # NoBlock
    BY <1>1, MountTables
  <1>4. held' \subseteq Programmed'
    <2>1. PICK lf \in Block : PoolMount(lf)
      BY <1>1, MountTables
    <2>2. SoundInv /\ gcpc = "idle"
      BY <1>1 DEF NftlInv, Idle
    <2>3. held' = {b \in held : media[b] = "used"}
      BY <2>1, <2>2, SoundMount, MountFinds
    <2>4. media' = media
      BY <2>1 DEF PoolMount
    <2> QED BY <2>3, <2>4 DEF Programmed
  <1>5. \A i \in 1..Len(dl) : dl[i].used # PagesPerBlock
    BY <1>2 DEF FedInv, Room
  <1>6. \A i \in 1..Len(dl') : dl'[i].used # PagesPerBlock
    <2> TAKE i \in 1..Len(dl')
    <2>1. PICK j \in 1..Len(dl) : dl'[i] = dl[j]
      <3>1. \A e \in Logs : \E x \in 1..Len(dl) : e = dl[x]
        BY DEF Logs
      <3> QED BY <1>3, <3>1
    <2> QED BY <1>5, <2>1
  <1>7. NoHole' /\ Room'
    BY <1>3, <1>6 DEF NoHole, Room
  <1>8. ~Lost' /\ SameLog' /\ Spent'
    BY <1>2, <1>4 DEF Lost, Has, SameLog, Spent
  <1>9. MtRoom'
    BY <1>2, <1>3 DEF FedInv, MtRoom
  <1> QED BY <1>7, <1>8, <1>9 DEF FedInv

-----------------------------------------------------------------------------
(***************************************************************************)
(* The invariant                                                           *)
(***************************************************************************)

\* Between two calls every log takes another page.
LEMMA FedWritable ==
  ASSUME NftlInv, FedInv, todo = <<>>
  PROVE  Writable
  <1>1. Elems(todo) = {} /\ ~Lost /\ dl \in Seq(LogRec)
    BY AtRest, Parts
  <1>2. PagesPerBlock \in Nat /\ \A n \in 1..PagesPerBlock : n # PagesPerBlock => n < PagesPerBlock
    BY Numbers
  <1> SUFFICES ASSUME NEW i \in 1..Len(dl)
               PROVE  dl[i].pba # NoBlock /\ dl[i].used < PagesPerBlock
    BY DEF Writable
  <1>3. dl[i] \in LogRec
    BY <1>1
  <1>4. dl[i].used \in 1..PagesPerBlock /\ dl[i].used # PagesPerBlock
    BY <1>1, <1>3 DEF LogRec, FedInv, Room
  <1> QED BY <1>2, <1>4 DEF FedInv, NoHole

\* No write finds its log at block 0xffff or full.
LEMMA FedPut ==
  ASSUME NftlInv, FedInv
  PROVE  ~PutHoleWrite /\ ~PutHoleNowhere /\ ~PutOverrun /\ \A b \in Block : ~PutHoleAlloc(b)
  <1> DEFINE i == DlIndex(LbaOf(wr[1]))
  <1>1. StackOK /\ OneLog /\ Ready /\ dl \in Seq(LogRec) /\ PagesPerBlock \in Nat
    BY Parts, Numbers DEF FedInv
  <1>2. ~PutHoleWrite
    <2>1. todo # <<>> => Lies(Task, Tail(todo))
      BY <1>1 DEF StackOK, GoodStack, Task
    <2>2. todo # <<>> => Task.op # "holewrite"
      BY <2>1 DEF Lies, T, UpdMts, MtSets
    <2> QED BY <2>2 DEF PutHoleWrite, Top
  <1>3. ASSUME Top("put"), i # 0 PROVE dl[i].pba # NoBlock /\ dl[i].used < PagesPerBlock
    <2>1. i \in 1..Len(dl) /\ dl[i].lba = LbaOf(wr[1])
      BY <1>1, <1>3, Found
    <2>2. T("put") \in Elems(todo)
      BY <1>1, <1>3, Unders, Stack DEF Top
    <2> QED BY <1>1, <2>1, <2>2 DEF Ready
  <1>4. ASSUME Top("put"), i # 0 PROVE dl[i].used # PagesPerBlock
    <2>1. i \in 1..Len(dl) /\ dl[i] \in LogRec
      BY <1>1, <1>4, Found
    <2> QED BY <1>1, <1>3, <1>4, <2>1 DEF LogRec
  <1>5. ~PutHoleNowhere /\ \A b \in Block : ~PutHoleAlloc(b)
    BY <1>3 DEF PutHoleNowhere, PutHoleAlloc
  <1>6. ~PutOverrun
    BY <1>4 DEF PutOverrun
  <1> QED BY <1>2, <1>5, <1>6

\* Where there is a free block, no step goes on with block 0xffff.
LEMMA Fed ==
  ASSUME NftlInv, FedInv, NeverStarved
  PROVE  ~PutNowhere /\ ~MergeNoFree /\ ~MergeEio /\ ~UpdateMtNowhere /\ ~MtMergeNowhere
  <1>1. ~PutNowhere /\ ~MergeNoFree /\ ~UpdateMtNowhere /\ ~MtMergeNowhere
    BY DEF NeverStarved, PutNowhere, MergeNoFree, UpdateMtNowhere, MtMergeNowhere, Top
  <1>2. ~MergeEio
    <2> SUFFICES ASSUME MergeEio PROVE FALSE
      OBVIOUS
    <2>1. todo # <<>> /\ Task.op = "mergecopy" /\ dl[Task.i].pba = NoBlock
      BY DEF MergeEio, Top
    <2>2. Indices /\ StackOK
      BY Parts DEF FedInv
    <2>3. Task \in Elems(todo)
      BY <2>1, <2>2, Stack
    <2>4. Task.i \in 1..Len(dl)
      BY <2>1, <2>2, <2>3 DEF Indices
    <2> QED BY <2>1, <2>4 DEF FedInv, NoHole
  <1> QED BY <1>1, <1>2

LEMMA FedStep == NftlInv /\ FedInv /\ NeverStarved /\ (Next \/ Remount) => FedInv'
  <1> SUFFICES ASSUME NftlInv, FedInv, NeverStarved, Next \/ Remount PROVE FedInv'
    OBVIOUS
  <1>1. CASE Call
    <2>1. ASSUME NEW lpa \in Lpa, NEW d \in HostWrites(lpa), WriteLogicPage(lpa, d) PROVE FedInv'
      BY <2>1, WriteFed
    <2>2. ASSUME NEW lpa \in Lpa, Read(lpa) PROVE FedInv'
      BY <2>2, ReadFed
    <2>3. ASSUME NEW lpa \in Lpa, NEW b \in Block, MoveLog(lpa, b) \/ MoveData(lpa, b) PROVE FedInv'
      BY <2>3, MovesFed
    <2> QED BY <1>1, <2>1, <2>2, <2>3 DEF Call
  <1>2. CASE Proceed
    <2>1. ASSUME NEW b \in Block,
                 \/ PutAlloc(b) \/ MergeAlloc(b) \/ UpdateMtAlloc(b)
                 \/ MtMergeAlloc(b) \/ FormatAlloc(b)
          PROVE  FedInv'
      BY <2>1, PutAllocFed, MergeAllocFed, UpdateMtAllocFed, MtMergeAllocFed, FormatAllocFed
    <2>2. CASE ManyPages \/ MergeLoop \/ PutInLog \/ PutAppend \/ Convert \/ DeleteLog \/ FullLog
      BY <2>2, ManyPagesFed, MergeLoopFed, PutInLogFed, PutAppendFed, ConvertFed, DeleteLogFed,
         FullLogFed
    <2>3. CASE LowSpace \/ WriteReturns \/ MergeCopy \/ UpdateMtInsert \/ UpdateMtAppend
      BY <2>3, LowSpaceFed, WriteReturnsFed, MergeCopyFed, UpdateMtInsertFed, UpdateMtAppendFed
    <2>4. CASE MtMergeCopy \/ MtMergeSet \/ AddGarbage \/ Reclaim \/ MoveCopy \/ FormatWrite
      BY <2>4, MtMergeCopyFed, MtMergeSetFed, AddGarbageFed, ReclaimFed, MoveCopyFed, FormatWriteFed
    <2> QED BY <1>2, <2>1, <2>2, <2>3, <2>4, Fed, FedPut DEF Proceed
  <1>3. ASSUME NEW b \in Block, MoveMap(b) PROVE FedInv'
    BY <1>3, MovesFed
  <1> QED BY <1>1, <1>2, <1>3, RemountFed DEF Next

LEMMA FedInit == Init => FedInv
  <1> SUFFICES ASSUME Init PROVE FedInv
    OBVIOUS
  <1>1. dl = <<>> /\ mtl = <<>> /\ todo = <<T("format")>> /\ held = {}
    BY DEF Init, PoolInit
  <1>2. Elems(todo) = {T("format")} /\ T("format").op = "format" /\ Len(dl) = 0
    BY <1>1, Alone DEF T
  <1>3. ~Lost /\ SameLog
    BY <1>2 DEF Lost, Has, SameLog
  <1>4. NoHole /\ Room
    BY <1>2 DEF NoHole, Room
  <1>5. Spent /\ MtRoom
    BY <1>1 DEF Spent, MtRoom
  <1> QED BY <1>3, <1>4, <1>5 DEF FedInv

LEMMA FedStutter == FedInv /\ UNCHANGED vars => FedInv'
  <1> SUFFICES ASSUME FedInv, UNCHANGED vars PROVE FedInv'
    OBVIOUS
  <1>1. UNCHANGED <<dl, mtl, poolVars, todo>>
    BY DEF vars
  <1>2. Elems(todo') = Elems(todo)
    BY <1>1
  <1> QED BY <1>1, <1>2, FedQuiet

\* A step of the translation layer keeps the tables and is a step of the pool.
LEMMA NftlStep == NftlInv /\ FedInv /\ NeverStarved /\ (Next \/ Remount) => NftlInv' /\ PoolStep
  <1> SUFFICES ASSUME NftlInv, FedInv, NeverStarved, Next \/ Remount PROVE NftlInv' /\ PoolStep
    OBVIOUS
  <1>1. CASE Call
    <2>1. ASSUME NEW lpa \in Lpa, NEW d \in HostWrites(lpa), WriteLogicPage(lpa, d)
          PROVE  NftlInv' /\ PoolStep
      <3>1. Writable
        BY <2>1, FedWritable DEF WriteLogicPage, Idle
      <3> QED BY <2>1, <3>1, WriteOK
    <2>2. ASSUME NEW lpa \in Lpa, Read(lpa) PROVE NftlInv' /\ PoolStep
      BY <2>2, ReadOK
    <2>3. ASSUME NEW lpa \in Lpa, NEW b \in Block, MoveLog(lpa, b) \/ MoveData(lpa, b)
          PROVE  NftlInv' /\ PoolStep
      BY <2>3, MoveLogOK, MoveDataOK
    <2> QED BY <1>1, <2>1, <2>2, <2>3 DEF Call
  <1>2. CASE ManyPages \/ MergeLoop \/ PutInLog \/ PutAppend
    BY <1>2, ManyPagesOK, MergeLoopOK, PutInLogOK, PutAppendOK
  <1>3. CASE Convert \/ DeleteLog \/ FullLog \/ LowSpace \/ WriteReturns \/ MergeCopy
    BY <1>3, ConvertOK, DeleteLogOK, FullLogOK, LowSpaceOK, WriteReturnsOK, MergeCopyOK
  <1>4. CASE UpdateMtInsert \/ UpdateMtAppend \/ MtMergeCopy \/ MtMergeSet
    BY <1>4, UpdateMtInsertOK, UpdateMtAppendOK, MtMergeCopyOK, MtMergeSetOK
  <1>5. CASE AddGarbage \/ Reclaim \/ MoveCopy \/ FormatWrite
    BY <1>5, AddGarbageOK, ReclaimOK, MoveCopyOK, FormatWriteOK
  <1>6. ASSUME NEW b \in Block, \/ PutAlloc(b) \/ MergeAlloc(b) \/ UpdateMtAlloc(b)
                                \/ MtMergeAlloc(b) \/ FormatAlloc(b)
        PROVE  NftlInv' /\ PoolStep
    BY <1>6, PutAllocOK, MergeAllocOK, UpdateMtAllocOK, MtMergeAllocOK, FormatAllocOK
  <1>7. ASSUME NEW b \in Block, MoveMap(b) PROVE NftlInv' /\ PoolStep
    BY <1>7, MoveMapOK
  <1>8. CASE Proceed
    BY <1>2, <1>3, <1>4, <1>5, <1>6, <1>8, Fed, FedPut DEF Proceed
  <1> QED BY <1>1, <1>7, <1>8, RemountOK DEF Next

\* The invariants hold between two mounts and across restarts.
LEMMA NftlInvariant == RestartsSpec /\ []NeverStarved => [](NftlInv /\ FedInv)
  <1>1. NftlInv /\ FedInv /\ NeverStarved /\ [Next \/ Remount]_vars => NftlInv' /\ FedInv'
    BY NftlStep, FedStep, NftlStutter, FedStutter
  <1>2. Init => NftlInv /\ FedInv
    BY NftlInit, FedInit
  <1> QED BY <1>1, <1>2, PTL DEF RestartsSpec

\* As long as nftl_get_free_block finds a block whenever a log, a merge or the mapping
\* table needs one, the translation layer uses the block pool as module NftlPool says:
\* whatever nftl_merge_dlblk, nftl_merge_mtlblk, nftl_block_replace, a conversion or a
\* mount do with the tables, they program each block they were handed once and enter as
\* garbage only blocks that they hold and have programmed, each of them once.  The
\* specification of the translation layer thereby implements that of the pool.
THEOREM NftlUsesPool == RestartsSpec /\ []NeverStarved => UsesPool
  <1>1. Init => PoolInit
    BY DEF Init
  <1>2. NftlInv /\ FedInv /\ NeverStarved /\ [Next \/ Remount]_vars =>
          [UNCHANGED poolVars \/ GoodStep \/ Restart]_poolVars
    <2> SUFFICES ASSUME NftlInv, FedInv, NeverStarved, [Next \/ Remount]_vars
                 PROVE  UNCHANGED poolVars \/ GoodStep \/ Restart
      OBVIOUS
    <2>1. CASE Next \/ Remount
      BY <2>1, NftlStep DEF PoolStep
    <2>2. CASE UNCHANGED vars
      BY <2>2 DEF vars
    <2> QED BY <2>1, <2>2
  <1> QED BY <1>1, <1>2, NftlInvariant, PTL DEF RestartsSpec, UsesPool

\* So what is proved of the pool holds in the translation layer, as long as it finds free
\* blocks: no block has two roles, the GarbageTab has room, and no erase hits a block in
\* use.
THEOREM NftlRoles ==
  RestartsSpec /\ []NeverStarved => []OneRole /\ []GtRoom /\ EraseSpares
  <1>1. UsesPool => RestartSpec
    <2>1. [UNCHANGED poolVars \/ GoodStep \/ Restart]_poolVars => [GoodStep \/ Restart]_poolVars
      OBVIOUS
    <2> QED BY <2>1, PTL DEF UsesPool, RestartSpec
  <1> QED BY <1>1, NftlUsesPool, MountOneRole, MountGtRoom, MountEraseSpares, PTL

\* Every step programs blank pages.
LEMMA StepOnce == NftlInv /\ FedInv /\ NeverStarved /\ (Next \/ Remount) => Once
  <1> SUFFICES ASSUME NftlInv, FedInv, NeverStarved, Next \/ Remount PROVE Once
    OBVIOUS
  <1>0. flash \in [Block -> [Page -> PageRec]]
    BY DEF NftlInv, TypesOK
  <1>1. ASSUME flash' = flash PROVE Once
    BY <1>1 DEF Once
  <1>2. ASSUME NEW b, FirstProgram(b), \E F : flash' = [flash EXCEPT ![b] = F] PROVE Once
    <2>1. \A x \in Block : x # b => flash'[x] = flash[x]
      BY <1>0, <1>2
    <2> QED BY <1>2, <2>1, FreshOnce
  <1>3. ASSUME NEW b, FirstProgram(b), \E c : flash' = [flash EXCEPT ![b][0] = c] PROVE Once
    <2>1. \A x \in Block : x # b => flash'[x] = flash[x]
      BY <1>0, <1>3
    <2> QED BY <1>3, <2>1, FreshOnce
  <1>4. CASE Remount
    BY <1>1, <1>4 DEF Remount, MountScan
  <1>5. CASE Call
    BY <1>1, <1>5 DEF Call, WriteLogicPage, Read, MoveLog, MoveData, StartMove
  <1>6. ASSUME NEW b \in Block, MoveMap(b) PROVE Once
    BY <1>1, <1>6 DEF MoveMap, StartMove
  <1>7. CASE PutInLog \/ UpdateMtInsert \/ Reclaim
    BY <1>7, PutInLogOnce, UpdateMtOnce, ReclaimOnce
  <1>8. CASE PutAppend \/ UpdateMtAppend \/ FormatWrite
    BY <1>3, <1>8 DEF PutAppend, UpdateMtAppend, FormatWrite
  <1>9. CASE MergeCopy \/ MtMergeCopy \/ MoveCopy
    BY <1>2, <1>9 DEF MergeCopy, MtMergeCopy, MoveCopy
  <1>10. CASE ManyPages \/ MergeLoop \/ Convert \/ DeleteLog \/ FullLog \/ LowSpace
    BY <1>1, <1>10 DEF ManyPages, MergeLoop, Convert, DeleteLog, FullLog, LowSpace
  <1>11. CASE WriteReturns \/ MtMergeSet \/ AddGarbage
    BY <1>1, <1>11 DEF WriteReturns, MtMergeSet, AddGarbage
  <1>12. ASSUME NEW b \in Block, \/ PutAlloc(b) \/ MergeAlloc(b) \/ UpdateMtAlloc(b)
                                 \/ MtMergeAlloc(b) \/ FormatAlloc(b)
         PROVE  Once
    BY <1>1, <1>12 DEF PutAlloc, MergeAlloc, UpdateMtAlloc, MtMergeAlloc, FormatAlloc
  <1>13. CASE Proceed
    BY <1>7, <1>8, <1>9, <1>10, <1>11, <1>12, <1>13, Fed, FedPut DEF Proceed
  <1> QED BY <1>4, <1>5, <1>6, <1>13 DEF Next

\* As long as nftl_get_free_block finds a block whenever a log, a merge or the mapping
\* table needs one, a page is programmed once between two erases of its block: the next
\* page of a DataLog or MTLog block, as RAM counts it or as a mount has counted it, is
\* blank, and so are all pages of a block that nftl_get_free_block returned.
THEOREM NftlProgramsOnce == RestartsSpec /\ []NeverStarved => ProgramOnce
  <1>1. NftlInv /\ FedInv /\ NeverStarved /\ [Next \/ Remount]_vars =>
          [\A b \in Block, p \in Page :
             flash[b][p] # BlankPage => flash'[b][p] \in {flash[b][p], BlankPage}]_vars
    BY StepOnce DEF Once
  <1> QED BY <1>1, NftlInvariant, PTL DEF RestartsSpec, ProgramOnce

\* As long as nftl_get_free_block finds a block whenever a log, a merge or the mapping
\* table needs one, every log has a page left between two calls: what
\* nftl_write_logicpage and nftl_update_mt program next is a page of the log.
THEOREM NftlLogHasRoom == RestartsSpec /\ []NeverStarved => []LogHasRoom
  <1>1. NftlInv /\ FedInv => LogHasRoom
    <2> SUFFICES ASSUME NftlInv, FedInv, Idle
                 PROVE  /\ \A i \in 1..Len(dl) : dl[i].used < PagesPerBlock
                        /\ \A i \in 1..Len(mtl) : mtl[i].used < PagesPerBlock
      BY DEF LogHasRoom
    <2>1. /\ Elems(todo) = {} /\ ~Lost /\ dl \in Seq(LogRec)
          /\ mtl = <<>> \/ \E m \in MtlRec : mtl = <<m>>
      BY AtRest, Parts DEF Idle
    <2>2. PagesPerBlock \in Nat /\ \A n \in 1..PagesPerBlock : n # PagesPerBlock => n < PagesPerBlock
      BY Numbers
    <2>3. \A i \in 1..Len(dl) : dl[i].used < PagesPerBlock
      BY FedWritable DEF Idle, Writable
    <2>4. ASSUME NEW i \in 1..Len(mtl) PROVE mtl[i].used < PagesPerBlock
      <3>1. PICK m \in MtlRec : mtl = <<m>>
        BY <2>1
      <3>2. i = 1 /\ mtl # <<>> /\ mtl[1] = m
        BY <3>1
      <3>3. m.used \in 1..PagesPerBlock /\ m.used # PagesPerBlock
        BY <2>1, <3>2 DEF MtlRec, FedInv, MtRoom
      <3> QED BY <2>2, <3>2, <3>3
    <2> QED BY <2>3, <2>4
  <1> QED BY <1>1, NftlInvariant, PTL

\* What the entries of the tables name.
LEMMA Kinds ==
  ASSUME NEW n \in Entries
  PROVE  \/ n = <<"mt", 1>> /\ Named(n) = mt_pbas
         \/ \E i \in 1..Len(mtl) : n = <<"mtl", i>> /\ Named(n) = mtl[i].pba
         \/ \E i \in 1..Len(dl) : n = <<"log", i>> /\ Named(n) = dl[i].pba
         \/ \E l \in Lba : MapTable[l] # NoBlock /\ n = <<"map", l>> /\ Named(n) = MapTable[l]
  BY DEF Entries, Named

LEMMA NamedBy ==
  /\ \E n \in Entries : Named(n) = mt_pbas
  /\ \A i \in 1..Len(mtl) : \E n \in Entries : Named(n) = mtl[i].pba
  /\ \A i \in 1..Len(dl) : \E n \in Entries : Named(n) = dl[i].pba
  /\ \A l \in Lba : MapTable[l] # NoBlock => \E n \in Entries : Named(n) = MapTable[l]
  <1>1. \E n \in Entries : Named(n) = mt_pbas
    <2>1. <<"mt", 1>> \in Entries /\ Named(<<"mt", 1>>) = mt_pbas
      BY DEF Entries, Named
    <2> QED BY <2>1
  <1>2. ASSUME NEW i \in 1..Len(mtl) PROVE \E n \in Entries : Named(n) = mtl[i].pba
    <2>1. <<"mtl", i>> \in Entries /\ Named(<<"mtl", i>>) = mtl[i].pba
      BY DEF Entries, Named
    <2> QED BY <2>1
  <1>3. ASSUME NEW i \in 1..Len(dl) PROVE \E n \in Entries : Named(n) = dl[i].pba
    <2>1. <<"log", i>> \in Entries /\ Named(<<"log", i>>) = dl[i].pba
      BY DEF Entries, Named
    <2> QED BY <2>1
  <1>4. ASSUME NEW l \in Lba, MapTable[l] # NoBlock PROVE \E n \in Entries : Named(n) = MapTable[l]
    <2>1. <<"map", l>> \in Entries /\ Named(<<"map", l>>) = MapTable[l]
      BY <1>4 DEF Entries, Named
    <2> QED BY <2>1
  <1> QED BY <1>1, <1>2, <1>3, <1>4

\* As long as nftl_get_free_block finds a block whenever a log, a merge or the mapping
\* table needs one, every block that was taken and not given back is named by exactly
\* one entry of the tables between two calls: merges, conversions and moves leak none.
THEOREM NftlAccounted == RestartsSpec /\ []NeverStarved => []Accounted
  <1>1. NftlInv /\ FedInv => Accounted
    <2> SUFFICES ASSUME NftlInv, FedInv, Idle
                 PROVE  /\ {Named(n) : n \in Entries} = held
                        /\ \A m, n \in Entries : Named(m) = Named(n) => m = n
      BY DEF Accounted
    <2>1. /\ Elems(todo) = {} /\ ~Lost /\ ~Closing /\ mt_pbas # NoBlock /\ Dying = {} /\ Garb = {}
          /\ Map = CurMap
      BY AtRest DEF Idle
    <2>2. MapTable = Map
      BY <2>1, MapSeen
    <2>3. held = Programmed
      BY <2>1 DEF FedInv, Spent, Taking, Programmed
    <2> DEFINE A == LogBlocks(Logs)
               B == DataBlocks(Map)
    <2>4. /\ A \cup B \cup MtBlocks = held /\ A \cap B = {} /\ (A \cup B) \cap MtBlocks = {}
          /\ \A k, l \in Lba : Map[k] = Map[l] /\ Map[k] # NoBlock => k = l
      BY <2>1, <2>3, Parts DEF Tables, Owned
    <2>5. /\ A = {dl[i].pba : i \in 1..Len(dl)}
          /\ \A i, j \in 1..Len(dl) : dl[i].pba = dl[j].pba => i = j
      <3>1. \A i \in 1..Len(dl) : dl[i].pba # NoBlock
        BY DEF FedInv, NoHole
      <3>2. Logs = {dl[i] : i \in 1..Len(dl)}
        BY <2>1 DEF Logs
      <3>3. A = {dl[i].pba : i \in 1..Len(dl)}
        BY <3>1, <3>2 DEF LogBlocks
      <3> QED BY <2>1, <3>1, <3>3, Members
    <2>6. B = {Map[l] : l \in {k \in Lba : Map[k] # NoBlock}}
      BY DEF DataBlocks
    <2>7. /\ MtBlocks = {mt_pbas} \cup {mtl[i].pba : i \in 1..Len(mtl)}
          /\ \A i \in 1..Len(mtl) : i = 1 /\ mtl[i].pba # mt_pbas
      <3>1. MtBlocks = {mt_pbas} \cup {mtl[i].pba : i \in 1..Len(mtl)}
        BY <2>1 DEF MtBlocks
      <3>2. mtl = <<>> \/ \E m \in MtlRec : mtl = <<m>>
        BY <2>1, Parts
      <3>3. mtl # <<>> => mtl[1].pba # mt_pbas
        BY <2>1, Parts DEF Tables
      <3> QED BY <3>1, <3>2, <3>3
    <2> HIDE DEF A, B
    <2>8. ASSUME NEW n \in Entries PROVE Named(n) \in held
      BY <2>2, <2>4, <2>5, <2>6, <2>7, Kinds
    <2>9. ASSUME NEW b \in held PROVE \E n \in Entries : Named(n) = b
      <3>1. CASE b \in A
        BY <2>5, <3>1, NamedBy
      <3>2. CASE b \in B
        BY <2>2, <2>6, <3>2, NamedBy
      <3>3. CASE b \in MtBlocks
        BY <2>7, <3>3, NamedBy
      <3> QED BY <2>4, <3>1, <3>2, <3>3
    <2>10. ASSUME NEW m \in Entries, NEW n \in Entries, Named(m) = Named(n) PROVE m = n
      <3>1. CASE Named(m) \in MtBlocks
        <4>1. ASSUME NEW x \in Entries, Named(x) \in MtBlocks
              PROVE  \/ x = <<"mt", 1>> /\ Named(x) = mt_pbas
                     \/ x = <<"mtl", 1>> /\ Named(x) # mt_pbas
          BY <2>2, <2>4, <2>5, <2>6, <2>7, <4>1, Kinds, SMTT(40)
        <4> QED BY <2>10, <3>1, <4>1
      <3>2. CASE Named(m) \in A
        <4>1. ASSUME NEW x \in Entries, Named(x) \in A
              PROVE  \E i \in 1..Len(dl) : x = <<"log", i>> /\ Named(x) = dl[i].pba
          BY <2>2, <2>4, <2>5, <2>6, <2>7, <4>1, Kinds
        <4> QED BY <2>5, <2>10, <3>2, <4>1
      <3>3. CASE Named(m) \in B
        <4>1. ASSUME NEW x \in Entries, Named(x) \in B
              PROVE  \E l \in Lba : Map[l] # NoBlock /\ x = <<"map", l>> /\ Named(x) = Map[l]
          <5>1. Named(x) \notin MtBlocks /\ Named(x) \notin A
            BY <2>4, <4>1
          <5>2. /\ Named(x) # mt_pbas
                /\ \A i \in 1..Len(mtl) : Named(x) # mtl[i].pba
                /\ \A i \in 1..Len(dl) : Named(x) # dl[i].pba
            BY <2>5, <2>7, <5>1
          <5> QED BY <2>2, <5>2, Kinds
        <4> QED BY <2>4, <2>10, <3>3, <4>1
      <3> QED BY <2>4, <2>8, <3>1, <3>2, <3>3
    <2> QED BY <2>8, <2>9, <2>10
  <1> QED BY <1>1, NftlInvariant, PTL

-----------------------------------------------------------------------------
(***************************************************************************)
(* What the logical pages read as                                          *)
(***************************************************************************)

\* Of the write in progress only the return is left: its page is stored.
PutOps  == {"put", "append", "ack"}
Pending == {t \in Elems(todo) : t.op \in PutOps}
Written == Pending = {T("ack")}

\* What page lpa has to read as.
Allowed(lpa) == IF Written /\ lpa = wr[1] THEN {wr[2]} ELSE last[lpa]

\* The page of log e, with X the logs that become Data blocks, that holds offset o.
Place(X, e, o) == IF e \in X THEN o ELSE e.ppa[o]

\* What page lpa reads as, from logs L, Data blocks D and the pages F.
InLogs(L, X, lpa)       == {e \in L : e.lba = LbaOf(lpa) /\ Place(X, e, OfsOf(lpa)) # NoPage}
InData(D, F, lpa)       == IF D[LbaOf(lpa)] = NoBlock THEN Erased ELSE F[D[LbaOf(lpa)]][OfsOf(lpa)].d
Stored(L, X, D, F, lpa) ==
  IF InLogs(L, X, lpa) = {} THEN {InData(D, F, lpa)}
  ELSE {F[e.pba][Place(X, e, OfsOf(lpa))].d : e \in InLogs(L, X, lpa)}
Reads(lpa) == Stored(Logs, TurningLogs, Map, flash, lpa)

\* The last page of a block whose log lies in order is not written by a rewrite of
\* another.
TailOK == T("put") \in Elems(todo) =>
            \A i \in 1..Len(dl) : dl[i].lba = LbaOf(wr[1]) /\ InOrder(dl[i]) =>
                                    OfsOf(wr[1]) = PagesPerBlock - 1

DataInv ==
  /\ last \in [Lpa -> SUBSET (Data \cup {Erased, Junk})]
  /\ \A lpa \in Lpa : Erased \in last[lpa] => Junk \in last[lpa]
  /\ \A lpa \in Lpa : Reads(lpa) \subseteq Allowed(lpa)
  /\ TailOK

\* Where a page that is read lies.
LEMMA Lookup ==
  ASSUME NEW L, NEW X, NEW D, NEW F, NEW lpa, NEW v \in Stored(L, X, D, F, lpa)
  PROVE  \/ \E e \in L : /\ e.lba = LbaOf(lpa) /\ Place(X, e, OfsOf(lpa)) # NoPage
                         /\ v = F[e.pba][Place(X, e, OfsOf(lpa))].d
         \/ /\ \A e \in L : e.lba = LbaOf(lpa) => Place(X, e, OfsOf(lpa)) = NoPage
            /\ v = InData(D, F, lpa)
  BY DEF Stored, InLogs

LEMMA FromLog ==
  ASSUME NEW L, NEW X, NEW D, NEW F, NEW lpa, NEW e \in L, e.lba = LbaOf(lpa),
         Place(X, e, OfsOf(lpa)) # NoPage
  PROVE  F[e.pba][Place(X, e, OfsOf(lpa))].d \in Stored(L, X, D, F, lpa)
  <1>1. e \in InLogs(L, X, lpa)
    BY DEF InLogs
  <1> QED BY <1>1 DEF Stored

LEMMA FromData ==
  ASSUME NEW L, NEW X, NEW D, NEW F, NEW lpa,
         \A e \in L : e.lba = LbaOf(lpa) => Place(X, e, OfsOf(lpa)) = NoPage
  PROVE  InData(D, F, lpa) \in Stored(L, X, D, F, lpa)
  <1>1. InLogs(L, X, lpa) = {}
    BY DEF InLogs
  <1> QED BY <1>1 DEF Stored

\* The logs.
LEMMA LogSeen ==
  ASSUME NftlInv, FedInv, NEW e \in Logs
  PROVE  /\ e \in LogRec /\ e.pba \in Block /\ e.pba \in LogBlocks(Logs) /\ e.pba \in Programmed
         /\ \A f \in Logs : f.lba = e.lba => f = e
         /\ e \notin TurningLogs => LogOK(e, flash[e.pba])
  <1>1. ~Lost /\ NoHole
    BY DEF FedInv
  <1>2. dl \in Seq(LogRec) /\ OneLog /\ LogsOK
    BY <1>1, Parts
  <1>3. PICK i \in (1..Len(dl)) \ Dying : e = dl[i]
    BY DEF Logs
  <1>4. e \in LogRec /\ e.pba # NoBlock
    BY <1>1, <1>2, <1>3 DEF NoHole
  <1>5. e.pba \in LogBlocks(Logs) /\ e.pba \in Programmed /\ e.pba \in Block
    BY <1>1, <1>3, <1>4, Members
  <1>6. \A f \in Logs : f.lba = e.lba => f = e
    BY <1>2, <1>3 DEF OneLog, Logs
  <1>7. ASSUME e \notin TurningLogs PROVE LogOK(e, flash[e.pba])
    <2>1. i \notin Turning
      BY <1>3, <1>7 DEF TurningLogs
    <2> QED BY <1>2, <1>3, <1>4, <2>1 DEF LogsOK
  <1> QED BY <1>4, <1>5, <1>6, <1>7

\* Nothing moved.
LEMMA ReadsSame ==
  ASSUME NftlInv, FedInv, Unmoved, NEW lpa \in Lpa
  PROVE  Reads(lpa)' \subseteq Reads(lpa)
  <1> DEFINE L == Logs
             X == TurningLogs
             D == Map
             F == flash
             G == flash'
  <1>1. Reads(lpa)' = Stored(L, X, D, G, lpa) /\ Reads(lpa) = Stored(L, X, D, F, lpa)
    BY DEF Reads, Unmoved
  <1>2. \A e \in L : G[e.pba] = F[e.pba]
    BY LogSeen DEF Unmoved
  <1>3. D[LbaOf(lpa)] # NoBlock => G[D[LbaOf(lpa)]] = F[D[LbaOf(lpa)]]
    BY Places DEF Unmoved, DataBlocks
  <1> HIDE DEF L, X, D, F, G
  <1>4. InData(D, G, lpa) = InData(D, F, lpa)
    BY <1>3 DEF InData
  <1>5. ASSUME NEW v \in Stored(L, X, D, G, lpa) PROVE v \in Stored(L, X, D, F, lpa)
    <2>1. CASE \E e \in L : /\ e.lba = LbaOf(lpa) /\ Place(X, e, OfsOf(lpa)) # NoPage
                            /\ v = G[e.pba][Place(X, e, OfsOf(lpa))].d
      <3>1. PICK e \in L : /\ e.lba = LbaOf(lpa) /\ Place(X, e, OfsOf(lpa)) # NoPage
                           /\ v = G[e.pba][Place(X, e, OfsOf(lpa))].d
        BY <2>1
      <3>2. F[e.pba][Place(X, e, OfsOf(lpa))].d \in Stored(L, X, D, F, lpa)
        BY <3>1, FromLog
      <3> QED BY <1>2, <3>1, <3>2
    <2>2. CASE /\ \A e \in L : e.lba = LbaOf(lpa) => Place(X, e, OfsOf(lpa)) = NoPage
               /\ v = InData(D, G, lpa)
      <3>1. InData(D, F, lpa) \in Stored(L, X, D, F, lpa)
        BY <2>2, FromData
      <3> QED BY <1>4, <2>2, <3>1
    <2> QED BY <1>5, <2>1, <2>2, Lookup
  <1> QED BY <1>1, <1>5

\* The step keeps what is to be read, but for a page that was never written.
LEMMA Carry ==
  ASSUME NftlInv, FedInv, DataInv, UNCHANGED last, TailOK',
         (UNCHANGED wr /\ Written' = Written) \/ (~Written /\ ~Written'),
         \A lpa \in Lpa : \A v \in Reads(lpa)' : v \in Reads(lpa) \/ (v = Junk /\ Erased \in Reads(lpa))
  PROVE  DataInv'
  <1>1. ~Lost /\ Ready
    BY Parts DEF FedInv
  <1>2. ASSUME NEW lpa \in Lpa PROVE Reads(lpa)' \subseteq Allowed(lpa)'
    <2> SUFFICES ASSUME NEW v \in Reads(lpa)' PROVE v \in Allowed(lpa)'
      OBVIOUS
    <2>1. Allowed(lpa)' = Allowed(lpa)
      BY DEF Allowed
    <2>2. CASE v \in Reads(lpa)
      BY <2>1, <2>2 DEF DataInv
    <2>3. CASE v = Junk /\ Erased \in Reads(lpa)
      <3>1. Erased \in Allowed(lpa)
        BY <2>3 DEF DataInv
      <3>2. CASE Written /\ lpa = wr[1]
        <4>1. T("ack") \in Elems(todo)
          BY <3>2 DEF Written, Pending
        <4>2. wr[2] \in Data /\ Erased \notin Data
          BY <1>1, <4>1, NftlAssumption DEF Ready
        <4> QED BY <3>1, <3>2, <4>2 DEF Allowed
      <3>3. CASE ~(Written /\ lpa = wr[1])
        BY <2>1, <2>3, <3>1, <3>3 DEF Allowed, DataInv
      <3> QED BY <3>2, <3>3
    <2> QED BY <2>2, <2>3
  <1> QED BY <1>2 DEF DataInv

\* The step leaves the put of the write where it is.
Pends == /\ \A t \in Elems(todo) : t.op \in PutOps => t \in Elems(todo')
         /\ \A t \in Elems(todo') : t.op \in PutOps => t \in Elems(todo)

LEMMA StillPending ==
  ASSUME Pends
  PROVE  Written' = Written /\ (T("put") \in Elems(todo') => T("put") \in Elems(todo))
  <1>1. Pending' = Pending
    BY DEF Pends, Pending
  <1>2. T("put").op \in PutOps
    BY DEF T, PutOps
  <1> QED BY <1>1, <1>2 DEF Written, Pends

\* ... and the logs but for some that it deletes.
LEMMA TailKept ==
  ASSUME TailOK, Pends, UNCHANGED wr, \A i \in 1..Len(dl') : \E j \in 1..Len(dl) : dl'[i] = dl[j]
  PROVE  TailOK'
  <1> SUFFICES ASSUME T("put") \in Elems(todo'), NEW i \in 1..Len(dl'),
                      dl'[i].lba = LbaOf(wr[1]), InOrder(dl'[i])
               PROVE  OfsOf(wr[1]) = PagesPerBlock - 1
    BY DEF TailOK
  <1>1. PICK j \in 1..Len(dl) : dl'[i] = dl[j]
    OBVIOUS
  <1> QED BY <1>1, StillPending DEF TailOK

LEMMA DataQuiet ==
  ASSUME NftlInv, FedInv, DataInv, Unmoved, Pends, UNCHANGED <<wr, last>>,
         \A i \in 1..Len(dl') : \E j \in 1..Len(dl) : dl'[i] = dl[j]
  PROVE  DataInv'
  <1>1. TailOK' /\ Written' = Written
    BY TailKept, StillPending DEF DataInv
  <1> QED BY <1>1, ReadsSame, Carry

-----------------------------------------------------------------------------
(***************************************************************************)
(* Steps that leave the pages where they are                               *)
(***************************************************************************)

\* The task on top makes way for others, and neither is the put of the write.
LEMMA PutsUnder ==
  ASSUME StackOK, todo # <<>>, Task.op \notin PutOps, NEW S, NEW ts \in Seq(S),
         \A t \in S : t.op \notin PutOps, Then(ts)
  PROVE  Pends
  <1>1. /\ Elems(todo) = {Task} \cup Elems(Tail(todo))
        /\ Elems(todo') = Elems(ts) \cup Elems(Tail(todo))
    BY Turned
  <1>2. Elems(ts) \subseteq S
    BY DEF Elems
  <1> QED BY <1>1, <1>2 DEF Pends

LEMMA PutsBelow ==
  ASSUME StackOK, todo # <<>>, Task.op \notin PutOps, Then(<<>>)
  PROVE  Pends
  <1>1. Elems(todo) = {Task} \cup Elems(Tail(todo)) /\ Elems(todo') = Elems(Tail(todo))
    BY Stack, Popped
  <1> QED BY <1>1 DEF Pends

LEMMA PutsLeft ==
  ASSUME UNCHANGED todo
  PROVE  Pends
  BY DEF Pends

\* One task, perhaps, for another.
LEMMA PutsOne ==
  ASSUME StackOK, todo # <<>>, Task.op \notin PutOps, NEW t, t.op \notin PutOps,
         Then(<<t>>) \/ \E c : Then(When(c, t))
  PROVE  Pends
  <1>1. CASE Then(<<t>>)
    <2> DEFINE ts == <<t>>
               S == {t}
    <2>1. ts \in Seq(S) /\ (\A u \in S : u.op \notin PutOps) /\ Then(ts)
      BY <1>1
    <2> HIDE DEF ts, S
    <2> QED BY <2>1, PutsUnder
  <1>2. ASSUME NEW c, Then(When(c, t)) PROVE Pends
    <2> DEFINE ts == When(c, t)
    <2>1. ts \in Seq({t}) /\ \A u \in {t} : u.op \notin PutOps
      BY Whens
    <2> HIDE DEF ts
    <2>2. Then(ts)
      BY <1>2 DEF ts
    <2> QED BY <2>1, <2>2, PutsUnder
  <1> QED BY <1>1, <1>2

\* The steps of a write that only look, and of the mapping table.
LEMMA LookPends ==
  ASSUME NftlInv, ManyPages \/ LowSpace \/ FullLog \/ UpdateMtInsert
  PROVE  Pends
  <1>1. StackOK
    BY DEF NftlInv
  <1>2. CASE ManyPages
    <2> DEFINE t == T("pageloop")
    <2>1. todo # <<>> /\ Task.op \notin PutOps /\ t.op \notin PutOps /\ \E c : Then(When(c, t))
      BY <1>2 DEF ManyPages, Top, PutOps, T
    <2> HIDE DEF t
    <2> QED BY <1>1, <2>1, PutsOne
  <1>3. CASE LowSpace
    <2> DEFINE t == OnLog("merge", MergeFirst)
    <2>1. todo # <<>> /\ Task.op \notin PutOps /\ t.op \notin PutOps /\ \E c : Then(When(c, t))
      BY <1>3 DEF LowSpace, Top, PutOps, OnLog
    <2> HIDE DEF t
    <2> QED BY <1>1, <2>1, PutsOne
  <1>4. CASE FullLog
    <2> DEFINE t == OnLog("merge", Task.i)
    <2>1. todo # <<>> /\ Task.op \notin PutOps /\ t.op \notin PutOps /\ \E c : Then(When(c, t))
      BY <1>4 DEF FullLog, Top, PutOps, OnLog
    <2> HIDE DEF t
    <2> QED BY <1>1, <2>1, PutsOne
  <1>5. CASE UpdateMtInsert
    <2> DEFINE t == T("mtmerge")
    <2>1. todo # <<>> /\ Task.op \notin PutOps /\ t.op \notin PutOps /\ \E c : Then(When(c, t))
      BY <1>5 DEF UpdateMtInsert, Top, PutOps, T
    <2> HIDE DEF t
    <2> QED BY <1>1, <2>1, PutsOne
  <1> QED BY <1>2, <1>3, <1>4, <1>5

LEMMA MergeLoopPends ==
  ASSUME NftlInv, MergeLoop
  PROVE  Pends
  <1> DEFINE t == OnLog("merge", MergeFirst)
  <1>1. /\ todo # <<>> /\ Task.op \in {"blockloop", "pageloop"} /\ StackOK
        /\ todo' = <<t>> \o todo \/ todo' = Tail(todo)
    BY DEF MergeLoop, Top, NftlInv
  <1>2. t.op \notin PutOps /\ Task.op \notin PutOps
    BY <1>1 DEF PutOps, OnLog
  <1>3. Elems(todo) = {Task} \cup Elems(Tail(todo))
    BY <1>1, Stack
  <1> HIDE DEF t
  <1>4. CASE todo' = <<t>> \o todo
    <2>1. todo \in {BlockLoopK, PageLoopK}
      BY <1>1, Unders
    <2>2. todo \in Seq(Plain)
      BY <2>1, PlainStacks
    <2>3. Elems(todo') = {t} \cup Elems(todo)
      BY <1>4, <2>2, Cons
    <2> QED BY <1>2, <2>3 DEF Pends
  <1>5. CASE todo' = Tail(todo)
    BY <1>2, <1>3, <1>5 DEF Pends
  <1> QED BY <1>1, <1>4, <1>5

\* The steps that take a block.
LEMMA TakePends ==
  ASSUME NftlInv, NEW b, MergeAlloc(b) \/ MtMergeAlloc(b) \/ UpdateMtAlloc(b) \/ FormatAlloc(b)
  PROVE  Pends
  <1>1. StackOK
    BY DEF NftlInv
  <1>2. CASE MergeAlloc(b)
    <2> DEFINE t == [op |-> "mergecopy", i |-> Task.i, old |-> MapTable[dl[Task.i].lba], blk |-> b]
    <2>1. todo # <<>> /\ Task.op \notin PutOps /\ t.op \notin PutOps /\ Then(<<t>>)
      BY <1>2 DEF MergeAlloc, Top, PutOps
    <2> HIDE DEF t
    <2> QED BY <1>1, <2>1, PutsOne
  <1>3. CASE MtMergeAlloc(b)
    <2> DEFINE t == [op |-> "mtcopy", blk |-> b]
    <2>1. todo # <<>> /\ Task.op \notin PutOps /\ t.op \notin PutOps /\ Then(<<t>>)
      BY <1>3 DEF MtMergeAlloc, Top, PutOps
    <2> HIDE DEF t
    <2> QED BY <1>1, <2>1, PutsOne
  <1>4. CASE UpdateMtAlloc(b)
    <2> DEFINE t == [op |-> "mtappend", lba |-> Task.lba, pba |-> Task.pba, blk |-> b]
    <2>1. todo # <<>> /\ Task.op \notin PutOps /\ t.op \notin PutOps /\ Then(<<t>>)
      BY <1>4 DEF UpdateMtAlloc, Top, PutOps
    <2> HIDE DEF t
    <2> QED BY <1>1, <2>1, PutsOne
  <1>5. CASE FormatAlloc(b)
    <2> DEFINE t == [op |-> "mapwrite", blk |-> b]
    <2>1. todo # <<>> /\ Task.op \notin PutOps /\ t.op \notin PutOps /\ Then(<<t>>)
      BY <1>5 DEF FormatAlloc, Top, PutOps
    <2> HIDE DEF t
    <2> QED BY <1>1, <2>1, PutsOne
  <1> QED BY <1>2, <1>3, <1>4, <1>5

LEMMA StartPends ==
  ASSUME NftlInv, NEW what, NEW src, NEW b, StartMove(what, src, b)
  PROVE  Pends
  <1> DEFINE t == [op |-> "move", what |-> what, src |-> src, blk |-> b]
  <1>1. todo' = <<t>> \o todo /\ t.op \notin PutOps
    BY DEF StartMove, PutOps
  <1> HIDE DEF t
  <1>2. Elems(todo') = {t} \cup Elems(todo)
    BY <1>1, TodoSeq, Cons
  <1> QED BY <1>1, <1>2 DEF Pends

\* The steps that only end.
LEMMA EndPends ==
  ASSUME NftlInv, DeleteLog \/ UpdateMtAppend \/ MtMergeSet \/ FormatWrite \/ AddGarbage
  PROVE  Pends
  <1>1. StackOK
    BY DEF NftlInv
  <1>2. todo # <<>> /\ Then(<<>>) /\ Task.op \in {"dldel", "mtappend", "mtset", "mapwrite", "addgt"}
    BY DEF DeleteLog, UpdateMtAppend, MtMergeSet, FormatWrite, AddGarbage, Top
  <1> QED BY <1>1, <1>2, PutsBelow DEF PutOps

LEMMA MtCopyPends ==
  ASSUME NftlInv, MtMergeCopy
  PROVE  Pends
  <1> DEFINE a == AddGt(<<mt_pbas, mtl[1].pba>>)
             m == [op |-> "mtset", blk |-> Task.blk]
  <1>1. /\ todo # <<>> /\ Task.op \notin PutOps /\ Then(<<a, m>>) /\ StackOK
        /\ a.op \notin PutOps /\ m.op \notin PutOps
    BY DEF MtMergeCopy, Top, NftlInv, AddGt, PutOps
  <1> HIDE DEF a, m
  <1> DEFINE ts == <<a, m>>
             S == {a, m}
  <1>2. ts \in Seq(S) /\ (\A t \in S : t.op \notin PutOps) /\ Then(ts)
    BY <1>1
  <1> HIDE DEF ts, S
  <1> QED BY <1>1, <1>2, PutsUnder

LEMMA SameDl ==
  ASSUME UNCHANGED dl
  PROVE  \A i \in 1..Len(dl') : \E j \in 1..Len(dl) : dl'[i] = dl[j]
  OBVIOUS

LEMMA QuietData ==
  ASSUME NftlInv, FedInv, DataInv,
         \/ ManyPages \/ MergeLoop \/ LowSpace \/ FullLog \/ UpdateMtInsert \/ UpdateMtAppend
         \/ MtMergeCopy \/ MtMergeSet \/ FormatWrite
  PROVE  DataInv'
  <1>1. Pends
    BY LookPends, MergeLoopPends, EndPends, MtCopyPends
  <1>2. Unmoved
    BY ManyPagesOK, MergeLoopOK, LowSpaceOK, FullLogOK, UpdateMtInsertOK, UpdateMtAppendOK,
       MtMergeCopyOK, MtMergeSetOK, FormatWriteOK
  <1>3. UNCHANGED <<dl, wr, last>>
    BY DEF ManyPages, MergeLoop, LowSpace, FullLog, UpdateMtInsert, UpdateMtAppend, MtMergeCopy,
           MtMergeSet, FormatWrite, Quiet
  <1> QED BY <1>1, <1>2, <1>3, SameDl, DataQuiet

LEMMA TakeData ==
  ASSUME NftlInv, FedInv, DataInv, NEW b \in Block,
         MergeAlloc(b) \/ MtMergeAlloc(b) \/ UpdateMtAlloc(b) \/ FormatAlloc(b)
  PROVE  DataInv'
  <1>1. Pends
    BY TakePends
  <1>2. Unmoved
    BY MergeAllocOK, MtMergeAllocOK, UpdateMtAllocOK, FormatAllocOK
  <1>3. UNCHANGED <<dl, wr, last>>
    BY DEF MergeAlloc, MtMergeAlloc, UpdateMtAlloc, FormatAlloc, Quiet
  <1> QED BY <1>1, <1>2, <1>3, SameDl, DataQuiet

\* A read, and a block near the ECC limit.
LEMMA ReadData ==
  ASSUME NftlInv, FedInv, DataInv, NEW lpa \in Lpa, Read(lpa)
  PROVE  DataInv'
  <1>1. UNCHANGED <<dl, wr, last, todo>>
    BY DEF Read, Quiet
  <1> QED BY <1>1, ReadOK, PutsLeft, SameDl, DataQuiet

LEMMA MovesData ==
  ASSUME NftlInv, FedInv, DataInv, NEW b \in Block,
         MoveMap(b) \/ \E lpa \in Lpa : MoveLog(lpa, b) \/ MoveData(lpa, b)
  PROVE  DataInv'
  <1>1. Unmoved
    BY MoveMapOK, MoveLogOK, MoveDataOK
  <1>2. \E what, src : StartMove(what, src, b)
    BY DEF MoveMap, MoveLog, MoveData
  <1>3. Pends /\ UNCHANGED <<dl, wr, last>>
    BY <1>2, StartPends DEF StartMove
  <1> QED BY <1>1, <1>3, SameDl, DataQuiet

LEMMA DeleteLogData ==
  ASSUME NftlInv, FedInv, DataInv, DeleteLog
  PROVE  DataInv'
  <1> DEFINE i == Task.i
  <1>1. /\ todo # <<>> /\ Task.op = "dldel" /\ UNCHANGED <<wr, last>>
        /\ dl' = SubSeq(dl, 1, i - 1) \o SubSeq(dl, i + 1, Len(dl))
    BY DEF DeleteLog, Top, Quiet
  <1>2. ~Lost /\ StackOK /\ Indices /\ dl \in Seq(LogRec)
    BY Parts DEF FedInv
  <1>3. i \in 1..Len(dl)
    <2>1. Task \in Elems(todo)
      BY <1>1, <1>2, Stack
    <2> QED BY <1>1, <1>2, <2>1 DEF Indices
  <1> HIDE DEF i
  <1>4. \A j \in 1..Len(dl') : \E k \in 1..Len(dl) : dl'[j] = dl[k]
    <2>1. \A j \in 1..Len(dl') : \E k \in (1..Len(dl)) \ {i} : dl'[j] = dl[k]
      BY <1>1, <1>2, <1>3, Removed
    <2> QED BY <2>1
  <1>5. Unmoved /\ Pends
    BY DeleteLogOK, EndPends
  <1> QED BY <1>1, <1>4, <1>5, DataQuiet

LEMMA ReclaimData ==
  ASSUME NftlInv, FedInv, DataInv, Reclaim
  PROVE  DataInv'
  <1>1. UNCHANGED <<mt_pbas, mtl, dl, todo, wr, last>>
    BY DEF Reclaim, Quiet
  <1>2. ~Lost /\ SoundInv /\ BlankOK /\ flash \in [Block -> [Page -> PageRec]]
    BY Parts DEF FedInv
  <1>3. \A x \in Programmed : flash'[x] = flash[x]
    BY <1>2, Cleaned
  <1>4. Map' = Map /\ Logs' = Logs /\ Turning' = Turning
    BY <1>1, <1>2, <1>3, SameBlocks
  <1>5. Unmoved
    BY <1>1, <1>2, <1>3, <1>4, StaysPut
  <1> QED BY <1>1, <1>5, PutsLeft, SameDl, DataQuiet

LEMMA AddGarbageData ==
  ASSUME NftlInv, FedInv, DataInv, AddGarbage
  PROVE  DataInv'
  <1>1. /\ todo # <<>> /\ Task.op = "addgt" /\ Then(<<>>)
        /\ UNCHANGED <<flash, mt_pbas, mtl, dl, wr, last>>
    BY DEF AddGarbage, Top, Quiet
  <1>2. ~Lost /\ StackOK
    BY Parts DEF FedInv
  <1>3. Elems(todo) = {Task} \cup Elems(Tail(todo)) /\ Elems(todo') = Elems(Tail(todo))
    BY <1>1, <1>2, Stack, Popped
  <1>4. \A op : op # "addgt" => Has(op)' = Has(op)
    BY <1>1, <1>3 DEF Has
  <1>5. Map' = Map /\ Logs' = Logs /\ Turning' = Turning
    BY <1>1, <1>4, SameMaps
  <1>6. Unmoved
    BY <1>1, <1>2, <1>5, StaysPut
  <1>7. Pends
    BY EndPends
  <1> QED BY <1>1, <1>6, <1>7, SameDl, DataQuiet

\* A mount finds every log.
LEMMA RemountData ==
  ASSUME NftlInv, FedInv, DataInv, Remount
  PROVE  DataInv'
  <1>1. todo = <<>> /\ todo' = <<>> /\ Idle /\ MountScan /\ UNCHANGED last
    BY DEF Remount, Idle, MountScan
  <1>2. Elems(todo) = {} /\ Elems(todo') = {}
    BY <1>1, PlainStacks
  <1>3. ~Written /\ ~Written' /\ TailOK'
    <2>1. Pending = {} /\ Pending' = {}
      BY <1>2 DEF Pending
    <2> QED BY <1>2, <2>1 DEF Written, TailOK
  <1>4. NoLogLost
    BY DEF NoLogLost, FedInv, NoHole, Logs
  <1>5. Unmoved
    BY <1>4, RemountOK
  <1> QED BY <1>1, <1>3, <1>5, ReadsSame, Carry

LEMMA DataStutter == NftlInv /\ FedInv /\ DataInv /\ UNCHANGED vars => DataInv'
  <1> SUFFICES ASSUME NftlInv, FedInv, DataInv, UNCHANGED vars PROVE DataInv'
    OBVIOUS
  <1>1. UNCHANGED <<flash, mt_pbas, mtl, dl, todo, wr, last>>
    BY DEF vars
  <1>2. ~Lost
    BY DEF FedInv
  <1>3. \A op : Has(op)' = Has(op)
    BY <1>1 DEF Has
  <1>4. Map' = Map /\ Logs' = Logs /\ Turning' = Turning
    BY <1>1, <1>3, SameMaps
  <1>5. Unmoved
    BY <1>1, <1>2, <1>4, StaysPut
  <1> QED BY <1>1, <1>5, PutsLeft, SameDl, DataQuiet

-----------------------------------------------------------------------------
(***************************************************************************)
(* A write begins, takes a block and returns                               *)
(***************************************************************************)

LEMMA WriteElems ==
  /\ Elems(AckK) = {T("ack")} /\ Elems(LowK) = {T("low"), T("ack")}
  /\ T("put") \in Elems(PagesK) /\ T("put") \in Elems(BlockLoopK)
  <1>1. /\ AckK \in Seq(Plain) /\ LowK \in Seq(Plain) /\ PutK \in Seq(Plain) /\ PagesK \in Seq(Plain)
    BY PlainStacks
  <1>2. Elems(AckK) = {T("ack")}
    BY Alone DEF AckK
  <1>3. Elems(LowK) = {T("low")} \cup Elems(AckK)
    BY <1>1, Cons DEF LowK
  <1>4. Elems(PutK) = {T("put")} \cup Elems(LowK)
    BY <1>1, Cons DEF PutK
  <1>5. Elems(PagesK) = {T("pages")} \cup Elems(PutK)
    BY <1>1, Cons DEF PagesK
  <1>6. Elems(BlockLoopK) = {T("blockloop")} \cup Elems(PagesK)
    BY <1>1, Cons DEF BlockLoopK
  <1> QED BY <1>2, <1>3, <1>4, <1>5, <1>6

LEMMA NotWritten ==
  /\ (\E t \in Elems(todo) : t.op \in {"put", "append"}) => ~Written
  /\ (\E t \in Elems(todo') : t.op \in {"put", "append"}) => ~Written'
  BY DEF Written, Pending, PutOps, T

LEMMA WriteData ==
  ASSUME NftlInv, FedInv, DataInv, ~TailRewrites,
         NEW lpa \in Lpa, NEW d \in HostWrites(lpa), WriteLogicPage(lpa, d)
  PROVE  DataInv'
  <1>1. /\ todo = <<>> /\ UNCHANGED <<dl, last>> /\ wr' = <<lpa, d>>
        /\ LET i == DlIndex(LbaOf(lpa)) IN i # 0 => (InOrder(dl[i]) => OfsOf(lpa) = PagesPerBlock - 1)
        /\ todo' = When(Len(dl) >= DL_BLOCKS_HIGH, T("blockloop"))
                   \o <<T("pages"), T("put"), T("low"), T("ack")>>
    BY DEF WriteLogicPage, Idle, Quiet
  <1>2. todo' \in {PagesK, BlockLoopK}
    <2>1. PagesK \in Seq(Plain)
      BY PlainStacks
    <2>2. <<>> \o PagesK = PagesK
      BY <2>1
    <2> QED BY <1>1, <2>2, WriteStack DEF When
  <1>3. Elems(todo) = {} /\ T("put") \in Elems(todo') /\ T("put").op = "put"
    BY <1>1, <1>2, PlainStacks, WriteElems DEF T
  <1>4. ~Written /\ ~Written'
    <2>1. ~Written
      BY <1>3 DEF Written, Pending
    <2> QED BY <1>3, <2>1, NotWritten
  <1>5. TailOK'
    <2> SUFFICES ASSUME NEW i \in 1..Len(dl), dl[i].lba = LbaOf(lpa), InOrder(dl[i])
                 PROVE  OfsOf(lpa) = PagesPerBlock - 1
      BY <1>1 DEF TailOK
    <2>1. OneLog /\ dl \in Seq(LogRec)
      BY Parts DEF FedInv
    <2>2. DlIndex(LbaOf(lpa)) = i /\ i # 0
      BY <2>1, Found
    <2> QED BY <1>1, <2>2
  <1>6. Unmoved
    BY <1>1, FedWritable, WriteOK
  <1> QED BY <1>1, <1>4, <1>5, <1>6, ReadsSame, Carry

LEMMA PutAllocData ==
  ASSUME NftlInv, FedInv, DataInv, NEW b \in Block, PutAlloc(b)
  PROVE  DataInv'
  <1> DEFINE t == [op |-> "append", blk |-> b]
  <1>1. todo # <<>> /\ Task.op = "put" /\ Then(<<t>>) /\ t.op = "append" /\ StackOK /\ UNCHANGED last
    BY DEF PutAlloc, Top, NftlInv, Quiet
  <1>2. Tail(todo) = LowK
    BY <1>1, Unders
  <1> HIDE DEF t
  <1>3. Elems(todo) = {Task} \cup Elems(LowK) /\ Elems(todo') = {t} \cup Elems(LowK)
    <2>1. <<t>> \in Seq({t}) /\ Elems(<<t>>) = {t}
      BY Alone
    <2> QED BY <1>1, <1>2, <2>1, Turned
  <1>4. ~Written /\ ~Written'
    BY <1>1, <1>3, NotWritten
  <1>5. T("put") \notin Elems(todo')
    BY <1>1, <1>3, PlainStacks DEF T
  <1>6. TailOK'
    BY <1>5 DEF TailOK
  <1> QED BY <1>1, <1>4, <1>6, PutAllocOK, ReadsSame, Carry

LEMMA WriteReturnsData ==
  ASSUME NftlInv, FedInv, DataInv, WriteReturns
  PROVE  DataInv'
  <1>1. /\ todo # <<>> /\ Task.op = "ack" /\ todo' = <<>> /\ StackOK
        /\ last' = [last EXCEPT ![wr[1]] = {wr[2]}]
    BY DEF WriteReturns, Top, NftlInv
  <1>2. todo = AckK
    BY <1>1, Unders
  <1>3. Elems(todo) = {T("ack")} /\ Elems(todo') = {}
    BY <1>1, <1>2, WriteElems, PlainStacks
  <1>4. Written /\ ~Written' /\ TailOK'
    <2>1. T("ack").op \in PutOps
      BY DEF T, PutOps
    <2>2. Pending = {T("ack")} /\ Pending' = {}
      BY <1>3, <2>1 DEF Pending
    <2>3. T("put") \notin Elems(todo')
      BY <1>3
    <2> QED BY <2>2, <2>3 DEF Written, TailOK
  <1>5. wr \in Lpa \X Data /\ Erased \notin Data
    BY <1>3, Parts, NftlAssumption DEF FedInv, Ready
  <1>6. last \in [Lpa -> SUBSET (Data \cup {Erased, Junk})]
    BY DEF DataInv
  <1>7. /\ last' \in [Lpa -> SUBSET (Data \cup {Erased, Junk})]
        /\ \A lpa \in Lpa : last'[lpa] = IF lpa = wr[1] THEN {wr[2]} ELSE last[lpa]
    BY <1>1, <1>5, <1>6
  <1>8. \A lpa \in Lpa : Erased \in last'[lpa] => Junk \in last'[lpa]
    BY <1>5, <1>7 DEF DataInv
  <1>9. ASSUME NEW lpa \in Lpa PROVE Reads(lpa)' \subseteq Allowed(lpa)'
    <2>1. Allowed(lpa)' = Allowed(lpa)
      BY <1>4, <1>7 DEF Allowed
    <2>2. Reads(lpa)' \subseteq Reads(lpa)
      BY WriteReturnsOK, ReadsSame
    <2> QED BY <2>1, <2>2 DEF DataInv
  <1> QED BY <1>4, <1>7, <1>8, <1>9 DEF DataInv

-----------------------------------------------------------------------------
(***************************************************************************)
(* Steps that copy pages                                                   *)
(***************************************************************************)

LEMMA MovePends ==
  ASSUME NftlInv, MoveCopy
  PROVE  Pends
  <1> DEFINE u == UpdMt(Task.what.lba, Task.blk)
             a == AddGt(<<Task.src>>)
             ws == When(Task.what.op = "data", u)
             ts == ws \o <<a>>
             S == {u, a}
  <1>1. todo # <<>> /\ Task.op \notin PutOps /\ Then(ts) /\ StackOK
    BY DEF MoveCopy, Top, NftlInv, PutOps
  <1>2. u.op \notin PutOps /\ a.op \notin PutOps
    BY DEF UpdMt, AddGt, PutOps
  <1>3. ws \in Seq({u})
    BY Whens
  <1> HIDE DEF u, a, ws
  <1>4. ts \in Seq(S) /\ \A t \in S : t.op \notin PutOps
    BY <1>2, <1>3
  <1> HIDE DEF ts, S
  <1> QED BY <1>1, <1>4, PutsUnder

LEMMA MoveTail ==
  ASSUME NftlInv, MoveCopy, Task.what.op \in {"log", "data"}
  PROVE  TailOK'
  <1>1. todo # <<>> /\ Task.op = "move"
    BY DEF MoveCopy, Top
  <1>2. Elems(todo) = {Task} \cup Elems(Tail(todo)) /\ Tail(todo) = <<>>
    BY <1>1, AtMove
  <1>3. T("put") \notin Elems(todo)
    <2>1. Elems(todo) = {Task} /\ T("put").op = "put"
      BY <1>2, PlainStacks DEF T
    <2> QED BY <1>1, <2>1
  <1>4. T("put") \notin Elems(todo')
    BY <1>3, MovePends, StillPending
  <1> QED BY <1>4 DEF TailOK

\* A log moves with its pages.
LEMMA MoveLogData ==
  ASSUME NftlInv, FedInv, DataInv, MoveCopy, Task.what.op = "log"
  PROVE  DataInv'
  <1> DEFINE g == dl[Task.what.i]
             b == Task.blk
             h == [g EXCEPT !.pba = b]
             L == Logs
             M == Logs'
             X == TurningLogs
             Y == TurningLogs'
             D == Map
             F == flash
             G == flash'
  <1>1. /\ todo # <<>> /\ Task.op = "move" /\ G[b] = F[Task.src]
        /\ \A x \in Programmed : G[x] = F[x]
    BY MoveWrites
  <1>2. ~Lost /\ Dying = {} /\ Task.what.i \in 1..Len(dl) /\ g.pba = Task.src /\ dl \in Seq(LogRec)
    <2>1. ~Lost /\ Dying = {}
      BY <1>1, AtMove
    <2> QED BY <1>1, <2>1, Parts DEF TaskOK
  <1>3. g \in L /\ h.lba = g.lba /\ h.ppa = g.ppa /\ h.pba = b
    <2>1. g \in LogRec
      BY <1>2
    <2>2. g \in L
      BY <1>2 DEF Logs
    <2> QED BY <2>1, <2>2 DEF LogRec
  <1>4. Map' = D /\ X = {} /\ Y = {} /\ M = (L \ {g}) \cup {h}
    BY MoveLogCopied
  <1>5. \A e \in L : G[e.pba] = F[e.pba]
    BY <1>1, LogSeen
  <1>6. \A l \in Lba : D[l] # NoBlock => G[D[l]] = F[D[l]]
    BY <1>1, <1>2, Members
  <1>7. UNCHANGED <<wr, last>>
    BY DEF MoveCopy, Quiet
  <1>8. \A lpa : Reads(lpa) = Stored(L, X, D, F, lpa) /\ Reads(lpa)' = Stored(M, Y, D, G, lpa)
    BY <1>4 DEF Reads
  <1> HIDE DEF g, b, h, L, M, X, Y, D, F, G
  <1>9. ASSUME NEW lpa \in Lpa, NEW v \in Stored(M, Y, D, G, lpa) PROVE v \in Stored(L, X, D, F, lpa)
    <2> DEFINE o == OfsOf(lpa)
    <2>1. \A e : Place(X, e, o) = e.ppa[o] /\ Place(Y, e, o) = e.ppa[o]
      BY <1>4 DEF Place
    <2>2. InData(D, G, lpa) = InData(D, F, lpa)
      BY <1>6, Places DEF InData
    <2>3. CASE \E e \in M : /\ e.lba = LbaOf(lpa) /\ Place(Y, e, o) # NoPage
                            /\ v = G[e.pba][Place(Y, e, o)].d
      <3>1. PICK e \in M : e.lba = LbaOf(lpa) /\ e.ppa[o] # NoPage /\ v = G[e.pba][e.ppa[o]].d
        BY <2>1, <2>3
      <3>2. PICK f \in L : f.lba = e.lba /\ f.ppa = e.ppa /\ G[e.pba] = F[f.pba]
        BY <1>1, <1>2, <1>3, <1>4, <1>5
      <3>3. F[f.pba][Place(X, f, o)].d \in Stored(L, X, D, F, lpa)
        BY <2>1, <3>1, <3>2, FromLog
      <3> QED BY <2>1, <3>1, <3>2, <3>3
    <2>4. CASE /\ \A e \in M : e.lba = LbaOf(lpa) => Place(Y, e, o) = NoPage
               /\ v = InData(D, G, lpa)
      <3>1. \A e \in L : e.lba = LbaOf(lpa) => Place(X, e, o) = NoPage
        BY <1>3, <1>4, <2>1, <2>4
      <3> QED BY <2>2, <2>4, <3>1, FromData
    <2> QED BY <1>9, <2>3, <2>4, Lookup
  <1>10. Written' = Written
    BY MovePends, StillPending
  <1> QED BY <1>7, <1>8, <1>9, <1>10, MoveTail, Carry

\* A Data block moves with its pages.
LEMMA MoveDataData ==
  ASSUME NftlInv, FedInv, DataInv, MoveCopy, Task.what.op = "data"
  PROVE  DataInv'
  <1> DEFINE l == Task.what.lba
             b == Task.blk
             L == Logs
             X == TurningLogs
             D == Map
             E == Map'
             F == flash
             G == flash'
  <1>1. /\ todo # <<>> /\ Task.op = "move" /\ G[b] = F[Task.src] /\ Task.src \in Block
        /\ b \in Block /\ ~Lost /\ mt_pbas # NoBlock /\ D = CurMap
        /\ \A x \in Programmed : G[x] = F[x]
    BY MoveWrites, AtMove
  <1>2. /\ Logs' = L /\ X = {} /\ TurningLogs' = {} /\ l \in Lba /\ D[l] = Task.src
        /\ E = [D EXCEPT ![l] = b]
    BY MoveDataCopied
  <1>3. D \in [Lba -> BlockX] /\ NoBlock \notin Block
    BY <1>1, MapSeen, Parts
  <1>4. \A e \in L : G[e.pba] = F[e.pba]
    BY <1>1, LogSeen
  <1>5. \A k \in Lba : D[k] # NoBlock => G[D[k]] = F[D[k]]
    BY <1>1, Members
  <1>6. UNCHANGED <<wr, last>>
    BY DEF MoveCopy, Quiet
  <1>7. \A lpa : Reads(lpa) = Stored(L, X, D, F, lpa) /\ Reads(lpa)' = Stored(L, X, E, G, lpa)
    BY <1>2 DEF Reads
  <1> HIDE DEF l, b, L, X, D, E, F, G
  <1>8. ASSUME NEW lpa \in Lpa, NEW v \in Stored(L, X, E, G, lpa) PROVE v \in Stored(L, X, D, F, lpa)
    <2> DEFINE o == OfsOf(lpa)
    <2>1. InData(E, G, lpa) = InData(D, F, lpa)
      <3> DEFINE k == LbaOf(lpa)
      <3>1. k \in Lba
        BY Places
      <3>2. CASE k = l
        BY <1>1, <1>2, <1>3, <3>1, <3>2 DEF InData
      <3>3. CASE k # l
        <4>1. E[k] = D[k]
          BY <1>2, <1>3, <3>1, <3>3
        <4> QED BY <1>5, <3>1, <4>1 DEF InData
      <3> QED BY <3>2, <3>3
    <2>2. CASE \E e \in L : /\ e.lba = LbaOf(lpa) /\ Place(X, e, o) # NoPage
                            /\ v = G[e.pba][Place(X, e, o)].d
      <3>1. PICK e \in L : e.lba = LbaOf(lpa) /\ Place(X, e, o) # NoPage /\ v = G[e.pba][Place(X, e, o)].d
        BY <2>2
      <3>2. F[e.pba][Place(X, e, o)].d \in Stored(L, X, D, F, lpa)
        BY <3>1, FromLog
      <3> QED BY <1>4, <3>1, <3>2
    <2>3. CASE /\ \A e \in L : e.lba = LbaOf(lpa) => Place(X, e, o) = NoPage
               /\ v = InData(E, G, lpa)
      BY <2>1, <2>3, FromData
    <2> QED BY <1>8, <2>2, <2>3, Lookup
  <1>9. Written' = Written
    BY MovePends, StillPending
  <1> QED BY <1>6, <1>7, <1>8, <1>9, MoveTail, Carry

LEMMA MoveCopyData ==
  ASSUME NftlInv, FedInv, DataInv, MoveCopy
  PROVE  DataInv'
  <1>1. Task.what.op \in {"log", "data", "mt", "mtl"}
    BY MoveWrites, AtMove
  <1>2. CASE Task.what.op \in {"mt", "mtl"}
    <2>1. UNCHANGED <<dl, wr, last>>
      BY <1>2 DEF MoveCopy, Quiet
    <2> QED BY <1>2, <2>1, MoveMtCopied, MoveMtlCopied, MovePends, SameDl, DataQuiet
  <1> QED BY <1>1, <1>2, MoveLogData, MoveDataData

\* The tasks that end a log.
LEMMA LogEndPends ==
  ASSUME NftlInv, Convert \/ MergeCopy
  PROVE  Pends
  <1>1. CASE Convert
    <2> DEFINE c == MapTable[dl[Task.i].lba] # NoBlock
               a == AddGt(<<MapTable[dl[Task.i].lba]>>)
               u == UpdMt(dl[Task.i].lba, dl[Task.i].pba)
               d == OnLog("dldel", Task.i)
               w == When(c, a)
               ts == w \o <<u, d>>
               S == {a, u, d}
    <2>1. todo # <<>> /\ Task.op \notin PutOps /\ Then(ts) /\ StackOK
      BY <1>1 DEF Convert, Top, NftlInv, PutOps
    <2>2. a.op \notin PutOps /\ u.op \notin PutOps /\ d.op \notin PutOps
      BY DEF AddGt, UpdMt, OnLog, PutOps
    <2>3. w \in Seq({a})
      BY Whens
    <2> HIDE DEF c, a, u, d, w
    <2>4. ts \in Seq(S) /\ \A t \in S : t.op \notin PutOps
      BY <2>2, <2>3
    <2> HIDE DEF ts, S
    <2> QED BY <2>1, <2>4, PutsUnder
  <1>2. CASE MergeCopy
    <2> DEFINE a == AddGt(<<dl[Task.i].pba>> \o When(Task.old # NoBlock, Task.old))
               u == UpdMt(dl[Task.i].lba, Task.blk)
               d == OnLog("dldel", Task.i)
               ts == <<a, u, d>>
               S == {a, u, d}
    <2>1. todo # <<>> /\ Task.op \notin PutOps /\ Then(ts) /\ StackOK
      BY <1>2 DEF MergeCopy, Top, NftlInv, PutOps
    <2>2. a.op \notin PutOps /\ u.op \notin PutOps /\ d.op \notin PutOps
      BY DEF AddGt, UpdMt, OnLog, PutOps
    <2> HIDE DEF a, u, d
    <2>3. ts \in Seq(S) /\ \A t \in S : t.op \notin PutOps
      BY <2>2
    <2> HIDE DEF ts, S
    <2> QED BY <2>1, <2>3, PutsUnder
  <1> QED BY <1>1, <1>2

\* A log g ends and b is the Data block of its logical block: it is enough to look at
\* the pages of b.
LEMMA LogEndReads ==
  ASSUME NftlInv, FedInv, NEW g \in Logs, NEW b \in Block, LogLeaves(g, b), TurningLogs \subseteq {g},
         \A x \in Programmed : flash'[x] = flash[x], mt_pbas # NoBlock, Map = CurMap,
         NEW lpa \in Lpa, NEW v \in Reads(lpa)'
  PROVE  v \in Reads(lpa) \/ (LbaOf(lpa) = g.lba /\ v = flash'[b][OfsOf(lpa)].d)
  <1> DEFINE L == Logs
             M == Logs'
             X == TurningLogs
             Y == TurningLogs'
             D == Map
             E == Map'
             F == flash
             G == flash'
             o == OfsOf(lpa)
             k == LbaOf(lpa)
  <1>1. ~Lost /\ D \in [Lba -> BlockX] /\ NoBlock \notin Block
    BY MapSeen, Parts DEF FedInv
  <1>2. M = L \ {g} /\ E = [D EXCEPT ![g.lba] = b] /\ Y = {} /\ k \in Lba /\ g.lba \in Lba
    BY LogSeen, Places DEF LogLeaves, LogRec
  <1>3. \A e \in L : G[e.pba] = F[e.pba] /\ (e.lba = g.lba => e = g)
    BY LogSeen
  <1>4. \A l \in Lba : D[l] # NoBlock => G[D[l]] = F[D[l]]
    BY <1>1, Members
  <1>5. Reads(lpa) = Stored(L, X, D, F, lpa) /\ v \in Stored(M, Y, E, G, lpa)
    BY DEF Reads
  <1>6. \A e \in M : Place(X, e, o) = Place(Y, e, o)
    BY <1>2 DEF Place
  <1> HIDE DEF L, M, X, Y, D, E, F, G
  <1>7. CASE \E e \in M : /\ e.lba = k /\ Place(Y, e, o) # NoPage
                          /\ v = G[e.pba][Place(Y, e, o)].d
    <2>1. PICK e \in M : e.lba = k /\ Place(Y, e, o) # NoPage /\ v = G[e.pba][Place(Y, e, o)].d
      BY <1>7
    <2>2. e \in L
      BY <1>2, <2>1
    <2>3. F[e.pba][Place(X, e, o)].d \in Stored(L, X, D, F, lpa)
      BY <1>6, <2>1, <2>2, FromLog
    <2> QED BY <1>3, <1>5, <1>6, <2>1, <2>2, <2>3
  <1>8. CASE (\A e \in M : e.lba = k => Place(Y, e, o) = NoPage) /\ v = InData(E, G, lpa)
    <2>1. CASE k = g.lba
      <3>1. E[k] = b /\ b # NoBlock
        BY <1>1, <1>2, <2>1
      <3> QED BY <1>8, <2>1, <3>1 DEF InData, G
    <2>2. CASE k # g.lba
      <3>1. \A e \in L : e.lba = k => Place(X, e, o) = NoPage
        BY <1>2, <1>6, <1>8, <2>2
      <3>2. E[k] = D[k]
        BY <1>1, <1>2, <2>2
      <3>3. InData(E, G, lpa) = InData(D, F, lpa)
        BY <1>2, <1>4, <3>2 DEF InData
      <3> QED BY <1>5, <1>8, <3>1, <3>3, FromData
    <2> QED BY <2>1, <2>2
  <1> QED BY <1>5, <1>7, <1>8, Lookup

\* A log in order becomes the Data block as it is.
LEMMA ConvertData ==
  ASSUME NftlInv, FedInv, DataInv, Convert
  PROVE  DataInv'
  <1> DEFINE g == dl[Task.i]
  <1>1. todo # <<>> /\ Task.op = "convert" /\ UNCHANGED <<flash, dl, wr, last>>
    BY DEF Convert, Top, Quiet
  <1>2. /\ ~Lost /\ mt_pbas # NoBlock /\ Map = CurMap /\ Dying = {} /\ Indices /\ StackOK
        /\ LogLeaves(g, g.pba) /\ Turning = {Task.i}
    BY <1>1, AtPlain, Parts, ConvertOK
  <1>3. Task.i \in 1..Len(dl)
    <2>1. Task \in Elems(todo)
      BY <1>1, <1>2, Stack
    <2> QED BY <1>1, <1>2, <2>1 DEF Indices
  <1>4. g \in Logs /\ TurningLogs = {g}
    BY <1>2, <1>3 DEF Logs, TurningLogs
  <1>5. g.pba \in Block
    BY <1>4, LogSeen
  <1> HIDE DEF g
  <1>6. ASSUME NEW lpa \in Lpa, NEW v \in Reads(lpa)' PROVE v \in Reads(lpa)
    <2>1. v \in Reads(lpa) \/ (LbaOf(lpa) = g.lba /\ v = flash[g.pba][OfsOf(lpa)].d)
      BY <1>1, <1>2, <1>4, <1>5, <1>6, LogEndReads
    <2>2. Place(TurningLogs, g, OfsOf(lpa)) = OfsOf(lpa) /\ OfsOf(lpa) # NoPage
      BY <1>4, Places, Numbers DEF Place
    <2>3. g.lba = LbaOf(lpa) => flash[g.pba][OfsOf(lpa)].d \in Reads(lpa)
      BY <1>4, <2>2, FromLog DEF Reads
    <2> QED BY <2>1, <2>3
  <1>7. Pends
    BY LogEndPends
  <1>8. TailOK' /\ Written' = Written
    BY <1>1, <1>7, SameDl, TailKept, StillPending DEF DataInv
  <1> QED BY <1>1, <1>6, <1>8, Carry

\* A merge copies the pages of the log and those of the old Data block it lacks.
LEMMA MergeCopyData ==
  ASSUME NftlInv, FedInv, DataInv, MergeCopy
  PROVE  DataInv'
  <1> DEFINE g == dl[Task.i]
             b == Task.blk
  <1>1. /\ todo # <<>> /\ Task.op = "mergecopy" /\ FirstProgram(b) /\ UNCHANGED <<dl, wr, last>>
        /\ flash' = [flash EXCEPT ![b] = [p \in Page |-> MergedPage(g, Task.old, p)]]
    BY DEF MergeCopy, Top, Quiet
  <1>2. /\ ~Lost /\ mt_pbas # NoBlock /\ Map = CurMap /\ Dying = {} /\ Indices /\ StackOK /\ SoundInv
        /\ LogLeaves(g, b) /\ Turning = {} /\ Task.old = Map[g.lba]
        /\ flash \in [Block -> [Page -> PageRec]]
    BY <1>1, AtPlain, Parts, MergeCopyOK DEF TaskOK
  <1>3. Task.i \in 1..Len(dl)
    <2>1. Task \in Elems(todo)
      BY <1>1, <1>2, Stack
    <2> QED BY <1>1, <1>2, <2>1 DEF Indices
  <1>4. g \in Logs /\ TurningLogs = {}
    BY <1>2, <1>3 DEF Logs, TurningLogs
  <1>5. b \in Block /\ b \notin Programmed
    BY <1>1, <1>2, Begun
  <1>6. /\ \A x \in Programmed : flash'[x] = flash[x]
        /\ \A p \in Page : flash'[b][p] = MergedPage(g, Task.old, p)
    <2>1. Programmed \subseteq Block
      BY <1>2, Members
    <2> QED BY <1>1, <1>2, <1>5, <2>1
  <1>7. g \in LogRec /\ g.pba \in Block /\ g.lba \in Lba /\ \A f \in Logs : f.lba = g.lba => f = g
    BY <1>4, LogSeen DEF LogRec
  <1> HIDE DEF g, b
  <1>8. ASSUME NEW lpa \in Lpa, NEW v \in Reads(lpa)'
        PROVE  v \in Reads(lpa) \/ (v = Junk /\ Erased \in Reads(lpa))
    <2> DEFINE o == OfsOf(lpa)
    <2>1. v \in Reads(lpa) \/ (LbaOf(lpa) = g.lba /\ v = flash'[b][o].d)
      BY <1>2, <1>4, <1>5, <1>6, <1>8, LogEndReads
    <2>2. o \in Page
      BY Places
    <2> SUFFICES ASSUME LbaOf(lpa) = g.lba, v = MergedPage(g, Task.old, o).d
                 PROVE  v \in Reads(lpa) \/ (v = Junk /\ Erased \in Reads(lpa))
      BY <1>6, <2>1, <2>2
    <2>3. \A e : Place(TurningLogs, e, o) = e.ppa[o]
      BY <1>4 DEF Place
    <2>4. CASE g.ppa[o] # NoPage
      <3>1. g.ppa[o] \in Page
        BY <1>7, <2>2, <2>4 DEF LogRec
      <3>2. flash[g.pba][g.ppa[o]] \in PageRec
        BY <1>2, <1>7, <3>1
      <3>3. v = flash[g.pba][g.ppa[o]].d
        BY <2>4, <3>2 DEF MergedPage, CopyAs, PageRec
      <3>4. flash[g.pba][Place(TurningLogs, g, o)].d \in Reads(lpa)
        BY <1>4, <2>3, <2>4, FromLog DEF Reads
      <3> QED BY <2>3, <3>3, <3>4
    <2>5. CASE g.ppa[o] = NoPage
      <3>1. InData(Map, flash, lpa) \in Reads(lpa)
        <4>1. \A e \in Logs : e.lba = LbaOf(lpa) => Place(TurningLogs, e, o) = NoPage
          BY <1>7, <2>3, <2>5
        <4> QED BY <4>1, FromData DEF Reads
      <3>2. CASE Task.old # NoBlock
        <4>1. Task.old \in Block
          BY <1>2, <1>7, <3>2, Members
        <4>2. flash[Task.old][o] \in PageRec
          BY <1>2, <2>2, <4>1
        <4>3. v = flash[Task.old][o].d
          BY <2>5, <3>2, <4>2 DEF MergedPage, CopyAs, PageRec
        <4> QED BY <1>2, <3>1, <3>2, <4>3 DEF InData
      <3>3. CASE Task.old = NoBlock
        <4>1. v \in {Junk, Erased}
          BY <2>5, <3>3 DEF MergedPage, UserPage, BlankPage
        <4>2. InData(Map, flash, lpa) = Erased
          BY <1>2, <3>3 DEF InData
        <4> QED BY <3>1, <4>1, <4>2
      <3> QED BY <3>2, <3>3
    <2> QED BY <2>4, <2>5
  <1>9. Pends
    BY LogEndPends
  <1>10. TailOK' /\ Written' = Written
    BY <1>1, <1>9, SameDl, TailKept, StillPending DEF DataInv
  <1> QED BY <1>1, <1>8, <1>10, Carry

-----------------------------------------------------------------------------
(***************************************************************************)
(* The write of a page                                                     *)
(***************************************************************************)

\* The page is stored and the others read as before.
LEMMA PutDone ==
  ASSUME DataInv, UNCHANGED <<wr, last>>, ~Written, Written', T("put") \notin Elems(todo'),
         \A lpa \in Lpa : \A v \in Reads(lpa)' : IF lpa = wr[1] THEN v = wr[2] ELSE v \in Reads(lpa)
  PROVE  DataInv'
  <1>1. TailOK'
    BY DEF TailOK
  <1>2. ASSUME NEW lpa \in Lpa, NEW v \in Reads(lpa)' PROVE v \in Allowed(lpa)'
    <2>1. CASE lpa = wr[1]
      BY <1>2, <2>1 DEF Allowed
    <2>2. CASE lpa # wr[1]
      BY <1>2, <2>2 DEF Allowed, DataInv
    <2> QED BY <2>1, <2>2
  <1> QED BY <1>1, <1>2 DEF DataInv

\* What is on the stack before and after.
LEMMA PutStack ==
  ASSUME StackOK, todo # <<>>, Task.op \in {"put", "append"}, NEW N,
         Elems(todo') = N \cup Elems(Tail(todo)), \A t \in N : t.op \in {"convert", "full"}
  PROVE  ~Written /\ Written' /\ T("put") \notin Elems(todo') /\ T("ack") \in Elems(todo)
  <1>1. Elems(todo) = {Task} \cup Elems(Tail(todo)) /\ Tail(todo) = LowK
    BY Stack, Unders
  <1>2. Elems(Tail(todo)) = {T("low"), T("ack")}
    BY <1>1, WriteElems
  <1>3. ~Written
    BY <1>1, NotWritten
  <1>4. T("low").op = "low" /\ T("ack").op = "ack" /\ T("put").op = "put"
    BY DEF T
  <1>5. Pending' = {T("ack")}
    BY <1>2, <1>4 DEF Pending, PutOps
  <1>6. T("put") \notin Elems(todo')
    BY <1>2, <1>4
  <1> QED BY <1>1, <1>2, <1>3, <1>5, <1>6 DEF Written

\* Two pages of a logical block at the same offset are the same.
LEMMA SamePage ==
  ASSUME NEW m \in Lpa, NEW n \in Lpa, LbaOf(m) = LbaOf(n), OfsOf(m) = OfsOf(n)
  PROVE  m = n
  BY Places

LEMMA PutAppendData ==
  ASSUME NftlInv, FedInv, DataInv, PutAppend
  PROVE  DataInv'
  <1> DEFINE b == Task.blk
             n == NewLog(b)
             k == LbaOf(wr[1])
             L == Logs
             M == Logs'
             X == TurningLogs
             Y == TurningLogs'
             D == Map
             F == flash
             G == flash'
  <1>1. /\ todo # <<>> /\ Task.op = "append" /\ FirstProgram(b) /\ Then(<<>>)
        /\ G = [F EXCEPT ![b][0] = UserPage("log", wr[1], wr[2])] /\ UNCHANGED <<wr, last>>
    BY DEF PutAppend, Top, Quiet
  <1>2. ~Lost /\ StackOK /\ SoundInv /\ F \in [Block -> [Page -> PageRec]] /\ Ready
        /\ \A i \in 1..Len(dl) : dl[i].lba # k
    BY <1>1, Parts DEF FedInv, TaskOK
  <1>3. Elems(todo') = Elems(Tail(todo))
    BY <1>1, <1>2, Popped
  <1>4. ~Written /\ Written' /\ T("put") \notin Elems(todo') /\ T("ack") \in Elems(todo)
    <2> DEFINE N == {x \in {Task} : FALSE}
    <2>1. Elems(todo') = N \cup Elems(Tail(todo)) /\ \A t \in N : t.op \in {"convert", "full"}
      BY <1>3
    <2> HIDE DEF N
    <2> QED BY <1>1, <1>2, <2>1, PutStack
  <1>5. wr \in Lpa \X Data
    BY <1>2, <1>4 DEF Ready
  <1>6. b \in Block /\ b \notin Programmed
    BY <1>1, <1>2, Begun
  <1>7. (\A x \in Programmed : G[x] = F[x]) /\ G[b][0].d = wr[2]
    <2>1. Programmed \subseteq Block /\ 0 \in Page
      BY <1>2, Members, Numbers
    <2> QED BY <1>1, <1>2, <1>6, <2>1 DEF UserPage
  <1>8. n.lba = k /\ n.pba = b /\ n.ppa = [p \in Page |-> IF p = OfsOf(wr[1]) THEN 0 ELSE NoPage]
    BY DEF NewLog
  <1>9. M = L \cup {n} /\ Map' = D /\ X = {} /\ Y = {}
    BY PutAppendOK DEF LogComesIn
  <1>10. \A e \in L : G[e.pba] = F[e.pba] /\ e.lba # k
    BY <1>2, <1>7, LogSeen DEF Logs
  <1>11. \A l \in Lba : D[l] # NoBlock => G[D[l]] = F[D[l]]
    BY <1>2, <1>7, Members
  <1>12. \A lpa : Reads(lpa) = Stored(L, X, D, F, lpa) /\ Reads(lpa)' = Stored(M, Y, D, G, lpa)
    BY <1>9 DEF Reads
  <1> HIDE DEF b, n, k, L, M, X, Y, D, F, G
  <1>13. ASSUME NEW lpa \in Lpa, NEW v \in Stored(M, Y, D, G, lpa)
         PROVE  IF lpa = wr[1] THEN v = wr[2] ELSE v \in Stored(L, X, D, F, lpa)
    <2> DEFINE o == OfsOf(lpa)
    <2>1. \A e : Place(X, e, o) = e.ppa[o] /\ Place(Y, e, o) = e.ppa[o]
      BY <1>9 DEF Place
    <2>2. InData(D, G, lpa) = InData(D, F, lpa)
      BY <1>11, Places DEF InData
    <2>3. n.ppa[o] = IF o = OfsOf(wr[1]) THEN 0 ELSE NoPage
      BY <1>8, Places
    <2>4. 0 # NoPage /\ wr[1] \in Lpa
      BY <1>5 DEF NoPage
    <2>5. CASE \E e \in M : /\ e.lba = LbaOf(lpa) /\ Place(Y, e, o) # NoPage
                            /\ v = G[e.pba][Place(Y, e, o)].d
      <3>1. PICK e \in M : e.lba = LbaOf(lpa) /\ e.ppa[o] # NoPage /\ v = G[e.pba][e.ppa[o]].d
        BY <2>1, <2>5
      <3>2. CASE e = n
        <4>1. o = OfsOf(wr[1]) /\ LbaOf(lpa) = LbaOf(wr[1])
          BY <1>8, <2>3, <3>1, <3>2 DEF k
        <4>2. lpa = wr[1]
          BY <2>4, <4>1, SamePage
        <4> QED BY <1>7, <1>8, <2>3, <3>1, <3>2, <4>1, <4>2
      <3>3. CASE e \in L
        <4>1. LbaOf(lpa) # LbaOf(wr[1])
          BY <1>10, <3>1, <3>3 DEF k
        <4>2. F[e.pba][Place(X, e, o)].d \in Stored(L, X, D, F, lpa)
          BY <2>1, <3>1, <3>3, FromLog
        <4> QED BY <1>10, <2>1, <3>1, <3>3, <4>1, <4>2
      <3> QED BY <1>9, <3>2, <3>3
    <2>6. CASE (\A e \in M : e.lba = LbaOf(lpa) => Place(Y, e, o) = NoPage) /\ v = InData(D, G, lpa)
      <3>1. lpa # wr[1]
        <4>1. n \in M /\ Place(Y, n, o) = n.ppa[o]
          BY <1>9, <2>1
        <4> QED BY <1>8, <2>3, <2>4, <2>6, <4>1 DEF k
      <3>2. \A e \in L : e.lba = LbaOf(lpa) => Place(X, e, o) = NoPage
        BY <1>9, <2>1, <2>6
      <3> QED BY <2>2, <2>6, <3>1, <3>2, FromData
    <2> QED BY <1>13, <2>5, <2>6, Lookup
  <1> QED BY <1>1, <1>4, <1>12, <1>13, PutDone

\* The next page of the log e is programmed with page k, which is then its newest.
LEMMA PutInLogData ==
  ASSUME NftlInv, FedInv, DataInv, PutInLog
  PROVE  DataInv'
  <1> DEFINE i == DlIndex(LbaOf(wr[1]))
             e == dl[i]
             w == OfsOf(wr[1])
             f == [e EXCEPT !.used = @ + 1, !.ppa[OfsOf(wr[1])] = e.used]
             L == Logs
             M == Logs'
             X == TurningLogs
             Y == TurningLogs'
             D == Map
             F == flash
             G == flash'
             pg == UserPage(IF InOrder(e) THEN "data" ELSE "log", wr[1], wr[2])
  <1>1. /\ todo # <<>> /\ Task.op = "put" /\ i # 0 /\ UNCHANGED <<wr, last>>
        /\ G = [F EXCEPT ![e.pba][e.used] = pg]
        /\ InOrder(e) => Then(<<OnLog("convert", i), OnLog("full", i)>>)
        /\ ~InOrder(e) => Then(<<OnLog("full", i)>>)
    BY DEF PutInLog, Top, Quiet
  <1>2. ~Lost /\ StackOK /\ F \in [Block -> [Page -> PageRec]] /\ Ready /\ OneLog /\ dl \in Seq(LogRec)
        /\ Dying = {}
    BY <1>1, Parts, AtPlain DEF FedInv, PlainOps
  <1>3. ~Written /\ Written' /\ T("put") \notin Elems(todo') /\ T("ack") \in Elems(todo)
    <2> DEFINE c == OnLog("convert", i)
               u == OnLog("full", i)
    <2>1. c.op = "convert" /\ u.op = "full"
      BY DEF OnLog
    <2>2. /\ InOrder(e) => Then(<<c, u>>)
          /\ ~InOrder(e) => Then(<<u>>)
      BY <1>1
    <2> HIDE DEF c, u, e
    <2>3. PICK N : N \in {{c, u}, {u}} /\ Elems(todo') = N \cup Elems(Tail(todo))
      <3>1. CASE InOrder(e)
        <4>1. <<c, u>> \in Seq({c, u}) /\ Elems(<<c, u>>) = {c, u}
          BY Pair
        <4> QED BY <1>1, <1>2, <2>2, <3>1, <4>1, Turned
      <3>2. CASE ~InOrder(e)
        <4>1. <<u>> \in Seq({u}) /\ Elems(<<u>>) = {u}
          BY Alone
        <4> QED BY <1>1, <1>2, <2>2, <3>2, <4>1, Turned
      <3> QED BY <3>1, <3>2
    <2>4. \A t \in N : t.op \in {"convert", "full"}
      BY <2>1, <2>3
    <2> QED BY <1>1, <1>2, <2>3, <2>4, PutStack
  <1>4. wr \in Lpa \X Data /\ w \in Page /\ wr[1] \in Lpa
    BY <1>2, <1>3, Places DEF Ready
  <1>5. T("put") \in Elems(todo)
    BY <1>1, <1>2, Stack, Unders
  <1>6. i \in 1..Len(dl) /\ e.lba = LbaOf(wr[1]) /\ e \in LogRec
    BY <1>1, <1>2, Found
  <1>7. e.used < PagesPerBlock /\ (InOrder(e) => w = PagesPerBlock - 1)
    BY <1>2, <1>5, <1>6 DEF Ready, DataInv, TailOK
  <1>8. /\ Map' = D /\ X = {}
        /\ InOrder(e) => M = L /\ Y = {e}
        /\ ~InOrder(e) => M = (L \ {e}) \cup {f} /\ Y = {}
    BY PutInLogOK DEF LogTakes
  <1>9. e \in L /\ e.pba \in Block /\ LogOK(e, F[e.pba])
    <2>1. e \in L
      BY <1>2, <1>6 DEF Logs
    <2> QED BY <1>8, <2>1, LogSeen
  <1>10. e.used \in Page /\ e.used \in 1..PagesPerBlock
    BY <1>6, <1>7, Numbers DEF LogRec
  <1>11. /\ f.lba = e.lba /\ f.pba = e.pba /\ f.ppa = [e.ppa EXCEPT ![w] = e.used]
    BY <1>4, <1>6, <1>7, Grown
  <1>12. /\ G[e.pba] = [F[e.pba] EXCEPT ![e.used] = pg]
         /\ \A x \in Block : x # e.pba => G[x] = F[x]
    BY <1>1, <1>2, <1>9
  <1>13. pg.d = wr[2] /\ F[e.pba] \in [Page -> PageRec]
    BY <1>2, <1>9 DEF UserPage
  <1>14. \A g \in L : g.pba \in Block /\ (g # e => g.lba # e.lba /\ G[g.pba] = F[g.pba])
    <2> TAKE g \in L
    <2>1. g.pba \in Block /\ (g.lba = e.lba => g = e)
      BY <1>9, LogSeen
    <2>2. g # e => g.pba # e.pba
      <3>1. \A x, y \in L : x.pba = y.pba /\ x.pba # NoBlock => x = y
        BY <1>2, Parts DEF Tables, Owned
      <3> QED BY <1>9, <2>1, <3>1, Numbers
    <2> QED BY <1>12, <2>1, <2>2
  <1>15. \A l \in Lba : D[l] # NoBlock => G[D[l]] = F[D[l]]
    <2> SUFFICES ASSUME NEW l \in Lba, D[l] # NoBlock PROVE G[D[l]] = F[D[l]]
      OBVIOUS
    <2>1. D[l] \in Programmed /\ D[l] \notin LogBlocks(Logs) /\ Programmed \subseteq Block
      BY <1>2, Members
    <2>2. e.pba \in LogBlocks(Logs)
      BY <1>9, LogSeen
    <2> QED BY <1>12, <2>1, <2>2
  <1>16. \A lpa : Reads(lpa) = Stored(L, X, D, F, lpa) /\ Reads(lpa)' = Stored(M, Y, D, G, lpa)
    BY <1>8 DEF Reads
  <1> HIDE DEF i, e, f, L, M, X, Y, D, F, G, pg
  <1>17. ASSUME NEW lpa \in Lpa, NEW v \in Stored(M, Y, D, G, lpa)
         PROVE  IF lpa = wr[1] THEN v = wr[2] ELSE v \in Stored(L, X, D, F, lpa)
    <2> DEFINE o == OfsOf(lpa)
               k == LbaOf(lpa)
    <2>1. o \in Page /\ NoPage \notin Page /\ (k = e.lba /\ o = w => lpa = wr[1])
      BY <1>4, <1>6, Places, SamePage, Numbers
    <2>2. InData(D, G, lpa) = InData(D, F, lpa)
      BY <1>15, Places DEF InData
    \* Where the log holds offset o now.
    <2>3. PICK h \in M : /\ h.lba = e.lba /\ h.pba = e.pba
                         /\ o = w => Place(Y, h, o) = e.used
                         /\ o # w => Place(Y, h, o) = e.ppa[o]
                         /\ \A g \in M : g # h => g \in L /\ g # e /\ Place(Y, g, o) = g.ppa[o]
                         /\ \A g \in L : g # e => g \in M /\ g # h
      <3>1. CASE InOrder(e)
        <4>1. Place(Y, e, o) = o
          BY <1>8, <3>1 DEF Place
        <4>2. o = w => o = e.used
          BY <1>7, <3>1 DEF InOrder
        <4>3. o # w => e.ppa[o] = o
          <5>1. ASSUME o # w PROVE o \in 0..(PagesPerBlock - 2)
            BY <1>7, <2>1, <3>1, <5>1, Numbers DEF Page
          <5> QED BY <3>1, <5>1 DEF InOrder
        <4>4. \A g \in M : g # e => Place(Y, g, o) = g.ppa[o]
          BY <1>8, <3>1 DEF Place
        <4> QED BY <1>8, <1>9, <3>1, <4>1, <4>2, <4>3, <4>4
      <3>2. CASE ~InOrder(e)
        <4>1. f \in M /\ \A g : Place(Y, g, o) = g.ppa[o]
          BY <1>8, <3>2 DEF Place
        <4>2. (o = w => f.ppa[o] = e.used) /\ (o # w => f.ppa[o] = e.ppa[o])
          BY <1>4, <1>6, <1>11, <2>1 DEF LogRec
        <4>3. \A g \in L : g # e => g # f
          BY <1>11, <1>14
        <4>4. \A g \in M : g # f => g \in L /\ g # e
          BY <1>8, <3>2
        <4>5. \A g \in L : g # e => g \in M /\ g # f
          BY <1>8, <3>2, <4>3
        <4>6. (o = w => Place(Y, f, o) = e.used) /\ (o # w => Place(Y, f, o) = e.ppa[o])
          BY <4>1, <4>2
        <4> QED BY <1>11, <4>1, <4>4, <4>5, <4>6
      <3> QED BY <3>1, <3>2
    <2>4. \A g : Place(X, g, o) = g.ppa[o]
      BY <1>8 DEF Place
    <2>5. CASE \E g \in M : /\ g.lba = k /\ Place(Y, g, o) # NoPage
                            /\ v = G[g.pba][Place(Y, g, o)].d
      <3>1. PICK g \in M : g.lba = k /\ Place(Y, g, o) # NoPage /\ v = G[g.pba][Place(Y, g, o)].d
        BY <2>5
      <3>2. CASE g = h /\ o = w
        <4>1. lpa = wr[1] /\ v = G[e.pba][e.used].d
          BY <2>1, <2>3, <3>1, <3>2
        <4> QED BY <1>10, <1>12, <1>13, <4>1
      <3>3. CASE g = h /\ o # w
        <4>1. e.ppa[o] # NoPage /\ v = G[e.pba][e.ppa[o]].d /\ e.lba = k
          BY <2>3, <3>1, <3>3
        <4>2. e.ppa[o] \in Page /\ e.ppa[o] < e.used
          BY <1>6, <1>9, <2>1, <4>1 DEF LogOK, LogRec
        <4>3. G[e.pba][e.ppa[o]] = F[e.pba][e.ppa[o]]
          BY <1>10, <1>12, <1>13, <4>2 DEF Page
        <4>4. F[e.pba][Place(X, e, o)].d \in Stored(L, X, D, F, lpa)
          BY <1>9, <2>4, <4>1, FromLog
        <4>5. lpa # wr[1]
          BY <3>3
        <4> QED BY <2>4, <4>1, <4>3, <4>4, <4>5
      <3>4. CASE g # h
        <4>1. g \in L /\ g # e /\ Place(Y, g, o) = g.ppa[o]
          BY <2>3, <3>4
        <4>2. F[g.pba][Place(X, g, o)].d \in Stored(L, X, D, F, lpa)
          BY <2>4, <3>1, <4>1, FromLog
        <4>3. lpa # wr[1]
          BY <1>6, <1>14, <3>1, <4>1
        <4> QED BY <1>14, <2>4, <3>1, <4>1, <4>2, <4>3
      <3> QED BY <3>2, <3>3, <3>4
    <2>6. CASE (\A g \in M : g.lba = k => Place(Y, g, o) = NoPage) /\ v = InData(D, G, lpa)
      <3>1. lpa # wr[1]
        <4> SUFFICES ASSUME lpa = wr[1] PROVE FALSE
          OBVIOUS
        <4>1. Place(Y, h, o) = e.used /\ h.lba = k
          BY <1>6, <2>3
        <4> QED BY <1>10, <2>1, <2>6, <4>1
      <3>2. ASSUME NEW g \in L, g.lba = k PROVE Place(X, g, o) = NoPage
        <4>1. CASE g = e
          <5>1. o # w
            BY <2>1, <3>1, <3>2, <4>1
          <5>2. Place(Y, h, o) = e.ppa[o] /\ h.lba = k
            BY <2>3, <3>2, <4>1, <5>1
          <5> QED BY <2>4, <2>6, <4>1, <5>2
        <4>2. CASE g # e
          <5>1. g \in M /\ Place(Y, g, o) = g.ppa[o]
            BY <2>3, <4>2
          <5> QED BY <2>4, <2>6, <3>2, <5>1
        <4> QED BY <4>1, <4>2
      <3> QED BY <2>2, <2>6, <3>1, <3>2, FromData
    <2> QED BY <1>17, <2>5, <2>6, Lookup
  <1> QED BY <1>1, <1>3, <1>16, <1>17, PutDone

-----------------------------------------------------------------------------
(***************************************************************************)
(* Every page reads as it was last written                                 *)
(***************************************************************************)

LEMMA DataStep ==
  ASSUME ~TailRewrites
  PROVE  NftlInv /\ FedInv /\ NeverStarved /\ DataInv /\ (Next \/ Remount) => DataInv'
  <1> SUFFICES ASSUME NftlInv, FedInv, NeverStarved, DataInv, Next \/ Remount PROVE DataInv'
    OBVIOUS
  <1>1. CASE Call
    <2>1. ASSUME NEW lpa \in Lpa, NEW d \in HostWrites(lpa), WriteLogicPage(lpa, d) PROVE DataInv'
      BY <2>1, WriteData
    <2>2. ASSUME NEW lpa \in Lpa, Read(lpa) PROVE DataInv'
      BY <2>2, ReadData
    <2>3. ASSUME NEW lpa \in Lpa, NEW b \in Block, MoveLog(lpa, b) \/ MoveData(lpa, b) PROVE DataInv'
      BY <2>3, MovesData
    <2> QED BY <1>1, <2>1, <2>2, <2>3 DEF Call
  <1>2. CASE Proceed
    <2>1. ASSUME NEW b \in Block,
                 \/ PutAlloc(b) \/ MergeAlloc(b) \/ UpdateMtAlloc(b)
                 \/ MtMergeAlloc(b) \/ FormatAlloc(b)
          PROVE  DataInv'
      BY <2>1, PutAllocData, TakeData
    <2>2. CASE PutInLog \/ PutAppend \/ Convert \/ DeleteLog \/ WriteReturns \/ MergeCopy
      BY <2>2, PutInLogData, PutAppendData, ConvertData, DeleteLogData, WriteReturnsData, MergeCopyData
    <2>3. CASE AddGarbage \/ Reclaim \/ MoveCopy
      BY <2>3, AddGarbageData, ReclaimData, MoveCopyData
    <2>4. CASE \/ ManyPages \/ MergeLoop \/ LowSpace \/ FullLog \/ UpdateMtInsert \/ UpdateMtAppend
               \/ MtMergeCopy \/ MtMergeSet \/ FormatWrite
      BY <2>4, QuietData
    <2> QED BY <1>2, <2>1, <2>2, <2>3, <2>4, Fed, FedPut DEF Proceed
  <1>3. ASSUME NEW b \in Block, MoveMap(b) PROVE DataInv'
    BY <1>3, MovesData
  <1> QED BY <1>1, <1>2, <1>3, RemountData DEF Next

LEMMA DataInit == Init => DataInv
  <1> SUFFICES ASSUME Init PROVE DataInv
    OBVIOUS
  <1>1. /\ dl = <<>> /\ todo = <<T("format")>> /\ mt_pbas = NoBlock
        /\ last = [lpa \in Lpa |-> {Erased, Junk}]
    BY DEF Init
  <1>2. Elems(todo) = {T("format")} /\ T("format").op = "format" /\ T("put").op = "put" /\ Len(dl) = 0
    BY <1>1, Alone DEF T
  <1>3. TailOK /\ ~Written
    <2>1. Pending = {} /\ T("put") \notin Elems(todo)
      BY <1>2 DEF Pending, PutOps
    <2> QED BY <2>1 DEF TailOK, Written
  <1>4. Map = NoMap /\ Logs = {}
    <2>1. Updates = {}
      BY <1>2 DEF Updates, Has
    <2>2. Map = NoMap
      BY <1>1, <2>1 DEF Map, CurMap
    <2>3. (1..Len(dl)) \ Dying = {}
      BY <1>2
    <2> QED BY <2>2, <2>3 DEF Logs
  <1>5. ASSUME NEW lpa \in Lpa PROVE Reads(lpa) \subseteq Allowed(lpa)
    <2>1. InLogs(Logs, TurningLogs, lpa) = {}
      BY <1>4 DEF InLogs
    <2>2. Reads(lpa) = {InData(Map, flash, lpa)}
      BY <2>1 DEF Reads, Stored
    <2>3. InData(Map, flash, lpa) = Erased
      BY <1>4, Places DEF InData, NoMap
    <2> QED BY <1>1, <1>3, <2>2, <2>3 DEF Allowed
  <1> QED BY <1>1, <1>3, <1>5 DEF DataInv

LEMMA DataInvariant ==
  ASSUME ~TailRewrites
  PROVE  RestartsSpec /\ []NeverStarved => []DataInv
  <1>1. NftlInv /\ FedInv /\ NeverStarved /\ DataInv /\ [Next \/ Remount]_vars => DataInv'
    BY DataStep, DataStutter
  <1> QED BY <1>1, DataInit, NftlInvariant, PTL DEF RestartsSpec

\* As long as nftl_get_free_block finds a block whenever a log, a merge or the mapping
\* table needs one, and no page is rewritten in a block whose log holds in order all its
\* pages but the last, every logical page reads as what was last written to it:
\* wherever logs, merges, conversions, moves, reclaims and restarts have put it.
THEOREM NftlReadBack ==
  ASSUME ~TailRewrites
  PROVE  RestartsSpec /\ []NeverStarved => []ReadBack
  <1>1. NftlInv /\ FedInv /\ DataInv => ReadBack
    <2> SUFFICES ASSUME NftlInv, FedInv, DataInv, Idle, NEW lpa \in Lpa
                 PROVE  ReadLogicPage(lpa) \in last[lpa]
      BY DEF ReadBack
    <2> DEFINE i == DlIndex(LbaOf(lpa))
               o == OfsOf(lpa)
    <2>1. /\ Elems(todo) = {} /\ ~Lost /\ ~Closing /\ mt_pbas # NoBlock /\ Dying = {} /\ Turning = {}
          /\ Map = CurMap
      BY AtRest DEF Idle
    <2>2. MapTable = Map /\ OneLog /\ dl \in Seq(LogRec)
      BY <2>1, MapSeen, Parts
    <2>3. Logs = {dl[j] : j \in 1..Len(dl)} /\ TurningLogs = {}
      BY <2>1 DEF Logs, TurningLogs
    <2>4. \A e : Place(TurningLogs, e, o) = e.ppa[o]
      BY <2>3 DEF Place
    <2>5. Reads(lpa) \subseteq last[lpa]
      <3>1. Pending = {}
        BY <2>1 DEF Pending
      <3> QED BY <3>1 DEF DataInv, Allowed, Written
    <2>6. CASE InLog(lpa)
      <3>1. i # 0 /\ dl[i].ppa[o] # NoPage
        BY <2>6 DEF InLog
      <3>2. i \in 1..Len(dl) /\ dl[i].lba = LbaOf(lpa)
        BY <2>2, <3>1, Found
      <3>3. dl[i] \in Logs
        BY <2>3, <3>2
      <3>4. dl[i].pba # NoBlock
        BY <3>2 DEF FedInv, NoHole
      <3>5. ReadLogicPage(lpa) = flash[dl[i].pba][dl[i].ppa[o]].d
        BY <2>6, <3>4 DEF ReadLogicPage
      <3>6. flash[dl[i].pba][Place(TurningLogs, dl[i], o)].d \in Reads(lpa)
        BY <2>4, <3>1, <3>2, <3>3, FromLog DEF Reads
      <3> QED BY <2>4, <2>5, <3>5, <3>6
    <2>7. CASE ~InLog(lpa)
      <3>1. ASSUME NEW e \in Logs, e.lba = LbaOf(lpa) PROVE Place(TurningLogs, e, o) = NoPage
        <4>1. PICK j \in 1..Len(dl) : e = dl[j]
          BY <2>3
        <4>2. i = j /\ j # 0
          BY <2>2, <3>1, <4>1, Found
        <4> QED BY <2>4, <2>7, <4>1, <4>2 DEF InLog
      <3>2. InData(Map, flash, lpa) \in Reads(lpa)
        BY <3>1, FromData DEF Reads
      <3>3. ReadLogicPage(lpa) = InData(Map, flash, lpa)
        BY <2>2, <2>7 DEF ReadLogicPage, InData
      <3> QED BY <2>5, <3>2, <3>3
    <2> QED BY <2>6, <2>7
  <1> QED BY <1>1, NftlInvariant, DataInvariant, PTL

===============================================================================
