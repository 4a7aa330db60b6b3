------------------------------- MODULE SdHost -------------------------------
(***************************************************************************)
(* The SD host driver: BSP/oss/sdhc/ssl_sd.c on top of sdhc.c, between the *)
(* kernel's mmc core, which issues one request at a time and waits a       *)
(* second for it, and the controller, which answers with interrupts.       *)
(*                                                                         *)
(* A request carries a scatter list.  The controller takes one page of it  *)
(* per command, so the completion of a command (sslsd_cmd_done) works out  *)
(* how far the transfer came and issues the next one, from the interrupt   *)
(* handler.  The driver has one command structure and two pointers to it:  *)
(* cmd while the response is awaited, dat while data moves.  The registers *)
(* are those of the last command issued.                                   *)
(*                                                                         *)
(* Blocks are counted from the start of the request, on the card (arg) and *)
(* in memory.  DMA is in use.  Interrupts are off from the timer's start   *)
(* in sslsd_request to the end of sdhc_cmd, in the handler and in the      *)
(* timer's function; the controller goes on meanwhile, which is what the   *)
(* driver's loops wait for.  What sslsd_request does about a first command *)
(* that was refused, with interrupts on, comes before the next interrupt.  *)
(***************************************************************************)
EXTENDS Integers, Sequences, FiniteSets

CONSTANTS
  PageLists,     \* the scatter lists, as the block each page begins with and the end
  MaxRetries     \* bound on the retries the core asks for a plain command

ASSUME SdAssumption ==
  /\ \A p \in PageLists : /\ p \in Seq(Nat) /\ Len(p) > 1 /\ p[1] = 0
                          /\ \A i \in 1 .. Len(p) - 1 : p[i] < p[i + 1]
  /\ MaxRetries \in Nat

VARIABLES
  \* the issuer
  phase,          \* "idle", "setup" (in sslsd_request) or "pending"
  retries,        \* cmd->retries
  \* sslsd_host
  kind,           \* tcmd: "plain", "busy" (R1b) or "data"
  rt,             \* tcmd.rt, and what the request reports when it is over
  arg,            \* tcmd.arg
  count, actual,  \* tdat
  pages, sg, sgofs, retry, xfered, timer,
  \* sdhc_t
  fins, cmd, dat,
  \* the code that runs with interrupts off
  step, sta,      \* the part of sdhc_isr or sdhc_flush that comes next
  sub,            \* the function it is in; "stray": it works on a request that
                  \* is over, or not yet submitted
  \* the controller and the card
  line,           \* what it is doing
  hw,             \* its registers: kind, arg, mem, count, moved
  irq,            \* interrupt status
  present,        \* the card is in the slot
  \* history
  first,          \* whether the request's first command was accepted
  mem,            \* <<memory block, card block>> moved for this request
  missed          \* an error was reported since the last command was issued and
                  \* dropped, as that command was in the other slot

issuer == <<phase, retries>>
tcmd   == <<kind, rt, arg>>
tdat   == <<count, actual>>
walk   == <<pages, sg, sgofs, retry, xfered>>
slots  == <<cmd, dat>>
code   == <<step, sta, sub>>
chip   == <<line, hw, irq, present>>
ghost  == <<first, mem, missed>>
vars == <<issuer, tcmd, tdat, walk, timer, fins, slots, code, chip, ghost>>

CMD == "CMD"
DAT == "DAT"
RSP_ERR == "RSP_ERR"
DAT_ERR == "DAT_ERR"
A12 == "A12"
CARD == "CARD"     \* insertion or removal
Bits == {CMD, DAT, RSP_ERR, DAT_ERR, A12, CARD}

Running == step # "none" \/ sub # "none"

NoTransfer == [kind |-> "plain", arg |-> 0, mem |-> -1, count |-> 0, moved |-> 0]

Init ==
  /\ phase = "idle" /\ retries = 0
  /\ kind = "plain" /\ rt = "ok" /\ arg = 0
  /\ count = 0 /\ actual = 0
  /\ pages = <<>> /\ sg = 1 /\ sgofs = 0 /\ retry = FALSE /\ xfered = 0
  /\ timer = FALSE /\ fins = TRUE /\ cmd = FALSE /\ dat = FALSE
  /\ step = "none" /\ sta = {} /\ sub = "none"
  /\ line = "idle" /\ irq = {} /\ present = TRUE
  /\ hw = NoTransfer
  /\ first = "none" /\ mem = {} /\ missed = FALSE

---------------------------------------------------------------------------
(* sslsd_request.                                                          *)

\* The blocks that page i of the scatter list holds.
PageSize(p, i) == p[i + 1] - p[i]

NewRequest ==
  /\ phase = "idle" /\ ~Running
  /\ xfered' = 0 /\ mem' = {} /\ first' = "none" /\ missed' = FALSE
  /\ hw' = [hw EXCEPT !.mem = -1]     \* whatever still moves is not for it

\* No card: -ENOMEDIUM at once, and for every retry.
RequestRefused ==
  /\ ~fins
  /\ NewRequest
  /\ rt' = "err"
  /\ UNCHANGED <<phase, retries, kind, arg, tdat, pages, sg, sgofs, retry, timer, fins, slots,
                 code, line, irq, present>>

RequestPlain(k, r) ==
  /\ fins
  /\ NewRequest
  /\ phase' = "setup" /\ retries' = r
  /\ kind' = k /\ arg' = 0
  /\ UNCHANGED <<rt, tdat, pages, sg, sgofs, retry, timer, fins, slots, code, line, irq,
                 present>>

RequestData(p) ==
  /\ fins
  /\ NewRequest
  /\ phase' = "setup" /\ retries' = 0
  /\ kind' = "data" /\ arg' = 0
  /\ pages' = p /\ sg' = 1 /\ sgofs' = 0 /\ retry' = TRUE /\ count' = PageSize(p, 1)
  /\ UNCHANGED <<rt, actual, timer, fins, slots, code, line, irq, present>>

\* The rest of it: two seconds on the timer, then sdhc_cmd.
Submit ==
  /\ phase = "setup" /\ ~Running
  /\ phase' = "pending"
  /\ timer' = TRUE
  /\ sub' = "submit"
  /\ UNCHANGED <<retries, tcmd, tdat, walk, fins, slots, step, sta, chip, ghost>>

---------------------------------------------------------------------------
(* sdhc_cmd, called from sslsd_request ("submit") or, for the next part of *)
(* a transfer, from sslsd_cmd_done ("next").                               *)

\* CMD_INHIBIT and DAT_INHIBIT.
LineBusy == IF kind = "plain" THEN line \in {"cmd", "abort", "dead"} ELSE line # "idle"

sdhc_cmd ==
  /\ sub \in {"submit", "next"} /\ fins /\ ~LineBusy
  /\ rt' = "ok"
  /\ actual' = IF kind = "data" THEN 0 ELSE actual
  /\ cmd' = TRUE
  /\ line' = "cmd"
  /\ hw' = IF kind = "data"
           THEN [kind |-> kind, arg |-> arg, mem |-> pages[sg] + sgofs,
                 count |-> count, moved |-> 0]
           ELSE [NoTransfer EXCEPT !.kind = kind]
  /\ first' = IF first = "none" THEN "accepted" ELSE first
  /\ missed' = FALSE
  /\ sub' = "none"
  /\ UNCHANGED <<issuer, kind, arg, count, walk, timer, fins, dat, step, sta, irq, present,
                 mem>>

\* No card, or the line stayed busy: nothing but rt is set.
sdhc_cmd_refused ==
  /\ sub \in {"submit", "next"} /\ (~fins \/ LineBusy)
  /\ rt' = "err"
  /\ first' = IF first = "none" THEN "refused" ELSE first
  /\ sub' = IF sub = "submit" THEN "done" ELSE "finish"
  /\ UNCHANGED <<issuer, kind, arg, tdat, walk, timer, fins, slots, step, sta, chip, mem,
                 missed>>

---------------------------------------------------------------------------
(* sslsd_cmd_done.                                                         *)

\* A part of the transfer is over, with or without an error.
NothingMoved == actual = 0 /\ ~retry
PageLeft == actual < count
MorePages == sg < Len(pages) - 1

\* The request is not the one in progress.
CmdDoneStray ==
  /\ sub = "done" /\ phase # "pending"
  /\ sub' = "stray"
  /\ UNCHANGED <<issuer, tcmd, tdat, walk, timer, fins, slots, step, sta, chip, ghost>>

\* Mutant: the next command starts at the card's old block.
CmdDoneNextKeepsArg ==
  /\ sub = "done" /\ phase = "pending" /\ kind = "data" /\ ~NothingMoved
  /\ PageLeft \/ MorePages
  /\ timer' = FALSE
  /\ rt' = "ok"
  /\ xfered' = xfered + actual
  /\ IF PageLeft
     THEN /\ sgofs' = sgofs + actual
          /\ retry' = (retry /\ actual # 0)
          /\ sg' = sg
     ELSE sgofs' = 0 /\ retry' = TRUE /\ sg' = sg + 1
  /\ count' = PageSize(pages, sg') - sgofs'
  /\ sub' = "next"
  /\ UNCHANGED <<issuer, kind, arg, actual, pages, fins, slots, step, sta, chip, ghost>>

\* There was progress, or there is a retry left: the rest of the page, or the next
\* page, whatever the error.
CmdDoneNext ==
  /\ sub = "done" /\ phase = "pending" /\ kind = "data" /\ ~NothingMoved
  /\ PageLeft \/ MorePages
  /\ timer' = FALSE
  /\ rt' = "ok"
  /\ xfered' = xfered + actual
  /\ arg' = arg + actual
  /\ IF PageLeft
     THEN /\ sgofs' = sgofs + actual
          /\ retry' = (retry /\ actual # 0)
          /\ sg' = sg
     ELSE sgofs' = 0 /\ retry' = TRUE /\ sg' = sg + 1
  /\ count' = PageSize(pages, sg') - sgofs'
  /\ sub' = "next"
  /\ UNCHANGED <<issuer, kind, actual, pages, fins, slots, step, sta, chip, ghost>>

\* The last page is done, or nothing moves any more, or there is no data.
CmdDoneLast ==
  /\ sub = "done" /\ phase = "pending"
  /\ timer' = FALSE
  /\ \/ /\ kind # "data" \/ NothingMoved
        /\ UNCHANGED <<rt, xfered>>
     \/ /\ kind = "data" /\ ~NothingMoved /\ ~PageLeft /\ ~MorePages
        /\ rt' = "ok"
        /\ xfered' = xfered + actual
  /\ sub' = "finish"
  /\ UNCHANGED <<issuer, kind, arg, tdat, pages, sg, sgofs, retry, fins, slots, step, sta,
                 chip, ghost>>

\* Mutant: the retries are not looked at.
RetryUnchecked ==
  /\ sub = "finish" /\ rt = "err" /\ kind # "data"
  /\ retries' = retries - 1
  /\ timer' = TRUE
  /\ sub' = "submit"
  /\ UNCHANGED <<phase, tcmd, tdat, walk, fins, slots, step, sta, chip, ghost>>

\* mmc_request_done: a failed command with retries left is submitted again (to a
\* slot that is empty by now, to be refused again).
Retry ==
  /\ sub = "finish" /\ rt = "err" /\ retries > 0
  /\ retries' = retries - 1
  /\ timer' = TRUE
  /\ sub' = "submit"
  /\ UNCHANGED <<phase, tcmd, tdat, walk, fins, slots, step, sta, chip, ghost>>

mmc_request_done ==
  /\ sub = "finish" /\ ~(rt = "err" /\ retries > 0)
  /\ phase' = "idle"
  /\ sub' = "none"
  /\ UNCHANGED <<retries, tcmd, tdat, walk, timer, fins, slots, step, sta, chip, ghost>>

---------------------------------------------------------------------------
(* sdhc_isr, part by part.  After a part that reports an event the next    *)
(* one begins when sslsd_evt has returned.                                 *)

Part(from, to) == step = from /\ sub = "none" /\ step' = to

\* t->evt for the command that left slot cmd or dat.
Evt == sub' = "done"

sdhc_isr ==
  /\ ~Running /\ irq # {}
  /\ irq' = {}
  /\ sta' = IF CARD \notin irq /\ fins THEN irq ELSE {}
  /\ step' = IF CARD \in irq THEN "card" ELSE IF fins THEN "rsp" ELSE "none"
  /\ UNCHANGED <<issuer, tcmd, tdat, walk, timer, fins, slots, sub, line, hw, present, ghost>>

\* Mutant: the slots are not emptied.
IsrCardKeepsSlots ==
  /\ Part("card", IF cmd /\ dat THEN "card2" ELSE "none")
  /\ rt' = IF cmd \/ dat THEN "err" ELSE rt
  /\ line' = "idle"
  /\ fins' = present
  /\ IF cmd \/ dat THEN Evt ELSE UNCHANGED sub
  /\ UNCHANGED <<issuer, kind, arg, tdat, walk, timer, slots, sta, hw, irq, present, ghost>>

\* Insertion or removal: both slots are emptied, the lines reset.
IsrCard ==
  /\ Part("card", IF cmd /\ dat THEN "card2" ELSE "none")
  /\ cmd' = FALSE /\ dat' = FALSE
  /\ rt' = IF cmd \/ dat THEN "err" ELSE rt
  /\ line' = "idle"
  /\ fins' = present
  /\ IF cmd \/ dat THEN Evt ELSE UNCHANGED sub
  /\ UNCHANGED <<issuer, kind, arg, tdat, walk, timer, sta, hw, irq, present, ghost>>

IsrCardSecond ==
  /\ Part("card2", "none")
  /\ Evt
  /\ UNCHANGED <<issuer, tcmd, tdat, walk, timer, fins, slots, sta, chip, ghost>>

ResetCmd == IF line \in {"cmd", "abort"} THEN "idle" ELSE line
ResetDat == IF line \in {"data", "busy"} THEN "idle" ELSE line

\* A response error of a data command is followed by sdhc_abort.
IsrRsp ==
  LET abort == cmd /\ rt = "ok" /\ kind = "data"
  IN
  /\ Part("rsp", IF RSP_ERR \in sta /\ abort THEN "none" ELSE "daterr")
  /\ IF RSP_ERR \in sta
     THEN /\ sta' = IF abort THEN {} ELSE sta \ {CMD}
          /\ line' = IF abort THEN "abort" ELSE ResetCmd
          /\ cmd' = abort
          /\ dat' = (dat /\ (cmd \/ rt = "ok"))
          /\ rt' = IF cmd THEN "err" ELSE rt
          /\ IF ~abort /\ (cmd \/ (dat /\ rt = "err")) THEN Evt ELSE UNCHANGED sub
          /\ missed' = (missed \/ (~cmd /\ dat /\ rt = "ok"))
     ELSE UNCHANGED <<sta, line, slots, rt, sub, missed>>
  /\ UNCHANGED <<issuer, kind, arg, tdat, walk, timer, fins, hw, irq, present, first, mem>>

\* The blocks that reached memory count; sdhc_dmawait waits for them.
IsrDatErr ==
  /\ Part("daterr", "a12")
  /\ IF DAT_ERR \in sta
     THEN IF dat
          THEN /\ sta' = sta \ {DAT}
               /\ rt' = "err" /\ actual' = hw.moved
               /\ line' = "idle"
               /\ dat' = FALSE /\ cmd' = cmd
               /\ Evt
               /\ UNCHANGED missed
          ELSE /\ line' = ResetDat
               /\ cmd' = (cmd /\ rt = "ok")
               /\ IF cmd /\ rt = "err" THEN Evt ELSE UNCHANGED sub
               /\ missed' = (missed \/ (cmd /\ rt = "ok"))
               /\ UNCHANGED <<sta, rt, actual, dat>>
     ELSE UNCHANGED <<sta, rt, actual, line, slots, sub, missed>>
  /\ UNCHANGED <<issuer, kind, arg, count, walk, timer, fins, hw, irq, present, first, mem>>

\* The automatic stop command failed: sdhc_abort sends another, for a command in dat.
IsrA12 ==
  LET abort == A12 \in sta /\ dat /\ rt = "ok"
  IN
  /\ Part("a12", IF abort THEN "none" ELSE "cmd")
  /\ rt' = IF abort THEN "err" ELSE rt
  /\ line' = IF abort THEN "abort" ELSE line
  /\ sta' = IF abort THEN {} ELSE sta
  /\ missed' = (missed \/ (A12 \in sta /\ cmd /\ ~dat /\ rt = "ok"))
  /\ UNCHANGED <<issuer, kind, arg, tdat, walk, timer, fins, slots, sub, hw, irq, present,
                 first, mem>>

\* Mutant: a command whose data is awaited keeps its first slot.
IsrCmdKeepsCmd ==
  LET data == cmd /\ rt = "ok" /\ kind = "data"
  IN
  /\ Part("cmd", "dat")
  /\ IF CMD \in sta
     THEN /\ cmd' = data
          /\ dat' = IF cmd THEN dat \/ data ELSE dat /\ rt = "ok"
          /\ IF (cmd /\ ~data) \/ (~cmd /\ dat /\ rt = "err") THEN Evt ELSE UNCHANGED sub
     ELSE UNCHANGED <<slots, sub>>
  /\ UNCHANGED <<issuer, tcmd, tdat, walk, timer, fins, sta, chip, ghost>>

\* The response: a command with data moves to the other slot, the others are over.
\* After an abort the response is that of the stop command.
IsrCmd ==
  LET data == cmd /\ rt = "ok" /\ kind = "data"
  IN
  /\ Part("cmd", "dat")
  /\ IF CMD \in sta
     THEN /\ cmd' = FALSE
          /\ dat' = IF cmd THEN dat \/ data ELSE dat /\ rt = "ok"
          /\ IF (cmd /\ ~data) \/ (~cmd /\ dat /\ rt = "err") THEN Evt ELSE UNCHANGED sub
     ELSE UNCHANGED <<slots, sub>>
  /\ UNCHANGED <<issuer, tcmd, tdat, walk, timer, fins, sta, chip, ghost>>

\* Mutant: the slot is read before the response has put the command there.
IsrDatReadsEarly ==
  /\ Part("dat", "none")
  /\ IF DAT \in sta /\ dat /\ CMD \notin sta
     THEN /\ dat' = FALSE
          /\ actual' = hw.moved
          /\ IF kind = "data" THEN Evt ELSE sub' = "stray"
     ELSE UNCHANGED <<dat, actual, sub>>
  /\ sta' = {}
  /\ UNCHANGED <<issuer, tcmd, count, walk, timer, fins, cmd, chip, ghost>>

\* sdhc_dmawait again: all blocks, or those there are when DMA stands still.
\* A command without data has no sd_dat to count them in.
IsrDat ==
  /\ Part("dat", "none")
  /\ IF DAT \in sta /\ dat
     THEN /\ dat' = FALSE
          /\ actual' = hw.moved
          /\ IF kind = "data" THEN Evt ELSE sub' = "stray"
     ELSE UNCHANGED <<dat, actual, sub>>
  /\ sta' = {}
  /\ UNCHANGED <<issuer, tcmd, count, walk, timer, fins, cmd, chip, ghost>>

---------------------------------------------------------------------------
(* More than a second.                                                     *)

\* mmc_wait_for_req returns without the completion.
GiveUp ==
  /\ phase = "pending" /\ ~Running
  /\ phase' = "idle"
  /\ UNCHANGED <<retries, tcmd, tdat, walk, timer, fins, slots, code, chip, ghost>>

\* sslsd_tout and sdhc_flush, a second later.
sdhc_flush ==
  /\ timer /\ phase # "pending" /\ ~Running
  /\ timer' = FALSE
  /\ line' = "idle"
  /\ dat' = FALSE
  /\ IF dat THEN rt' = "err" /\ Evt ELSE UNCHANGED <<rt, sub>>
  /\ step' = "flush"
  /\ UNCHANGED <<issuer, kind, arg, tdat, walk, fins, cmd, sta, hw, irq, present, ghost>>

FlushCmd ==
  /\ Part("flush", "none")
  /\ cmd' = FALSE
  /\ IF cmd THEN rt' = "err" /\ Evt ELSE UNCHANGED <<rt, sub>>
  /\ UNCHANGED <<issuer, kind, arg, tdat, walk, timer, fins, dat, sta, chip, ghost>>

---------------------------------------------------------------------------
(* The controller and the card.                                            *)

driver == <<issuer, tcmd, tdat, walk, timer, fins, slots, code>>

HwResponds ==
  /\ line = "cmd" /\ present
  /\ irq' = irq \cup {CMD}
  /\ line' = CASE hw.kind = "data" -> "data" [] hw.kind = "busy" -> "busy" [] OTHER -> "idle"
  /\ UNCHANGED <<driver, hw, present, ghost>>

\* The stop command is followed by the card's busy signal.
HwAborts ==
  /\ line = "abort" /\ present
  /\ irq' = irq \cup {CMD}
  /\ line' = "busy"
  /\ UNCHANGED <<driver, hw, present, ghost>>

HwFails ==
  /\ line \in {"cmd", "abort"}
  /\ irq' = irq \cup {RSP_ERR}
  /\ line' = "idle"
  /\ UNCHANGED <<driver, hw, present, ghost>>

HwMoves ==
  /\ line = "data" /\ hw.moved < hw.count
  /\ hw' = [hw EXCEPT !.moved = @ + 1]
  /\ mem' = IF hw.mem = -1 THEN mem
            ELSE mem \cup {<<hw.mem + hw.moved, hw.arg + hw.moved>>}
  /\ UNCHANGED <<driver, line, irq, present, first, missed>>

\* The last block, with the automatic stop command or without.
HwCompletes ==
  /\ line = "data" /\ hw.moved = hw.count
  /\ irq' = irq \cup {DAT}
  /\ line' = "idle"
  /\ UNCHANGED <<driver, hw, present, ghost>>

HwStopFails ==
  /\ line = "data" /\ hw.moved = hw.count /\ pages[Len(pages)] > 1
  /\ irq' = irq \cup {A12}
  /\ line' = "idle"
  /\ UNCHANGED <<driver, hw, present, ghost>>

HwDataFails ==
  /\ line = "data" /\ hw.moved < hw.count
  /\ irq' = irq \cup {DAT_ERR}
  /\ line' = "idle"
  /\ UNCHANGED <<driver, hw, present, ghost>>

HwBusyEnds ==
  /\ line = "busy"
  /\ irq' = irq \cup {DAT}
  /\ line' = "idle"
  /\ UNCHANGED <<driver, hw, present, ghost>>

HwStalls ==
  /\ line \notin {"idle", "dead"}
  /\ line' = "dead"
  /\ UNCHANGED <<driver, hw, irq, present, ghost>>

CardChanges ==
  /\ CARD \notin irq
  /\ present' = ~present
  /\ irq' = irq \cup {CARD}
  /\ UNCHANGED <<driver, line, hw, ghost>>

---------------------------------------------------------------------------

Request == \/ RequestRefused
           \/ \E k \in {"plain", "busy"}, r \in 0 .. MaxRetries : RequestPlain(k, r)
           \/ \E p \in PageLists : RequestData(p)
           \/ Submit
Driver  == \/ sdhc_cmd \/ sdhc_cmd_refused
           \/ CmdDoneNext \/ CmdDoneLast \/ Retry \/ mmc_request_done
           \/ sdhc_isr \/ IsrCard
           \/ IsrRsp \/ IsrDatErr \/ IsrA12 \/ IsrCmd \/ IsrDat
Hw      == \/ HwResponds \/ HwAborts \/ HwFails \/ HwMoves \/ HwCompletes
           \/ HwStopFails \/ HwDataFails \/ HwBusyEnds

(***************************************************************************)
(* Every command is answered, well or not, within the second that          *)
(* mmc_wait_for_req waits.                                                 *)
(***************************************************************************)
Prompt == Request \/ Driver \/ Hw \/ CardChanges

\* What else happens when it is not.
Slow == \/ HwStalls \/ GiveUp \/ sdhc_flush \/ FlushCmd
        \/ IsrCardSecond \/ CmdDoneStray

Next == Prompt \/ Slow

PromptSpec == Init /\ [][Prompt]_vars

(***************************************************************************)
(* The task that submits runs, the code that runs with interrupts off      *)
(* comes to an end, and the controller goes on.                            *)
(***************************************************************************)
FairSpec == PromptSpec /\ SF_vars(Submit) /\ WF_vars(Driver) /\ WF_vars(Hw)

Spec == Init /\ [][Next]_vars

---------------------------------------------------------------------------

\* Types; in particular no retry is taken that the core did not grant, and the
\* blocks left of a page are never less than none.
TypeOK ==
  /\ phase \in {"idle", "setup", "pending"}
  /\ retries \in 0 .. MaxRetries
  /\ kind \in {"plain", "busy", "data"} /\ rt \in {"ok", "err"}
  /\ arg \in Nat /\ count \in Nat /\ actual \in Nat
  /\ sg \in Nat \ {0} /\ sgofs \in Nat /\ retry \in BOOLEAN /\ xfered \in Nat
  /\ pages \in PageLists \cup {<<>>}
  /\ timer \in BOOLEAN /\ fins \in BOOLEAN /\ cmd \in BOOLEAN /\ dat \in BOOLEAN
  /\ step \in {"none", "card", "card2", "rsp", "daterr", "a12", "cmd", "dat", "flush"}
  /\ sub \in {"none", "submit", "next", "done", "finish", "stray"}
  /\ sta \subseteq Bits /\ irq \subseteq Bits /\ present \in BOOLEAN
  /\ line \in {"idle", "cmd", "data", "busy", "abort", "dead"}
  /\ hw \in [kind : {"plain", "busy", "data"}, arg : Nat, mem : Nat \cup {-1},
            count : Nat, moved : Nat]
  /\ first \in {"none", "accepted", "refused"}
  /\ mem \subseteq Nat \X Nat /\ missed \in BOOLEAN

(***************************************************************************)
(* Every block that bytes_xfered counts has been moved, between the card's *)
(* block and the place in the scatter list that belong together, however   *)
(* the transfer was cut into commands by pages, errors and retries         *)
(* (sslsd_cmd_done, sslsd_map).  A request whose first command sdhc_cmd    *)
(* refuses is left out: tdat.actual is then that of an earlier transfer.   *)
(***************************************************************************)
Placed ==
  /\ \A i \in 0 .. xfered - 1 : <<i, i>> \in mem
  /\ \A m \in mem : m[1] = m[2]

PlacedIfAccepted == first = "refused" \/ Placed

(***************************************************************************)
(* The request in progress is in exactly one of the two slots whenever the *)
(* driver waits, so that the next interrupt finds it, and a request that   *)
(* is over is in none (t->cmd and t->dat of sdhc.c).                       *)
(***************************************************************************)
OneSlot ==
  /\ ~(cmd /\ dat)
  /\ phase # "pending" => ~cmd /\ ~dat
  /\ phase = "pending" /\ ~Running => cmd \/ dat

(***************************************************************************)
(* sslsd_cmd_done completes the request that is in progress: never one     *)
(* that mmc_wait_for_req has returned from, whose mmc_request was on the   *)
(* caller's stack, and never one that is being prepared in tcmd.           *)
(***************************************************************************)
NoStray == sub # "stray" /\ (sub = "done" => phase = "pending")

\* What a dropped error leads to: the command is in the slot dat as if its data were
\* still to come, and the controller has nothing more to report.
ErrorDropped ==
  /\ missed /\ dat /\ rt = "ok"
  /\ phase = "pending" /\ ~Running /\ irq = {} /\ line = "idle"

(***************************************************************************)
(* A request ends: errors, aborts and stale interrupts never leave the     *)
(* driver waiting for an interrupt that will not come.  The one exception  *)
(* is an error for which the handler looks in the wrong slot: an error of  *)
(* the data or of the automatic stop command that one interrupt reports    *)
(* together with the response (sdhc.c 1008-1032, before 1119), or a        *)
(* response error after the response to a cancelled command was taken for  *)
(* this one's (932-944).                                                   *)
(***************************************************************************)
RequestEnds == phase # "idle" ~> (phase = "idle" \/ ErrorDropped)
=============================================================================
