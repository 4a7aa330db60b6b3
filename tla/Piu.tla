-------------------------------- MODULE Piu --------------------------------
(***************************************************************************)
(* The mailbox between the ARM and the DSP (BSP/oss/piu): the kernel       *)
(* driver piuk.c, the register layer piu.c and the library api/piulib.c.   *)
(*                                                                         *)
(* Slot 0 carries the ARM's messages.  A sender takes a semaphore, starts  *)
(* a timer of one second, fills a buffer that all messages share and rings *)
(* COM0; the semaphore is given back by the interrupt of the DSP's answer  *)
(* or by the timer.  Slot 1 carries the DSP's blocking messages and slot 2 *)
(* its non-blocking ones; the interrupt handler masks the slot, remembers  *)
(* which of the two came first and signals the library, whose thread then  *)
(* fetches one message per signal.                                         *)
(*                                                                         *)
(* The kernel is preemptible on one processor.  ioctl calls exclude one    *)
(* another (the big kernel lock), the kernel's own senders are outside     *)
(* that lock, a timer interrupts every task, and the interrupt handler     *)
(* interrupts everything.  The interrupt mask is read and written back in  *)
(* two steps that no lock protects.                                        *)
(***************************************************************************)
EXTENDS Naturals, FiniteSets, Sequences

CONSTANTS
  Apps,          \* tasks that send with ioctl PIU_IOCTL_TX
  KThreads,      \* kernel threads that call piu_tx (the codec's thread)
  NoSender,
  LateAnswers,   \* the DSP may serve a message whose second has passed
  EnableRace,    \* the second of an answered message may end between the
                 \* CLR_STATUS and the ENA of piulib_enable, with the answer masked
  BlockKinds,    \* the DSP's blocking messages: "user", "audio"
  NonblockKinds, \* its non-blocking ones: "user", "pcm"
  MaxSignals     \* bound on the signals that wait for the library's thread

Senders == Apps \cup KThreads

ASSUME PiuAssumption ==
  /\ Apps \cap KThreads = {}
  /\ NoSender \notin Senders
  /\ LateAnswers \in BOOLEAN /\ EnableRace \in BOOLEAN
  /\ BlockKinds \subseteq {"user", "audio"}
  /\ NonblockKinds \subseteq {"user", "pcm"}
  /\ MaxSignals \in Nat

VARIABLES
  \* the sending side
  mutex,          \* piu_dev.mutex, a counting semaphore
  timer,          \* piu_dev.timer is pending
  pc,             \* where each sender is in piu_tx
  txbuf,          \* whose message, still to be read, the shared buffer holds
  awaited,        \* whose message is neither answered nor given up
  \* the PIU's registers
  com0,           \* the message the DSP has not yet seen
  dspTx,          \* the message the DSP is serving
  rep0,           \* the message whose answer the handler has not yet seen
  stat, mask,     \* interrupt status and interrupt mask
  dspRx,          \* the kind of the DSP's unanswered blocking message
  rep2,           \* the kind of its last unseen non-blocking message
  \* the receiving side
  raise_block, raise_nonblock, block_first,
  arrived,        \* the slots that wait to be fetched, oldest message first
  signals,        \* signals queued for the library's thread
  rpc,            \* where the library's thread is
  lib,            \* where the application is in piulib_enable/piulib_disable
  rmw             \* interrupt masks read and not yet written back

txVars   == <<mutex, timer, pc, txbuf, awaited>>
dspVars  == <<com0, dspTx, rep0, dspRx, rep2>>
flagVars == <<raise_block, raise_nonblock, block_first, arrived>>
rxVars   == <<flagVars, signals, rpc>>
vars == <<txVars, dspVars, stat, mask, rxVars, lib, rmw>>

ACK_IN          == "ACK_IN"
MSG_IN          == "MSG_IN"
NONBLOCK_MSG_IN == "NONBLOCK_MSG_IN"
HINTS == {ACK_IN, MSG_IN, NONBLOCK_MSG_IN}

\* The steps of piu_tx once the semaphore is taken.
Inside == {"arm", "fill", "ring"}
Actors == {"timer", "reader", "lib"}
LibStates == {"on", "disw", "nbdis", "nbdisw", "clr",
              "off", "ena", "enaw", "nbena", "nbenaw", "flag"}

\* piu_status_flag of the library.
LibOn == lib \in {"on", "disw", "nbdis", "nbdisw", "clr"}

\* An ioctl is in progress (one that sleeps on the semaphore is not).
InIoctl ==
  \/ rpc \in {"blk", "nb", "enablk", "enanb"}
  \/ lib \in {"disw", "nbdisw", "enaw", "nbenaw"}
  \/ \E a \in Apps : pc[a] \in Inside

\* The timer's function runs: tasks do not.
InTimer == rmw["timer"] # {"none"}

Init ==
  /\ mutex = 1 /\ timer = FALSE
  /\ pc = [s \in Senders |-> "idle"]
  /\ txbuf = NoSender /\ awaited = NoSender
  /\ com0 = NoSender /\ dspTx = NoSender /\ rep0 = NoSender
  /\ stat = {} /\ mask = HINTS
  /\ dspRx = "none" /\ rep2 = "none"
  /\ raise_block = FALSE /\ raise_nonblock = FALSE /\ block_first = FALSE
  /\ arrived = <<>> /\ signals = 0
  /\ rpc = "idle" /\ lib = "on"
  /\ rmw = [a \in Actors |-> {"none"}]

---------------------------------------------------------------------------
(* Reading and writing back the interrupt mask.                            *)

ReadMask(a) == rmw' = [rmw EXCEPT ![a] = mask]

piu_int_ena(a, bits) ==
  /\ mask' = rmw[a] \cup bits
  /\ rmw' = [rmw EXCEPT ![a] = {"none"}]

piu_int_dis(a, bits) ==
  /\ mask' = rmw[a] \ bits
  /\ rmw' = [rmw EXCEPT ![a] = {"none"}]

---------------------------------------------------------------------------
(* piu_tx.                                                                 *)

Step(s, from, to) ==
  /\ ~InTimer
  /\ pc[s] = from
  /\ pc' = [pc EXCEPT ![s] = to]

\* The library drops the messages of a disabled mailbox.
TxCall(s) ==
  /\ Step(s, "idle", "down")
  /\ s \in Apps => LibOn
  /\ UNCHANGED <<mutex, timer, txbuf, awaited, dspVars, stat, mask, rxVars, lib, rmw>>

TxDown_NoWait(s) ==
  /\ Step(s, "down", "arm")
  /\ s \in Apps => ~InIoctl
  /\ mutex' = mutex - 1
  /\ UNCHANGED <<timer, txbuf, awaited, dspVars, stat, mask, rxVars, lib, rmw>>

TxDown_NotTaken(s) ==
  /\ Step(s, "down", "arm")
  /\ mutex > 0
  /\ s \in Apps => ~InIoctl
  /\ UNCHANGED <<mutex, timer, txbuf, awaited, dspVars, stat, mask, rxVars, lib, rmw>>

\* down_interruptible; a sleeping ioctl waits for the other ioctls as well.
TxDown(s) ==
  /\ Step(s, "down", "arm")
  /\ mutex > 0
  /\ s \in Apps => ~InIoctl
  /\ mutex' = mutex - 1
  /\ UNCHANGED <<timer, txbuf, awaited, dspVars, stat, mask, rxVars, lib, rmw>>

\* A signal ends the wait for the semaphore.
TxInterrupted(s) ==
  /\ Step(s, "down", "idle")
  /\ UNCHANGED <<mutex, timer, txbuf, awaited, dspVars, stat, mask, rxVars, lib, rmw>>

TxArm_NoTimer(s) ==
  /\ Step(s, "arm", "fill")
  /\ UNCHANGED <<mutex, timer, txbuf, awaited, dspVars, stat, mask, rxVars, lib, rmw>>

TxArm(s) ==
  /\ Step(s, "arm", "fill")
  /\ timer' = TRUE
  /\ UNCHANGED <<mutex, txbuf, awaited, dspVars, stat, mask, rxVars, lib, rmw>>

TxFill_RingsFirst(s) ==
  /\ Step(s, "fill", "ring")
  /\ com0' = s
  /\ UNCHANGED <<mutex, timer, txbuf, awaited, dspTx, rep0, dspRx, rep2, stat, mask, rxVars, lib, rmw>>

TxFill(s) ==
  /\ Step(s, "fill", "ring")
  /\ txbuf' = s
  /\ UNCHANGED <<mutex, timer, awaited, dspVars, stat, mask, rxVars, lib, rmw>>

TxRing(s) ==
  /\ Step(s, "ring", "idle")
  /\ com0' = s
  /\ awaited' = s
  /\ UNCHANGED <<mutex, timer, txbuf, dspTx, rep0, dspRx, rep2, stat, mask, rxVars, lib, rmw>>

(* piu_release_tx.  piu_clr_stat(PIU_MSG_OUT) clears nothing: piu_clr_status *)
(* keeps to the six host bits and PIU_MSG_OUT is the seventh.  A second is   *)
(* enough for a sender that started the timer to ring.  Without late answers *)
(* a message is answered within its second or never seen; the interrupt of   *)
(* an answer in time comes before the timer unless it is masked.  The        *)
(* answers that piulib_disable masks are cleared before they are unmasked,   *)
(* those that come after the CLR_STATUS of piulib_enable are not.            *)
TimerExpires ==
  /\ timer
  /\ \A s \in Senders : pc[s] \notin {"fill", "ring"}
  /\ LateAnswers \/ (dspTx = NoSender /\ ACK_IN \notin stat \cap mask)
  /\ LateAnswers \/ EnableRace \/ ACK_IN \notin stat \/ lib \notin {"ena", "enaw"}
  /\ timer' = FALSE
  /\ ReadMask("timer")
  /\ UNCHANGED <<mutex, pc, txbuf, awaited, dspVars, stat, mask, rxVars, lib>>

TimerReleases ==
  /\ InTimer
  /\ piu_int_ena("timer", {MSG_IN})
  /\ mutex' = mutex + 1
  /\ awaited' = NoSender
  /\ IF LateAnswers THEN UNCHANGED <<com0, txbuf>>
                    ELSE com0' = NoSender /\ txbuf' = NoSender
  /\ UNCHANGED <<timer, pc, dspTx, rep0, dspRx, rep2, stat, rxVars, lib>>

AckIn_KeepsTimer ==
  /\ timer' = timer
  /\ mutex' = mutex + 1
  /\ awaited' = IF rep0 = awaited THEN NoSender ELSE awaited
  /\ rep0' = NoSender

\* The answer to the last message: del_timer and up.
AckIn ==
  /\ timer' = FALSE
  /\ mutex' = mutex + 1
  /\ awaited' = IF rep0 = awaited THEN NoSender ELSE awaited
  /\ rep0' = NoSender

---------------------------------------------------------------------------
(* piu_isr and piu_handler: all the enabled bits in one go, slot 0 first.  *)

\* The slots whose message goes to the library: a message for the codec or
\* for the PCM device is handed to a callback instead.
ForLibrary(bits) ==
  {b \in bits : \/ b = MSG_IN /\ dspRx = "user"
                \/ b = NONBLOCK_MSG_IN /\ rep2 = "user"}

\* The queue, at most one entry per slot, without these slots.
Without(queue, bits) ==
  LET kept(i) == IF i <= Len(queue) /\ queue[i] \notin bits THEN <<queue[i]>> ELSE <<>>
  IN kept(1) \o kept(2)

\* A message that finds an older one of its slot has overwritten it.
Arrive(queue, bits) ==
  LET older == Without(queue, bits)
      blk   == IF MSG_IN \in bits THEN <<MSG_IN>> ELSE <<>>
      nb    == IF NONBLOCK_MSG_IN \in bits THEN <<NONBLOCK_MSG_IN>> ELSE <<>>
  IN older \o blk \o nb

\* Which slot to fetch first when both hold a message.
BlockFirst_MissesNonblock(user) ==
  IF MSG_IN \in user THEN ~raise_nonblock ELSE block_first

BlockFirst(user) ==
  IF NONBLOCK_MSG_IN \in user THEN raise_block \/ MSG_IN \in user
  ELSE IF MSG_IN \in user THEN ~raise_nonblock
  ELSE block_first

Isr ==
  LET bits == stat \cap mask
      user == ForLibrary(bits)
  IN
  /\ bits # {}
  /\ stat' = stat \ bits
  /\ IF ACK_IN \in bits THEN AckIn ELSE UNCHANGED <<mutex, timer, awaited, rep0>>
  /\ mask' = mask \ user
  /\ raise_block' = (raise_block \/ MSG_IN \in user)
  /\ raise_nonblock' = (raise_nonblock \/ NONBLOCK_MSG_IN \in user)
  /\ block_first' = BlockFirst(user)
  /\ arrived' = Arrive(arrived, user)
  /\ signals' = signals + Cardinality(user)
  /\ dspRx' = IF MSG_IN \in bits /\ dspRx = "audio" THEN "none" ELSE dspRx
  /\ rep2' = IF NONBLOCK_MSG_IN \in bits THEN "none" ELSE rep2
  /\ UNCHANGED <<pc, txbuf, com0, dspTx, rpc, lib, rmw>>

---------------------------------------------------------------------------
(* The library's thread: piulib_sig, then ioctl PIU_IOCTL_RX (piu_rx).     *)

\* sigwait; the signal is dropped when the mailbox is disabled.
SigWait ==
  /\ ~InTimer /\ rpc = "idle" /\ signals > 0
  /\ signals' = signals - 1
  /\ rpc' = IF LibOn THEN "pick" ELSE "idle"
  /\ UNCHANGED <<txVars, dspVars, stat, mask, flagVars, lib, rmw>>

\* The slot piu_rx serves.
Pick == IF block_first THEN "blk"
        ELSE IF raise_nonblock THEN "nb"
        ELSE IF raise_block THEN "blk"
        ELSE "idle"

SlotOf(p) == IF p \in {"blk", "enablk"} THEN MSG_IN ELSE NONBLOCK_MSG_IN

RxPick ==
  /\ ~InTimer /\ rpc = "pick" /\ ~InIoctl
  /\ rpc' = Pick
  /\ raise_block' = (raise_block /\ Pick # "blk")
  /\ raise_nonblock' = (raise_nonblock /\ Pick # "nb")
  /\ block_first' = (block_first /\ Pick # "blk")
  /\ arrived' = IF Pick = "idle" THEN arrived
                ELSE Without(arrived, {SlotOf(Pick)})
  /\ UNCHANGED <<txVars, dspVars, stat, mask, signals, lib, rmw>>

\* Copies the message and answers it if it is a blocking one.
RxCopy ==
  /\ ~InTimer /\ rpc \in {"blk", "nb"}
  /\ rpc' = IF rpc = "blk" THEN "enablk" ELSE "enanb"
  /\ dspRx' = IF rpc = "blk" THEN "none" ELSE dspRx
  /\ ReadMask("reader")
  /\ UNCHANGED <<txVars, com0, dspTx, rep0, rep2, stat, mask, flagVars, signals, lib>>

RxEnable_Forgets ==
  /\ ~InTimer /\ rpc \in {"enablk", "enanb"}
  /\ rpc' = "idle"
  /\ piu_int_ena("reader", {})
  /\ UNCHANGED <<txVars, dspVars, stat, flagVars, signals, lib>>

RxEnable ==
  /\ ~InTimer /\ rpc \in {"enablk", "enanb"}
  /\ rpc' = "idle"
  /\ piu_int_ena("reader", {SlotOf(rpc)})
  /\ UNCHANGED <<txVars, dspVars, stat, flagVars, signals, lib>>

---------------------------------------------------------------------------
(* piulib_disable: PIU_IOCTL_DIS, PIU_IOCTL_NONBLOCK_DIS, CLR_STATUS, and  *)
(* piulib_enable: CLR_STATUS, PIU_IOCTL_ENA, PIU_IOCTL_NONBLOCK_ENA.       *)

LibStep(from, to) ==
  /\ ~InTimer
  /\ lib = from
  /\ lib' = to

ClearFlags ==
  /\ raise_block' = FALSE /\ raise_nonblock' = FALSE /\ block_first' = FALSE
  /\ arrived' = <<>>

\* DIS masks first and clears the flags afterwards, the others clear first.
LibMaskRead ==
  /\ ~InIoctl
  /\ \/ LibStep("on", "disw") /\ UNCHANGED flagVars
     \/ LibStep("nbdis", "nbdisw") /\ ClearFlags
     \/ LibStep("ena", "enaw") /\ ClearFlags
     \/ LibStep("nbena", "nbenaw") /\ ClearFlags
  /\ ReadMask("lib")
  /\ UNCHANGED <<txVars, dspVars, stat, mask, signals, rpc>>

LibMaskWrite ==
  /\ \/ /\ LibStep("disw", "nbdis")
        /\ piu_int_dis("lib", {MSG_IN, ACK_IN}) /\ ClearFlags
     \/ /\ LibStep("nbdisw", "clr")
        /\ piu_int_dis("lib", {NONBLOCK_MSG_IN}) /\ UNCHANGED flagVars
     \/ /\ LibStep("enaw", "nbena")
        /\ piu_int_ena("lib", {MSG_IN, ACK_IN}) /\ UNCHANGED flagVars
     \/ /\ LibStep("nbenaw", "flag")
        /\ piu_int_ena("lib", {NONBLOCK_MSG_IN}) /\ UNCHANGED flagVars
  /\ UNCHANGED <<txVars, dspVars, stat, signals, rpc>>

LibClearStatus ==
  /\ ~InIoctl
  /\ LibStep("clr", "off") \/ LibStep("off", "ena")
  /\ stat' = {}
  /\ rep0' = NoSender /\ rep2' = "none"
  /\ UNCHANGED <<txVars, com0, dspTx, dspRx, mask, rxVars, rmw>>

LibSetFlag ==
  /\ LibStep("flag", "on")
  /\ UNCHANGED <<txVars, dspVars, stat, mask, rxVars, rmw>>

---------------------------------------------------------------------------
(* The DSP, as the driver's protocol presumes it.                          *)

DspTake ==
  /\ com0 # NoSender /\ dspTx = NoSender
  /\ LateAnswers \/ timer
  /\ dspTx' = com0 /\ com0' = NoSender
  /\ UNCHANGED <<txVars, rep0, dspRx, rep2, stat, mask, rxVars, lib, rmw>>

DspAnswer ==
  /\ dspTx # NoSender
  /\ rep0' = dspTx /\ dspTx' = NoSender
  /\ txbuf' = NoSender
  /\ stat' = stat \cup {ACK_IN}
  /\ UNCHANGED <<mutex, timer, pc, awaited, com0, dspRx, rep2, mask, rxVars, lib, rmw>>

\* A blocking message waits for the answer to the one before it.
DspSend(kind) ==
  /\ dspRx = "none"
  /\ dspRx' = kind
  /\ stat' = stat \cup {MSG_IN}
  /\ UNCHANGED <<txVars, com0, dspTx, rep0, rep2, mask, rxVars, lib, rmw>>

DspSendNonblock(kind) ==
  /\ signals < MaxSignals
  /\ rep2' = kind
  /\ stat' = stat \cup {NONBLOCK_MSG_IN}
  /\ UNCHANGED <<txVars, com0, dspTx, rep0, dspRx, mask, rxVars, lib, rmw>>

---------------------------------------------------------------------------

Tx(s) == TxCall(s) \/ TxDown(s) \/ TxInterrupted(s) \/ TxArm(s) \/ TxFill(s) \/ TxRing(s)
Rx    == SigWait \/ RxPick \/ RxCopy \/ RxEnable
Lib   == LibMaskRead \/ LibMaskWrite \/ LibClearStatus \/ LibSetFlag
Dsp   == \/ DspTake \/ DspAnswer
         \/ \E k \in BlockKinds : DspSend(k)
         \/ \E k \in NonblockKinds : DspSendNonblock(k)

Next ==
  \/ \E s \in Senders : Tx(s)
  \/ TimerExpires \/ TimerReleases
  \/ Isr
  \/ Rx
  \/ Lib
  \/ Dsp

Spec == Init /\ [][Next]_vars

(***************************************************************************)
(* Interrupts are taken and time passes.  Tasks that can run do, however   *)
(* often the timer interrupts them; those that wait for the big kernel     *)
(* lock are queued.  A call of piulib_enable or piulib_disable ends.  The  *)
(* DSP answers what it has taken; nothing obliges it to take a message,    *)
(* anyone to send one, or the semaphore to let a given sender in.          *)
(***************************************************************************)
Fairness ==
  /\ WF_vars(Isr) /\ WF_vars(TimerExpires) /\ WF_vars(TimerReleases)
  /\ WF_vars(DspAnswer)
  /\ \A s \in Senders : SF_vars(TxArm(s) \/ TxFill(s) \/ TxRing(s))
  /\ SF_vars(Rx)
  /\ SF_vars(Lib /\ lib \notin {"on", "off"})

FairSpec == Spec /\ Fairness

---------------------------------------------------------------------------
(* Properties.                                                             *)

TypeOK ==
  /\ mutex \in Nat /\ timer \in BOOLEAN
  /\ pc \in [Senders -> {"idle", "down"} \cup Inside]
  /\ txbuf \in Senders \cup {NoSender} /\ awaited \in Senders \cup {NoSender}
  /\ com0 \in Senders \cup {NoSender} /\ dspTx \in Senders \cup {NoSender}
  /\ rep0 \in Senders \cup {NoSender}
  /\ stat \subseteq HINTS /\ mask \subseteq HINTS
  /\ dspRx \in BlockKinds \cup {"none"} /\ rep2 \in NonblockKinds \cup {"none"}
  /\ raise_block \in BOOLEAN /\ raise_nonblock \in BOOLEAN /\ block_first \in BOOLEAN
  /\ arrived \in Seq({MSG_IN, NONBLOCK_MSG_IN}) /\ signals \in Nat
  /\ rpc \in {"idle", "pick", "blk", "nb", "enablk", "enanb"}
  /\ lib \in LibStates
  /\ rmw \in [Actors -> (SUBSET HINTS) \cup {{"none"}}]

(***************************************************************************)
(* While one message is being written or awaits its answer, no other call  *)
(* of piu_tx is past the semaphore (readme 2.2): the interrupt of the      *)
(* answer and the timer together give back what was taken, once.           *)
(***************************************************************************)
TxOneAtATime ==
  /\ \A s, t \in Senders : pc[s] \in Inside /\ pc[t] \in Inside => s = t
  /\ awaited # NoSender => \A s \in Senders : pc[s] \notin Inside

(***************************************************************************)
(* The DSP never serves a message out of a buffer that holds another one   *)
(* (piuk.c 213-220, readme 2.7).                                           *)
(***************************************************************************)
TxIntact == dspTx # NoSender => txbuf = dspTx

(***************************************************************************)
(* A semaphore at zero always has someone who will raise it: the timer is  *)
(* pending, its function runs, or a sender is about to start it.  The      *)
(* answer's interrupt deletes the timer even when it belongs to a later    *)
(* message, and a lost answer must still not block the channel for good.   *)
(***************************************************************************)
TxNeverStuck ==
  mutex = 0 => timer \/ InTimer \/ \E s \in Senders : pc[s] = "arm"

(***************************************************************************)
(* piu_rx fetches the messages of the two receiving slots in the order in  *)
(* which they came, whatever interrupt arrives between two fetches         *)
(* (block_first, piuk.c 130-136).                                          *)
(***************************************************************************)
RxOrder ==
  Pick = IF arrived = <<>> THEN "idle"
         ELSE IF Head(arrived) = MSG_IN THEN "blk" ELSE "nb"

(***************************************************************************)
(* As long as the library stays enabled every blocking message of the DSP  *)
(* is answered: no interleaving of the interrupt, the fetches and the      *)
(* timer leaves the slot masked or a message without its signal.           *)
(***************************************************************************)
RxAnswered == [](lib = "on") => (dspRx # "none" ~> dspRx = "none")

\* The message that owns the channel of readme 2.2.
Holder == IF \E s \in Senders : pc[s] \in Inside
          THEN CHOOSE s \in Senders : pc[s] \in Inside
          ELSE awaited

Channel == INSTANCE TxChannel WITH holder <- Holder

(***************************************************************************)
(* The semaphore, the timer and the interrupt of the answer implement the  *)
(* channel: owners follow one another and each of them lets go.            *)
(***************************************************************************)
ImplementsChannel == Channel!Spec
============================================================================
