----------------------------- MODULE PiuProofs -----------------------------
(***************************************************************************)
(* Proofs about Piu, for any number of senders and all kinds of messages.  *)
(*                                                                         *)
(* The order of the receiving slots (Order) and the promise that a blocked *)
(* channel is opened again hold whether or not the DSP is in time.  That   *)
(* the channel has one owner needs an answer in time (LateAnswers =        *)
(* FALSE) that is not masked by piulib_enable when its second ends         *)
(* (EnableRace = FALSE).  The argument: whoever lowered the semaphore is   *)
(* inside piu_tx or awaits an answer with the timer running (Sem); an      *)
(* interrupt that would raise it is that answer (Answer), since in each    *)
(* state of the library the interrupt mask and all copies of it agree      *)
(* whether the answer is masked (Masks), and piulib_disable clears the     *)
(* answers that it masks.                                                  *)
(***************************************************************************)
EXTENDS Piu, FiniteSetTheorems, TLAPS

\* What the flags of piu_rx say about the messages that wait.
Order ==
  \/ arrived = <<>> /\ ~raise_block /\ ~raise_nonblock /\ ~block_first
  \/ arrived = <<MSG_IN>> /\ raise_block /\ ~raise_nonblock
  \/ arrived = <<NONBLOCK_MSG_IN>> /\ ~raise_block /\ raise_nonblock /\ ~block_first
  \/ arrived = <<MSG_IN, NONBLOCK_MSG_IN>> /\ raise_block /\ raise_nonblock /\ block_first
  \/ arrived = <<NONBLOCK_MSG_IN, MSG_IN>> /\ raise_block /\ raise_nonblock /\ ~block_first

\* The mask writers that ioctl calls exclude, and the states of the library in which
\* the interrupt of the answer is disabled in the mask and in every copy of it: those
\* whose pending answers will be cleared, and two of piulib_enable.
Writing == {"disw", "nbdisw", "enaw", "nbenaw"}
Cleared == {"nbdis", "nbdisw", "clr", "off"}
Masks ==
  /\ rpc \in {"blk", "nb", "enablk", "enanb"} => lib \notin Writing
  /\ rmw["reader"] # {"none"} <=> rpc \in {"enablk", "enanb"}
  /\ rmw["lib"] # {"none"} <=> lib \in Writing
  /\ lib \in Cleared \cup {"ena", "enaw"} =>
       ACK_IN \notin mask /\ \A a \in Actors : ACK_IN \notin rmw[a]
  /\ lib \notin Cleared \cup {"ena", "enaw"} =>
       ACK_IN \in mask /\ \A a \in Actors : rmw[a] = {"none"} \/ ACK_IN \in rmw[a]

\* Who has the semaphore.
Sem ==
  /\ mutex \in {0, 1}
  /\ \A s, t \in Senders : pc[s] \in Inside /\ pc[t] \in Inside => s = t
  /\ \A s \in Senders : pc[s] \in Inside =>
       mutex = 0 /\ awaited = NoSender /\ ~InTimer /\ (timer <=> pc[s] # "arm")
  /\ awaited # NoSender => mutex = 0 /\ (timer \/ InTimer)
  /\ mutex = 1 => ~timer
  /\ timer => awaited # NoSender \/ \E s \in Senders : pc[s] \in {"fill", "ring"}
  /\ InTimer => awaited # NoSender /\ ~timer /\ dspTx = NoSender

\* Where the message that is awaited may be, and that no other is.
Answer ==
  /\ ACK_IN \in stat /\ lib \notin Cleared =>
       awaited # NoSender /\ timer /\ rep0 = awaited /\ dspTx = NoSender /\ com0 = NoSender
  /\ com0 # NoSender => com0 = awaited /\ txbuf = com0
  /\ dspTx # NoSender => dspTx = awaited /\ timer /\ com0 = NoSender /\ txbuf = dspTx
  /\ \A s \in Senders : pc[s] = "ring" => txbuf = s

---------------------------------------------------------------------------
(* The slots that wait to be fetched.                                      *)

USE DEF txVars, dspVars, flagVars, rxVars, ACK_IN, MSG_IN, NONBLOCK_MSG_IN

\* Two slots in a row.
LEMMA Pair ==
  ASSUME NEW S, NEW x \in S, NEW y \in S
  PROVE  <<x>> \o <<y>> = <<x, y>>
<1> DEFINE s == <<x>> \o <<y>>
<1>1. s \in Seq(S) /\ Len(s) = 2 /\ s[1] = x /\ s[2] = y
  OBVIOUS
<1> HIDE DEF s
<1>2. s = <<s[1], s[2]>>
  BY <1>1
<1>3. s = <<x, y>>
  BY <1>1, <1>2
<1> QED BY <1>3 DEF s

\* The queue's parts put together.
LEMMA Joined ==
  /\ <<>> \o <<>> = <<>>
  /\ \A x \in HINTS : <<x>> \o <<>> = <<x>> /\ <<>> \o <<x>> = <<x>>
  /\ \A x, y \in HINTS : <<x, y>> \o <<>> = <<x, y>> /\ <<x>> \o <<y>> = <<x, y>>
<1>1. \A x, y \in HINTS : <<x>> \o <<y>> = <<x, y>>
  BY Pair
<1>2. \A x, y \in HINTS : <<x, y>> \o <<>> = <<x, y>>
  OBVIOUS
<1>3. /\ <<>> \o <<>> = <<>>
      /\ \A x \in HINTS : <<x>> \o <<>> = <<x>> /\ <<>> \o <<x>> = <<x>>
  OBVIOUS
<1> QED BY <1>1, <1>2, <1>3

\* One or both slots leave the queue.
LEMMA WithoutFacts ==
  ASSUME NEW bits
  PROVE  /\ Without(<<>>, bits) = <<>>
         /\ \A x \in HINTS : Without(<<x>>, bits) = IF x \in bits THEN <<>> ELSE <<x>>
         /\ \A x, y \in HINTS : Without(<<x, y>>, bits) =
              IF x \in bits THEN IF y \in bits THEN <<>> ELSE <<y>>
              ELSE IF y \in bits THEN <<x>> ELSE <<x, y>>
<1>1. Without(<<>>, bits) = <<>>
  BY DEF Without
<1>2. ASSUME NEW x \in HINTS
      PROVE  Without(<<x>>, bits) = IF x \in bits THEN <<>> ELSE <<x>>
  BY DEF Without
<1>3. ASSUME NEW x \in HINTS, NEW y \in HINTS
      PROVE  Without(<<x, y>>, bits) =
               IF x \in bits THEN IF y \in bits THEN <<>> ELSE <<y>>
               ELSE IF y \in bits THEN <<x>> ELSE <<x, y>>
  <2>1. Without(<<x, y>>, bits) =
          (IF x \notin bits THEN <<x>> ELSE <<>>) \o (IF y \notin bits THEN <<y>> ELSE <<>>)
    BY DEF Without
  <2>2. CASE x \in bits /\ y \in bits
    BY <2>1, <2>2
  <2>3. CASE x \in bits /\ y \notin bits
    BY <2>1, <2>3
  <2>4. CASE x \notin bits /\ y \in bits
    BY <2>1, <2>4
  <2>5. CASE x \notin bits /\ y \notin bits
    BY <2>1, <2>5, Joined
  <2> QED BY <2>2, <2>3, <2>4, <2>5
<1> QED BY <1>1, <1>2, <1>3

\* At most two slots are served at once.
LEMMA PairFinite ==
  ASSUME NEW U, U \subseteq {MSG_IN, NONBLOCK_MSG_IN}
  PROVE  Cardinality(U) \in Nat
<1>1. IsFiniteSet({MSG_IN, NONBLOCK_MSG_IN})
  <2>1. IsFiniteSet({MSG_IN})
    BY FS_Singleton
  <2>2. IsFiniteSet({MSG_IN} \cup {NONBLOCK_MSG_IN})
    BY <2>1, FS_AddElement
  <2>3. {MSG_IN} \cup {NONBLOCK_MSG_IN} = {MSG_IN, NONBLOCK_MSG_IN}
    OBVIOUS
  <2> QED BY <2>2, <2>3
<1> QED BY <1>1, FS_Subset, FS_CardinalityType

LEMMA ForLibraryFacts ==
  ASSUME NEW bits
  PROVE  ForLibrary(bits) \subseteq bits \cap {MSG_IN, NONBLOCK_MSG_IN}
BY DEF ForLibrary

\* What the interrupt does to the queue and the flags.
LEMMA OrderIsr ==
  ASSUME Order, Isr
  PROVE  Order'
<1> DEFINE user == ForLibrary(stat \cap mask)
<1>1. user \subseteq {MSG_IN, NONBLOCK_MSG_IN}
  BY ForLibraryFacts
<1>2. /\ raise_block' = (raise_block \/ MSG_IN \in user)
      /\ raise_nonblock' = (raise_nonblock \/ NONBLOCK_MSG_IN \in user)
      /\ block_first' = BlockFirst(user)
      /\ arrived' = Arrive(arrived, user)
  BY DEF Isr
<1> HIDE DEF user
<1>3. CASE MSG_IN \notin user /\ NONBLOCK_MSG_IN \notin user
  <2>1. Without(arrived, user) = arrived
    BY <1>3, WithoutFacts DEF Order, HINTS
  <2>2. arrived' = (Without(arrived, user) \o <<>>) \o <<>>
    BY <1>2, <1>3 DEF Arrive
  <2>3. arrived' = arrived
    BY <2>1, <2>2, Joined DEF Order, HINTS
  <2> QED BY <1>2, <1>3, <2>3 DEF Order, BlockFirst
<1>4. CASE MSG_IN \in user /\ NONBLOCK_MSG_IN \notin user
  <2>1. Without(arrived, user) = IF raise_nonblock THEN <<NONBLOCK_MSG_IN>> ELSE <<>>
    BY <1>4, WithoutFacts DEF Order, HINTS
  <2>2. arrived' = (Without(arrived, user) \o <<MSG_IN>>) \o <<>>
    BY <1>2, <1>4 DEF Arrive
  <2>3. arrived' = IF raise_nonblock THEN <<NONBLOCK_MSG_IN, MSG_IN>> ELSE <<MSG_IN>>
    BY <2>1, <2>2, Joined DEF HINTS
  <2> QED BY <1>2, <1>4, <2>3 DEF Order, BlockFirst
<1>5. CASE MSG_IN \notin user /\ NONBLOCK_MSG_IN \in user
  <2>1. Without(arrived, user) = IF raise_block THEN <<MSG_IN>> ELSE <<>>
    BY <1>5, WithoutFacts DEF Order, HINTS
  <2>2. arrived' = (Without(arrived, user) \o <<>>) \o <<NONBLOCK_MSG_IN>>
    BY <1>2, <1>5 DEF Arrive
  <2>3. arrived' = IF raise_block THEN <<MSG_IN, NONBLOCK_MSG_IN>> ELSE <<NONBLOCK_MSG_IN>>
    BY <2>1, <2>2, Joined DEF HINTS
  <2> QED BY <1>2, <1>5, <2>3 DEF Order, BlockFirst
<1>6. CASE MSG_IN \in user /\ NONBLOCK_MSG_IN \in user
  <2>1. Without(arrived, user) = <<>>
    BY <1>6, WithoutFacts DEF Order, HINTS
  <2>2. arrived' = (Without(arrived, user) \o <<MSG_IN>>) \o <<NONBLOCK_MSG_IN>>
    BY <1>2, <1>6 DEF Arrive
  <2>3. arrived' = <<MSG_IN, NONBLOCK_MSG_IN>>
    BY <2>1, <2>2, Joined DEF HINTS
  <2> QED BY <1>2, <1>6, <2>3 DEF Order, BlockFirst
<1> QED BY <1>3, <1>4, <1>5, <1>6

LEMMA OrderPick ==
  ASSUME Order, RxPick
  PROVE  Order'
<1>1. /\ raise_block' = (raise_block /\ Pick # "blk")
      /\ raise_nonblock' = (raise_nonblock /\ Pick # "nb")
      /\ block_first' = (block_first /\ Pick # "blk")
      /\ arrived' = IF Pick = "idle" THEN arrived
                    ELSE Without(arrived, {SlotOf(Pick)})
  BY DEF RxPick
<1> QED BY <1>1, WithoutFacts DEF Order, Pick, SlotOf, HINTS

\* The steps that touch the flags of piu_rx.
LEMMA FlagSteps ==
  ASSUME [Next]_vars
  PROVE  UNCHANGED flagVars \/ Isr \/ RxPick \/ ClearFlags
BY DEF Next, vars, Tx, TxCall, TxDown, TxInterrupted, TxArm, TxFill, TxRing,
       TimerExpires, TimerReleases, Rx, SigWait, RxCopy, RxEnable,
       Lib, LibMaskRead, LibMaskWrite, LibClearStatus, LibSetFlag,
       Dsp, DspTake, DspAnswer, DspSend, DspSendNonblock

\* The order of the messages survives every step.
LEMMA OrderStep ==
  ASSUME Order, [Next]_vars
  PROVE  Order'
<1>1. UNCHANGED flagVars \/ Isr \/ RxPick \/ ClearFlags
  BY FlagSteps
<1>2. CASE UNCHANGED flagVars
  BY <1>2 DEF Order
<1>3. CASE ClearFlags
  BY <1>3 DEF Order, ClearFlags
<1> QED BY <1>1, <1>2, <1>3, OrderIsr, OrderPick

(***************************************************************************)
(* piu_rx fetches the messages in the order in which they came, for any    *)
(* senders and kinds of messages and any delay of the DSP.                 *)
(***************************************************************************)
THEOREM PiuRxOrder == Spec => []RxOrder
<1>1. Init => Order
  BY DEF Init, Order
<1>2. Order => RxOrder
  BY DEF Order, RxOrder, Pick
<1> QED BY <1>1, <1>2, OrderStep, PTL DEF Spec

---------------------------------------------------------------------------
(* Types.                                                                  *)

\* The type of everything except the flags, the queue and the timer.
Registers ==
  /\ mutex \in Nat
  /\ pc \in [Senders -> {"idle", "down"} \cup Inside]
  /\ txbuf \in Senders \cup {NoSender} /\ awaited \in Senders \cup {NoSender}
  /\ com0 \in Senders \cup {NoSender} /\ dspTx \in Senders \cup {NoSender}
  /\ rep0 \in Senders \cup {NoSender}
  /\ stat \subseteq HINTS /\ mask \subseteq HINTS
  /\ dspRx \in BlockKinds \cup {"none"} /\ rep2 \in NonblockKinds \cup {"none"}
  /\ signals \in Nat
  /\ rpc \in {"idle", "pick", "blk", "nb", "enablk", "enanb"}
  /\ lib \in LibStates
  /\ rmw \in [Actors -> (SUBSET HINTS) \cup {{"none"}}]

Switches ==
  timer \in BOOLEAN /\ raise_block \in BOOLEAN /\ raise_nonblock \in BOOLEAN /\ block_first \in BOOLEAN

LEMMA SwitchesStep ==
  ASSUME Switches, [Next]_vars
  PROVE  Switches'
<1>1. timer' = timer \/ timer' = TRUE \/ timer' = FALSE
  BY DEF Next, vars, AckIn, Tx, TxCall, TxDown, TxInterrupted, TxArm, TxFill, TxRing,
         TimerExpires, TimerReleases, Isr, Rx, SigWait, RxPick, RxCopy, RxEnable,
         Lib, LibMaskRead, LibMaskWrite, LibClearStatus, LibSetFlag,
         Dsp, DspTake, DspAnswer, DspSend, DspSendNonblock
<1>2. \/ UNCHANGED flagVars
      \/ ClearFlags
      \/ raise_block' \in BOOLEAN /\ raise_nonblock' \in BOOLEAN /\ block_first' \in BOOLEAN
  <2>1. Isr => raise_block' \in BOOLEAN /\ raise_nonblock' \in BOOLEAN /\ block_first' \in BOOLEAN
    BY DEF Isr, BlockFirst, Switches
  <2>2. RxPick => raise_block' \in BOOLEAN /\ raise_nonblock' \in BOOLEAN /\ block_first' \in BOOLEAN
    BY DEF RxPick, Switches
  <2>3. UNCHANGED flagVars \/ Isr \/ RxPick \/ ClearFlags
    BY FlagSteps
  <2> QED BY <2>1, <2>2, <2>3
<1> QED BY <1>1, <1>2 DEF Switches, ClearFlags

\* One step per action.
LEMMA RegistersStep ==
  ASSUME Registers, Masks, [Next]_vars
  PROVE  Registers'
<1>1. ASSUME NEW s \in Senders, TxCall(s) PROVE Registers'
  BY <1>1 DEF Registers, TxCall, Step, Inside
<1>2. ASSUME NEW s \in Senders, TxDown(s) PROVE Registers'
  BY <1>2 DEF Registers, TxDown, Step, Inside
<1>3. ASSUME NEW s \in Senders, TxInterrupted(s) PROVE Registers'
  BY <1>3 DEF Registers, TxInterrupted, Step, Inside
<1>4. ASSUME NEW s \in Senders, TxArm(s) PROVE Registers'
  BY <1>4 DEF Registers, TxArm, Step, Inside
<1>5. ASSUME NEW s \in Senders, TxFill(s) PROVE Registers'
  BY <1>5 DEF Registers, TxFill, Step, Inside
<1>6. ASSUME NEW s \in Senders, TxRing(s) PROVE Registers'
  BY <1>6 DEF Registers, TxRing, Step, Inside
<1>7. ASSUME TimerExpires PROVE Registers'
  BY <1>7 DEF Registers, TimerExpires, ReadMask
<1>8. ASSUME TimerReleases PROVE Registers'
  BY <1>8 DEF Registers, Masks, Actors, InTimer, TimerReleases, piu_int_ena, HINTS
<1>9. ASSUME Isr PROVE Registers'
  <2>1. ForLibrary(stat \cap mask) \subseteq {MSG_IN, NONBLOCK_MSG_IN}
    BY ForLibraryFacts
  <2>2. Cardinality(ForLibrary(stat \cap mask)) \in Nat
    BY <2>1, PairFinite
  <2>3. mutex' \in Nat /\ awaited' \in Senders \cup {NoSender} /\ rep0' \in Senders \cup {NoSender}
    BY <1>9 DEF Registers, Isr, AckIn
  <2>4. signals' \in Nat /\ stat' \subseteq HINTS /\ mask' \subseteq HINTS
    BY <1>9, <2>2 DEF Registers, Isr
  <2>5. dspRx' \in BlockKinds \cup {"none"} /\ rep2' \in NonblockKinds \cup {"none"}
    BY <1>9 DEF Registers, Isr
  <2>6. UNCHANGED <<pc, txbuf, com0, dspTx, rpc, lib, rmw>>
    BY <1>9 DEF Isr
  <2> QED BY <2>3, <2>4, <2>5, <2>6 DEF Registers
<1>10. ASSUME SigWait PROVE Registers'
  BY <1>10 DEF Registers, SigWait
<1>11. ASSUME RxPick PROVE Registers'
  BY <1>11 DEF Registers, RxPick, Pick
<1>12. ASSUME RxCopy PROVE Registers'
  BY <1>12 DEF Registers, RxCopy, ReadMask
<1>13. ASSUME RxEnable PROVE Registers'
  BY <1>13 DEF Registers, Masks, Actors, RxEnable, piu_int_ena, SlotOf, HINTS
<1>14. ASSUME LibMaskRead PROVE Registers'
  BY <1>14, ZenonT(40) DEF Registers, LibMaskRead, LibStep, ReadMask, LibStates, ClearFlags
<1>15. ASSUME LibMaskWrite PROVE Registers'
  <2>1. rmw["lib"] \subseteq HINTS
    BY <1>15 DEF Registers, Masks, Writing, LibMaskWrite, LibStep, Actors
  <2>2. mask' \subseteq HINTS
    BY <1>15, <2>1 DEF LibMaskWrite, piu_int_ena, piu_int_dis, HINTS
  <2>3. lib' \in LibStates /\ rmw' \in [Actors -> (SUBSET HINTS) \cup {{"none"}}]
    BY <1>15 DEF Registers, LibMaskWrite, LibStep, piu_int_ena, piu_int_dis, LibStates
  <2>4. UNCHANGED <<txVars, dspVars, stat, signals, rpc>>
    BY <1>15 DEF LibMaskWrite
  <2> QED BY <2>2, <2>3, <2>4 DEF Registers
<1>16. ASSUME LibClearStatus PROVE Registers'
  BY <1>16 DEF Registers, LibClearStatus, LibStep, LibStates
<1>17. ASSUME LibSetFlag PROVE Registers'
  BY <1>17 DEF Registers, LibSetFlag, LibStep, LibStates
<1>18. ASSUME DspTake PROVE Registers'
  BY <1>18 DEF Registers, DspTake
<1>19. ASSUME DspAnswer PROVE Registers'
  BY <1>19 DEF Registers, DspAnswer, HINTS
<1>20. ASSUME NEW k \in BlockKinds, DspSend(k) PROVE Registers'
  BY <1>20 DEF Registers, DspSend, HINTS
<1>21. ASSUME NEW k \in NonblockKinds, DspSendNonblock(k) PROVE Registers'
  BY <1>21 DEF Registers, DspSendNonblock, HINTS
<1>22. ASSUME UNCHANGED vars PROVE Registers'
  BY <1>22 DEF Registers, vars
<1> QED BY <1>1, <1>2, <1>3, <1>4, <1>5, <1>6, <1>7, <1>8, <1>9, <1>10, <1>11, <1>12, <1>13, <1>14, <1>15, <1>16, <1>17, <1>18, <1>19, <1>20, <1>21, <1>22 DEF Next, Tx, Rx, Lib, Dsp

---------------------------------------------------------------------------
(* The interrupt mask and its copies.                                      *)

\* The steps that touch the mask, its copies or the state that they depend on.
LEMMA MaskSteps ==
  ASSUME [Next]_vars
  PROVE  \/ UNCHANGED <<rpc, lib, rmw, mask>>
         \/ TimerExpires \/ TimerReleases \/ Isr
         \/ SigWait \/ RxPick \/ RxCopy \/ RxEnable
         \/ LibMaskRead \/ LibMaskWrite \/ LibClearStatus \/ LibSetFlag
BY DEF Next, vars, Tx, TxCall, TxDown, TxInterrupted, TxArm, TxFill, TxRing, Rx, Lib,
       Dsp, DspTake, DspAnswer, DspSend, DspSendNonblock

LEMMA MasksStep ==
  ASSUME Registers, Masks, [Next]_vars
  PROVE  Masks'
<1> USE DEF Actors, Writing, Cleared
<1>0. mask # {"none"} /\ rmw \in [Actors -> (SUBSET HINTS) \cup {{"none"}}]
  BY DEF Registers, HINTS
<1>1. CASE UNCHANGED <<rpc, lib, rmw, mask>>
  BY <1>1 DEF Masks
<1>2. CASE TimerExpires
  BY <1>0, <1>2 DEF Masks, TimerExpires, ReadMask
<1>3. CASE TimerReleases
  BY <1>0, <1>3 DEF Masks, TimerReleases, piu_int_ena
<1>4. CASE Isr
  <2>1. UNCHANGED <<rpc, lib, rmw>> /\ (ACK_IN \in mask' <=> ACK_IN \in mask)
    BY <1>4 DEF Isr, ForLibrary
  <2> QED BY <1>0, <2>1 DEF Masks
<1>5. CASE SigWait
  BY <1>0, <1>5 DEF Masks, SigWait
<1>6. CASE RxPick
  BY <1>0, <1>6 DEF Masks, RxPick, Pick, InIoctl
<1>7. CASE RxCopy
  BY <1>0, <1>7 DEF Masks, RxCopy, ReadMask
<1>8. CASE RxEnable
  BY <1>0, <1>8 DEF Masks, RxEnable, piu_int_ena, SlotOf
<1>9. CASE LibMaskRead
  BY <1>0, <1>9 DEF Masks, LibMaskRead, LibStep, ReadMask, InIoctl
<1>10. CASE LibMaskWrite
  BY <1>0, <1>10 DEF Masks, LibMaskWrite, LibStep, piu_int_ena, piu_int_dis, InTimer
<1>11. CASE LibClearStatus
  BY <1>0, <1>11 DEF Masks, LibClearStatus, LibStep
<1>12. CASE LibSetFlag
  BY <1>0, <1>12 DEF Masks, LibSetFlag, LibStep
<1> QED BY <1>1, <1>2, <1>3, <1>4, <1>5, <1>6, <1>7, <1>8, <1>9, <1>10, <1>11, <1>12, MaskSteps

\* What holds whether or not the DSP is in time.
BaseInv == Order /\ Registers /\ Switches /\ Masks

LEMMA BaseInit ==
  ASSUME Init
  PROVE  BaseInv
<1>1. Order
  BY DEF Init, Order
<1>2. Registers
  BY DEF Init, Registers, LibStates
<1>3. Switches
  BY Zenon DEF Init, Switches
<1>4. Masks
  BY DEF Init, Masks, Writing, Cleared, Actors, HINTS
<1> QED BY <1>1, <1>2, <1>3, <1>4 DEF BaseInv

LEMMA BaseStep ==
  ASSUME BaseInv, [Next]_vars
  PROVE  BaseInv'
BY OrderStep, RegistersStep, SwitchesStep, MasksStep DEF BaseInv

LEMMA BaseTypes ==
  ASSUME BaseInv
  PROVE  TypeOK
<1>1. arrived \in Seq({MSG_IN, NONBLOCK_MSG_IN})
  <2>1. \A S : <<>> \in Seq(S)
    OBVIOUS
  <2>2. \A S : \A x, y \in S : <<x>> \in Seq(S) /\ <<x, y>> \in Seq(S)
    OBVIOUS
  <2> QED BY <2>1, <2>2 DEF BaseInv, Order
<1> QED BY <1>1 DEF BaseInv, Registers, Switches, TypeOK

(***************************************************************************)
(* Every state is well typed: in particular no copy of the interrupt mask  *)
(* that was not read is ever written back, and the semaphore never drops   *)
(* below zero.                                                             *)
(***************************************************************************)
THEOREM PiuTypes == Spec => []TypeOK
<1> QED BY BaseInit, BaseStep, BaseTypes, PTL DEF Spec

---------------------------------------------------------------------------
(* A channel that is taken is given back.                                  *)

\* The steps that touch the semaphore, the timer or the senders.
LEMMA TxSteps ==
  ASSUME Registers, [Next]_vars
  PROVE  \/ UNCHANGED <<mutex, timer, pc>> /\ UNCHANGED rmw["timer"]
         \/ \E s \in Senders : Tx(s)
         \/ TimerExpires \/ TimerReleases \/ Isr
BY DEF Next, vars, Rx, SigWait, RxPick, RxCopy, RxEnable,
       Lib, LibMaskRead, LibMaskWrite, LibClearStatus, LibSetFlag,
       Dsp, DspTake, DspAnswer, DspSend, DspSendNonblock,
       ReadMask, piu_int_ena, piu_int_dis, Registers, Actors

LEMMA StuckStep ==
  ASSUME Registers, TxNeverStuck, [Next]_vars
  PROVE  TxNeverStuck'
<1> USE DEF TxNeverStuck, InTimer, Actors
<1>1. CASE UNCHANGED <<mutex, timer, pc>> /\ UNCHANGED rmw["timer"]
  BY <1>1
<1>2. ASSUME NEW s \in Senders, Tx(s) PROVE TxNeverStuck'
  <2>0. pc \in [Senders -> {"idle", "down"} \cup Inside] /\ UNCHANGED rmw
    BY <1>2 DEF Registers, Tx, TxCall, TxDown, TxInterrupted, TxArm, TxFill, TxRing
  <2>1. CASE TxCall(s) \/ TxInterrupted(s) \/ TxFill(s) \/ TxRing(s)
    BY <2>0, <2>1 DEF TxCall, TxInterrupted, TxFill, TxRing, Step
  <2>2. CASE TxDown(s)
    BY <2>0, <2>2 DEF TxDown, Step
  <2>3. CASE TxArm(s)
    BY <2>3 DEF TxArm
  <2> QED BY <1>2, <2>1, <2>2, <2>3 DEF Tx
<1>3. CASE TimerExpires
  <2>1. rmw'["timer"] = mask
    BY <1>3 DEF TimerExpires, ReadMask, Registers
  <2>2. mask # {"none"}
    BY DEF Registers, HINTS
  <2> QED BY <2>1, <2>2
<1>4. CASE TimerReleases
  BY <1>4 DEF TimerReleases, Registers
<1>5. CASE Isr
  <2>1. mutex' = mutex + 1 \/ (UNCHANGED <<mutex, timer, pc, rmw>>)
    BY <1>5 DEF Isr, AckIn
  <2> QED BY <2>1 DEF Registers
<1> QED BY <1>1, <1>2, <1>3, <1>4, <1>5, TxSteps

(***************************************************************************)
(* A semaphore at zero always has a timer that will raise it or a sender   *)
(* about to start one, however late the DSP answers: the interrupt of a    *)
(* late answer may delete the timer of the next message, but then it has   *)
(* raised the semaphore itself.                                            *)
(***************************************************************************)
THEOREM PiuNeverStuck == Spec => []TxNeverStuck
<1>1. Init => TxNeverStuck
  BY DEF Init, TxNeverStuck
<1>2. BaseInv => Registers
  BY DEF BaseInv
<1> QED BY <1>1, <1>2, BaseInit, BaseStep, StuckStep, PTL DEF Spec

---------------------------------------------------------------------------
(* One owner of the channel, if answers come in time.                      *)

TxInv == BaseInv /\ Sem /\ Answer

\* Steps that do not touch the sending side.
LEMMA Elsewhere ==
  ASSUME TxInv, UNCHANGED <<txVars, com0, dspTx, rep0, stat>>,
         UNCHANGED rmw["timer"], lib' \notin Cleared => lib \notin Cleared
  PROVE  Sem' /\ Answer'
BY DEF TxInv, Sem, Answer, InTimer

LEMMA TxCallInv ==
  ASSUME TxInv, NEW s \in Senders, TxCall(s)
  PROVE  Sem' /\ Answer'
<1>0. pc \in [Senders -> {"idle", "down"} \cup Inside] /\ mutex \in Nat /\ NoSender \notin Senders
  BY PiuAssumption DEF TxInv, BaseInv, Registers
<1> USE DEF TxCall, Step, Inside, InTimer
<1>1. Sem'
  BY <1>0 DEF TxInv, Sem
<1>2. Answer'
  BY <1>0 DEF TxInv, Sem, Answer
<1> QED BY <1>1, <1>2

LEMMA TxDownInv ==
  ASSUME TxInv, NEW s \in Senders, TxDown(s)
  PROVE  Sem' /\ Answer'
<1>0. pc \in [Senders -> {"idle", "down"} \cup Inside] /\ mutex \in Nat /\ NoSender \notin Senders
  BY PiuAssumption DEF TxInv, BaseInv, Registers
<1> USE DEF TxDown, Step, Inside, InTimer
<1>1. Sem'
  BY <1>0 DEF TxInv, Sem
<1>2. Answer'
  BY <1>0 DEF TxInv, Sem, Answer
<1> QED BY <1>1, <1>2

LEMMA TxInterruptedInv ==
  ASSUME TxInv, NEW s \in Senders, TxInterrupted(s)
  PROVE  Sem' /\ Answer'
<1>0. pc \in [Senders -> {"idle", "down"} \cup Inside] /\ mutex \in Nat /\ NoSender \notin Senders
  BY PiuAssumption DEF TxInv, BaseInv, Registers
<1> USE DEF TxInterrupted, Step, Inside, InTimer
<1>1. Sem'
  BY <1>0 DEF TxInv, Sem
<1>2. Answer'
  BY <1>0 DEF TxInv, Sem, Answer
<1> QED BY <1>1, <1>2

LEMMA TxArmInv ==
  ASSUME TxInv, NEW s \in Senders, TxArm(s)
  PROVE  Sem' /\ Answer'
<1>0. pc \in [Senders -> {"idle", "down"} \cup Inside] /\ mutex \in Nat /\ NoSender \notin Senders
  BY PiuAssumption DEF TxInv, BaseInv, Registers
<1> USE DEF TxArm, Step, Inside, InTimer
<1>1. Sem'
  BY <1>0 DEF TxInv, Sem
<1>2. Answer'
  BY <1>0 DEF TxInv, Sem, Answer
<1> QED BY <1>1, <1>2

LEMMA TxFillInv ==
  ASSUME TxInv, NEW s \in Senders, TxFill(s)
  PROVE  Sem' /\ Answer'
<1>0. pc \in [Senders -> {"idle", "down"} \cup Inside] /\ mutex \in Nat /\ NoSender \notin Senders
  BY PiuAssumption DEF TxInv, BaseInv, Registers
<1> USE DEF TxFill, Step, Inside, InTimer
<1>1. Sem'
  BY <1>0 DEF TxInv, Sem
<1>2. Answer'
  BY <1>0 DEF TxInv, Sem, Answer
<1> QED BY <1>1, <1>2

LEMMA TxRingInv ==
  ASSUME TxInv, NEW s \in Senders, TxRing(s)
  PROVE  Sem' /\ Answer'
<1>0. pc \in [Senders -> {"idle", "down"} \cup Inside] /\ mutex \in Nat /\ NoSender \notin Senders
  BY PiuAssumption DEF TxInv, BaseInv, Registers
<1> USE DEF TxRing, Step, Inside, InTimer
<1>1. Sem'
  BY <1>0 DEF TxInv, Sem
<1>2. Answer'
  BY <1>0 DEF TxInv, Sem, Answer
<1> QED BY <1>1, <1>2

LEMMA TimerExpiresInv ==
  ASSUME ~LateAnswers, ~EnableRace, TxInv, TimerExpires
  PROVE  Sem' /\ Answer'
<1>0. /\ pc \in [Senders -> {"idle", "down"} \cup Inside]
      /\ rmw'["timer"] = mask /\ mask # {"none"}
  BY DEF TxInv, BaseInv, Registers, TimerExpires, ReadMask, HINTS, Actors
<1> USE DEF TimerExpires, InTimer
<1>1. Sem'
  BY <1>0 DEF TxInv, Sem, Inside
<1>2. Answer'
  <2>1. ACK_IN \notin stat \/ lib \in Cleared
    BY DEF TxInv, BaseInv, Masks, Cleared
  <2> QED BY <1>0, <2>1 DEF TxInv, Answer
<1> QED BY <1>1, <1>2

LEMMA TimerReleasesInv ==
  ASSUME ~LateAnswers, TxInv, TimerReleases
  PROVE  Sem' /\ Answer'
<1>0. rmw'["timer"] = {"none"} /\ mutex \in Nat
  BY DEF TxInv, BaseInv, Registers, TimerReleases, piu_int_ena, Actors
<1> USE DEF TimerReleases, InTimer
<1>1. Sem'
  BY <1>0 DEF TxInv, Sem
<1>2. Answer'
  BY <1>0 DEF TxInv, Sem, Answer, Inside
<1> QED BY <1>1, <1>2

\* The answer that the interrupt acknowledges is the one that is awaited.
LEMMA IsrInv ==
  ASSUME TxInv, Isr
  PROVE  Sem' /\ Answer'
<1>1. CASE ACK_IN \in stat \cap mask
  <2>1. lib \notin Cleared
    BY <1>1 DEF TxInv, BaseInv, Masks, Cleared
  <2>2. awaited # NoSender /\ timer /\ rep0 = awaited /\ dspTx = NoSender /\ com0 = NoSender
    BY <1>1, <2>1 DEF TxInv, Answer
  <2>3. /\ timer' = FALSE /\ mutex' = mutex + 1 /\ awaited' = NoSender
        /\ UNCHANGED <<pc, txbuf, com0, dspTx, rmw>>
        /\ ACK_IN \notin stat'
    BY <1>1, <2>2 DEF Isr, AckIn
  <2>4. Sem'
    BY <2>2, <2>3 DEF TxInv, Sem, InTimer
  <2>5. Answer'
    BY <2>2, <2>3 DEF TxInv, Answer
  <2> QED BY <2>4, <2>5
<1>2. CASE ACK_IN \notin stat \cap mask
  <2>1. /\ UNCHANGED <<txVars, com0, dspTx, rep0, lib, rmw>>
        /\ ACK_IN \in stat' <=> ACK_IN \in stat
    BY <1>2 DEF Isr
  <2> QED BY <2>1 DEF TxInv, Sem, Answer, InTimer
<1> QED BY <1>1, <1>2

LEMMA LibClearStatusInv ==
  ASSUME TxInv, LibClearStatus
  PROVE  Sem' /\ Answer'
BY DEF TxInv, Sem, Answer, InTimer, LibClearStatus, LibStep, Cleared

LEMMA DspTakeInv ==
  ASSUME ~LateAnswers, TxInv, DspTake
  PROVE  Sem' /\ Answer'
BY DEF TxInv, Sem, Answer, InTimer, DspTake

LEMMA DspAnswerInv ==
  ASSUME TxInv, DspAnswer
  PROVE  Sem' /\ Answer'
<1>1. awaited # NoSender /\ dspTx = awaited /\ timer /\ com0 = NoSender
  BY DEF TxInv, Answer, DspAnswer
<1>2. Sem'
  BY DEF TxInv, Sem, InTimer, DspAnswer
<1>3. Answer'
  BY <1>1 DEF TxInv, Sem, Answer, DspAnswer, Inside
<1> QED BY <1>2, <1>3

\* A message of the DSP is none of the sending side's business.
LEMMA DspSendInv ==
  ASSUME TxInv, (\E k \in BlockKinds : DspSend(k)) \/ (\E k \in NonblockKinds : DspSendNonblock(k))
  PROVE  Sem' /\ Answer'
<1>1. /\ UNCHANGED <<txVars, com0, dspTx, rep0, lib, rmw>>
      /\ ACK_IN \in stat' <=> ACK_IN \in stat
  BY DEF DspSend, DspSendNonblock
<1> QED BY <1>1 DEF TxInv, Sem, Answer, InTimer

LEMMA TxInvStep ==
  ASSUME ~LateAnswers, ~EnableRace, TxInv, [Next]_vars
  PROVE  TxInv'
<1>1. BaseInv'
  BY BaseStep DEF TxInv
<1>2. rmw \in [Actors -> (SUBSET HINTS) \cup {{"none"}}]
  BY DEF TxInv, BaseInv, Registers
<1>3. CASE UNCHANGED vars
  <2>1. UNCHANGED <<txVars, com0, dspTx, rep0, stat, rmw, lib>>
    BY <1>3 DEF vars
  <2> QED BY <1>1, <2>1, Elsewhere DEF TxInv
<1>4. ASSUME NEW s \in Senders, Tx(s) PROVE Sem' /\ Answer'
  BY <1>4, TxCallInv, TxDownInv, TxInterruptedInv, TxArmInv, TxFillInv, TxRingInv DEF Tx
<1>5. ASSUME Rx PROVE Sem' /\ Answer'
  <2>1. UNCHANGED <<txVars, com0, dspTx, rep0, stat, lib>>
    BY <1>5 DEF Rx, SigWait, RxPick, RxCopy, RxEnable
  <2>2. UNCHANGED rmw["timer"]
    BY <1>2, <1>5 DEF Rx, SigWait, RxPick, RxCopy, RxEnable, ReadMask, piu_int_ena, Actors
  <2> QED BY <2>1, <2>2, Elsewhere
<1>6. ASSUME Lib PROVE Sem' /\ Answer'
  <2>1. CASE LibClearStatus
    BY <2>1, LibClearStatusInv
  <2>2. CASE LibMaskRead \/ LibMaskWrite \/ LibSetFlag
    <3>1. UNCHANGED <<txVars, com0, dspTx, rep0, stat>> /\ (lib' \notin Cleared => lib \notin Cleared)
      BY <2>2 DEF LibMaskRead, LibMaskWrite, LibSetFlag, LibStep, Cleared
    <3>2. UNCHANGED rmw["timer"]
      BY <1>2, <2>2 DEF LibMaskRead, LibMaskWrite, LibSetFlag, ReadMask, piu_int_ena, piu_int_dis, Actors
    <3> QED BY <3>1, <3>2, Elsewhere
  <2> QED BY <1>6, <2>1, <2>2 DEF Lib
<1>7. ASSUME Dsp PROVE Sem' /\ Answer'
  BY <1>7, DspTakeInv, DspAnswerInv, DspSendInv DEF Dsp
<1> QED BY <1>1, <1>3, <1>4, <1>5, <1>6, <1>7, TimerExpiresInv, TimerReleasesInv, IsrInv DEF Next, TxInv

LEMMA TxInvInit ==
  ASSUME Init
  PROVE  TxInv
<1>1. Sem /\ Answer
  BY DEF Init, Sem, Answer, InTimer, Inside, Actors
<1> QED BY <1>1, BaseInit DEF TxInv

LEMMA TxInvAlways ==
  ASSUME ~LateAnswers, ~EnableRace
  PROVE  Spec => []TxInv
<1> QED BY TxInvInit, TxInvStep, PTL DEF Spec

(***************************************************************************)
(* If the DSP answers in time and no answer is masked by piulib_enable     *)
(* when its second ends, no call of piu_tx is past the semaphore while     *)
(* another message is being written or awaits its answer, for any number   *)
(* of applications and kernel threads.                                     *)
(***************************************************************************)
THEOREM PiuOneAtATime ==
  ASSUME ~LateAnswers, ~EnableRace
  PROVE  Spec => []TxOneAtATime
<1>1. TxInv => TxOneAtATime
  BY DEF TxInv, Sem, TxOneAtATime
<1> QED BY <1>1, TxInvAlways, PTL

(***************************************************************************)
(* If the DSP answers in time and no answer is masked by piulib_enable     *)
(* when its second ends, the DSP never serves a message out of a buffer    *)
(* that holds another one.                                                 *)
(***************************************************************************)
THEOREM PiuIntact ==
  ASSUME ~LateAnswers, ~EnableRace
  PROVE  Spec => []TxIntact
<1>1. TxInv => TxIntact
  BY DEF TxInv, Answer, TxIntact
<1> QED BY <1>1, TxInvAlways, PTL

---------------------------------------------------------------------------
(* The sending side implements the channel.                                *)

LEMMA OwnerFacts ==
  ASSUME NEW f, NEW w,
         \A s, t \in Senders : f[s] \in Inside /\ f[t] \in Inside => s = t
  PROVE  /\ \A s \in Senders : f[s] \in Inside =>
              s = IF \E r \in Senders : f[r] \in Inside
                  THEN CHOOSE r \in Senders : f[r] \in Inside ELSE w
         /\ (\A s \in Senders : f[s] \notin Inside) =>
              w = IF \E r \in Senders : f[r] \in Inside
                  THEN CHOOSE r \in Senders : f[r] \in Inside ELSE w
OBVIOUS

\* Who owns the channel before and after a step.
LEMMA OwnerStep ==
  ASSUME Sem, Sem'
  PROVE  /\ \A s \in Senders : pc[s] \in Inside => Holder = s
         /\ (\A s \in Senders : pc[s] \notin Inside) => Holder = awaited
         /\ \A s \in Senders : pc'[s] \in Inside => Holder' = s
         /\ (\A s \in Senders : pc'[s] \notin Inside) => Holder' = awaited'
<1>1. /\ \A s, t \in Senders : pc[s] \in Inside /\ pc[t] \in Inside => s = t
      /\ \A s, t \in Senders : pc'[s] \in Inside /\ pc'[t] \in Inside => s = t
  BY DEF Sem
<1>2. /\ \A s \in Senders : pc[s] \in Inside => Holder = s
      /\ (\A s \in Senders : pc[s] \notin Inside) => Holder = awaited
  BY <1>1, OwnerFacts DEF Holder
<1>3. /\ \A s \in Senders : pc'[s] \in Inside => Holder' = s
      /\ (\A s \in Senders : pc'[s] \notin Inside) => Holder' = awaited'
  BY <1>1, OwnerFacts DEF Holder
<1> QED BY <1>2, <1>3

\* A step of the senders takes the channel or leaves its owner alone.
LEMMA TxOwner ==
  ASSUME TxInv, TxInv', NEW s \in Senders, Tx(s)
  PROVE  Channel!Acquire(s) \/ Holder' = Holder
<1>0. pc \in [Senders -> {"idle", "down"} \cup Inside]
  BY DEF TxInv, BaseInv, Registers
<1>1. Sem /\ Sem'
  BY DEF TxInv
<1> USE DEF Step, Inside
<1>2. CASE TxDown(s)
  <2>1. (\A t \in Senders : pc[t] \notin Inside) /\ awaited = NoSender
    BY <1>1, <1>2 DEF TxDown, Sem
  <2>2. pc'[s] \in Inside
    BY <1>0, <1>2 DEF TxDown
  <2>3. Holder = NoSender /\ Holder' = s
    BY <1>1, <2>1, <2>2, OwnerStep
  <2> QED BY <2>3 DEF Channel!Acquire
<1>3. CASE TxCall(s) \/ TxInterrupted(s)
  <2>1. awaited' = awaited /\ \A t \in Senders : pc'[t] \in Inside <=> pc[t] \in Inside
    BY <1>0, <1>3 DEF TxCall, TxInterrupted
  <2> QED BY <1>1, <2>1, OwnerStep
<1>4. CASE TxArm(s) \/ TxFill(s)
  <2>1. pc[s] \in Inside /\ pc'[s] \in Inside
    BY <1>0, <1>4 DEF TxArm, TxFill
  <2> QED BY <1>1, <2>1, OwnerStep
<1>5. CASE TxRing(s)
  <2>1. pc[s] \in Inside /\ awaited' = s
    BY <1>0, <1>5 DEF TxRing
  <2>2. \A t \in Senders : pc'[t] \notin Inside
    BY <1>0, <1>1, <1>5, <2>1 DEF TxRing, Sem
  <2> QED BY <1>1, <2>1, <2>2, OwnerStep
<1> QED BY <1>2, <1>3, <1>4, <1>5 DEF Tx

\* A message that is answered or given up lets go of the channel.
LEMMA LetGo ==
  ASSUME TxInv, TxInv', awaited # NoSender, awaited' = NoSender, UNCHANGED pc
  PROVE  Channel!Release
<1>1. Sem /\ Sem'
  BY DEF TxInv
<1>2. \A s \in Senders : pc[s] \notin Inside
  BY <1>1 DEF Sem
<1>3. Holder = awaited /\ Holder' = awaited'
  BY <1>1, <1>2, OwnerStep
<1> QED BY <1>3 DEF Channel!Release

LEMMA ChannelStep ==
  ASSUME ~LateAnswers, TxInv, TxInv', [Next]_vars
  PROVE  [Channel!Next]_Holder
<1>1. ASSUME NEW s \in Senders, Tx(s) PROVE [Channel!Next]_Holder
  BY <1>1, TxOwner DEF Channel!Next
<1>2. CASE TimerReleases
  <2>1. awaited # NoSender /\ awaited' = NoSender /\ UNCHANGED pc
    BY <1>2 DEF TxInv, Sem, TimerReleases
  <2> QED BY <2>1, LetGo DEF Channel!Next
<1>3. CASE Isr
  <2>1. CASE ACK_IN \in stat \cap mask
    <3>1. lib \notin Cleared
      BY <2>1 DEF TxInv, BaseInv, Masks, Cleared
    <3>2. awaited # NoSender /\ awaited' = NoSender /\ UNCHANGED pc
      BY <1>3, <2>1, <3>1 DEF TxInv, Answer, Isr, AckIn
    <3> QED BY <3>2, LetGo DEF Channel!Next
  <2>2. CASE ACK_IN \notin stat \cap mask
    <3>1. UNCHANGED <<pc, awaited>>
      BY <1>3, <2>2 DEF Isr
    <3> QED BY <3>1 DEF Holder
  <2> QED BY <2>1, <2>2
<1>4. CASE TimerExpires \/ Rx \/ Lib \/ Dsp \/ UNCHANGED vars
  <2>1. UNCHANGED <<pc, awaited>>
    BY <1>4 DEF vars, TimerExpires, Rx, SigWait, RxPick, RxCopy, RxEnable,
                Lib, LibMaskRead, LibMaskWrite, LibClearStatus, LibSetFlag,
                Dsp, DspTake, DspAnswer, DspSend, DspSendNonblock
  <2> QED BY <2>1 DEF Holder
<1> QED BY <1>1, <1>2, <1>3, <1>4 DEF Next

LEMMA ChannelInit ==
  ASSUME Init
  PROVE  Channel!Init
BY DEF Init, Holder, Inside, Channel!Init

(***************************************************************************)
(* If the DSP answers in time and no answer is masked by piulib_enable     *)
(* when its second ends, the semaphore, the timer and the interrupt        *)
(* implement the channel of TxChannel: every step of the driver takes the  *)
(* free channel for one sender, gives it back, or leaves its owner alone.  *)
(***************************************************************************)
THEOREM PiuChannel ==
  ASSUME ~LateAnswers, ~EnableRace
  PROVE  Spec => Channel!Safety
<1> QED BY ChannelInit, ChannelStep, TxInvAlways, PTL DEF Spec, Channel!Safety

============================================================================
