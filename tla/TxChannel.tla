----------------------------- MODULE TxChannel -----------------------------
(***************************************************************************)
(* What the sending side of the mailbox promises: one message at a time    *)
(* owns the channel, and every owner gives it back.                        *)
(***************************************************************************)
CONSTANTS Senders, NoSender

VARIABLE holder   \* whose message owns the channel

Init == holder = NoSender

Acquire(s) == holder = NoSender /\ holder' = s

Release == holder # NoSender /\ holder' = NoSender

Next == Release \/ \E s \in Senders : Acquire(s)

Safety == Init /\ [][Next]_holder

Spec == Safety /\ WF_holder(Release)
============================================================================
