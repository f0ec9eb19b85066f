---------------------- MODULE NotificationQueueMailbox ----------------------
(***************************************************************************)
(* NotificationQueue implements Mailbox: hiding the wait queue, the events *)
(* and the program counters, its queue is the box and the slots of the     *)
(* WaitInfos are what is set aside.                                        *)
(***************************************************************************)
EXTENDS NotificationQueue

M == INSTANCE Mailbox WITH box <- nfQueue, aside <- pNf, got <- received

\* Every step of the queue is a step of the mailbox or invisible: nothing is
\* withdrawn from a waiter, overtaken by a hand-over, lost or duplicated.
ImplementsMailbox == M!Spec

\* Under the scheduling of NotificationQueue what was handed to a waiter is
\* taken, even when its wait timed out at the same moment.
ImplementsFairMailbox == M!FairSpec
=============================================================================
