------------------------------- MODULE Mailbox -------------------------------
(***************************************************************************)
(* What a NotificationQueue promises the threads that share it, without    *)
(* wait queue, events, mutex or time-outs: a box of notifications, a       *)
(* notification set aside for a thread, and what each thread has got.      *)
(* Notifications are set aside only when the box is empty, so setting      *)
(* aside never overtakes; what is set aside is taken, never withdrawn.     *)
(***************************************************************************)
EXTENDS Naturals, Sequences, SequencesExt

CONSTANTS Threads, Notifications, NoNf

VARIABLES box, aside, got

mailbox == <<box, aside, got>>

Init ==
    /\ box = <<>>
    /\ aside = [t \in Threads |-> NoNf]
    /\ got = [t \in Threads |-> {}]

\* A notification new to the mailbox is put at its end, or urgently in front.
Put(n) ==
    /\ box' \in {Append(box, n), <<n>> \o box}
    /\ UNCHANGED <<aside, got>>

SetAside(n, t) ==
    /\ box = <<>>
    /\ aside[t] = NoNf
    /\ aside' = [aside EXCEPT ![t] = n]
    /\ UNCHANGED <<box, got>>

TakeFirst(t) ==
    /\ box # <<>>
    /\ box' = Tail(box)
    /\ got' = [got EXCEPT ![t] = @ \cup {Head(box)}]
    /\ UNCHANGED aside

TakeAll(t) ==
    /\ box' = <<>>
    /\ got' = [got EXCEPT ![t] = @ \cup ToSet(box)]
    /\ UNCHANGED aside

TakeAside(t) ==
    /\ aside[t] # NoNf
    /\ got' = [got EXCEPT ![t] = @ \cup {aside[t]}]
    /\ aside' = [aside EXCEPT ![t] = NoNf]
    /\ UNCHANGED box

Discard ==
    /\ box' = <<>>
    /\ UNCHANGED <<aside, got>>

New(n) ==
    /\ n \notin ToSet(box)
    /\ \A t \in Threads : aside[t] # n /\ n \notin got[t]

Next ==
    \/ \E n \in Notifications :
          New(n) /\ (Put(n) \/ \E t \in Threads : SetAside(n, t))
    \/ \E t \in Threads : TakeFirst(t) \/ TakeAll(t) \/ TakeAside(t)
    \/ Discard

Spec == Init /\ [][Next]_mailbox

FairSpec == Spec /\ \A t \in Threads : WF_mailbox(TakeAside(t))
=============================================================================
