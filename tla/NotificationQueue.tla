-------------------------- MODULE NotificationQueue --------------------------
(***************************************************************************)
(* Poco::NotificationQueue (osp/Foundation/src/NotificationQueue.cpp): the *)
(* queue through which every asynchronous part of the platform passes work *)
(* between threads.  A thread that finds the queue empty appends a         *)
(* WaitInfo (a slot for one notification and an event) to _waitQueue and   *)
(* blocks on the event; an enqueuing thread hands its notification         *)
(* directly to the oldest WaitInfo and only queues it when nobody waits.   *)
(*                                                                         *)
(* Every section guarded by _mutex is one action.  Blocking on the event,  *)
(* its time-out, and coming back from it are outside the mutex, and are    *)
(* steps of their own.  Any thread may post, so posting has no process.    *)
(***************************************************************************)
EXTENDS Naturals, Sequences, SequencesExt

CONSTANTS
    Threads,        \* the threads that dequeue
    Notifications,  \* the notification objects; each is posted at most once
    NoNf            \* the null Notification::Ptr

ASSUME NoNfAssumption == NoNf \notin Notifications

VARIABLES
    nfQueue,        \* _nfQueue
    waitQueue,      \* _waitQueue, a WaitInfo being named by its thread
    pNf,            \* WaitInfo::pNf of each thread's WaitInfo
    nfAvailable,    \* WaitInfo::nfAvailable, the event is set
    pc,             \* where each thread is in waitDequeueNotification
    (* History: what the properties talk about. *)
    clock,          \* number of notifications posted so far
    ticket,         \* when each notification was posted, 0 if never
    urgent,         \* the notifications posted as urgent
    received,       \* the notifications returned to each thread
    cleared         \* the notifications discarded by clear()

queueVars == <<nfQueue, waitQueue, pNf, nfAvailable, pc>>
history == <<clock, ticket, urgent, received, cleared>>
vars == <<nfQueue, waitQueue, pNf, nfAvailable, pc,
          clock, ticket, urgent, received, cleared>>

-----------------------------------------------------------------------------
Init ==
    /\ nfQueue = <<>>
    /\ waitQueue = <<>>
    /\ pNf = [t \in Threads |-> NoNf]
    /\ nfAvailable = [t \in Threads |-> FALSE]
    /\ pc = [t \in Threads |-> "running"]
    /\ clock = 0
    /\ ticket = [n \in Notifications |-> 0]
    /\ urgent = {}
    /\ received = [t \in Threads |-> {}]
    /\ cleared = {}

Posted(n) == ticket[n] > 0

\* History of a post.
Stamp(n) ==
    /\ ~Posted(n)
    /\ clock' = clock + 1
    /\ ticket' = [ticket EXCEPT ![n] = clock + 1]

\* Variant: the slot is filled but the event is never set.
HandOver_NoEvent(n) ==
    /\ waitQueue # <<>>
    /\ waitQueue' = Tail(waitQueue)
    /\ pNf' = [pNf EXCEPT ![Head(waitQueue)] = n]
    /\ UNCHANGED <<nfQueue, nfAvailable>>

\* The branch both enqueue operations share: the oldest waiter is taken off
\* the wait queue, given the notification, and its event is set.
HandOver(n) ==
    LET t == Head(waitQueue) IN
    /\ waitQueue # <<>>
    /\ waitQueue' = Tail(waitQueue)
    /\ pNf' = [pNf EXCEPT ![t] = n]
    /\ nfAvailable' = [nfAvailable EXCEPT ![t] = TRUE]
    /\ UNCHANGED nfQueue

\* Variant: the notification is always queued, waiters or not.
Enqueue_AlwaysQueue(n) ==
    /\ Stamp(n)
    /\ nfQueue' = Append(nfQueue, n)
    /\ UNCHANGED <<waitQueue, pNf, nfAvailable, pc, urgent, received, cleared>>

\* Variant: push_front where push_back is meant.
Enqueue_PushFront(n) ==
    /\ Stamp(n)
    /\ \/ /\ waitQueue = <<>>
          /\ nfQueue' = <<n>> \o nfQueue
          /\ UNCHANGED <<waitQueue, pNf, nfAvailable>>
       \/ HandOver(n)
    /\ UNCHANGED <<pc, urgent, received, cleared>>

EnqueueNotification(n) ==
    /\ Stamp(n)
    /\ \/ /\ waitQueue = <<>>
          /\ nfQueue' = Append(nfQueue, n)
          /\ UNCHANGED <<waitQueue, pNf, nfAvailable>>
       \/ HandOver(n)
    /\ UNCHANGED <<pc, urgent, received, cleared>>

EnqueueUrgentNotification(n) ==
    /\ Stamp(n)
    /\ \/ /\ waitQueue = <<>>
          /\ nfQueue' = <<n>> \o nfQueue
          /\ UNCHANGED <<waitQueue, pNf, nfAvailable>>
       \/ HandOver(n)
    /\ urgent' = urgent \cup {n}
    /\ UNCHANGED <<pc, received, cleared>>

\* dequeueOne() with a result, returned to thread t.
DequeueOne(t) ==
    /\ nfQueue # <<>>
    /\ nfQueue' = Tail(nfQueue)
    /\ received' = [received EXCEPT ![t] = @ \cup {Head(nfQueue)}]

\* dequeueNotification(): returns at once, null when the queue is empty (a
\* stutter).  waitDequeueNotification does the same when it finds something.
DequeueNotification(t) ==
    /\ pc[t] = "running"
    /\ DequeueOne(t)
    /\ UNCHANGED <<waitQueue, pNf, nfAvailable, pc, clock, ticket, urgent, cleared>>

\* The locked section of waitDequeueNotification on an empty queue; how is
\* "waiting" for the overload without a time-out, "timedWait" for the other.
BeginWait(t, how) ==
    /\ pc[t] = "running"
    /\ nfQueue = <<>>
    /\ waitQueue' = Append(waitQueue, t)
    /\ pNf' = [pNf EXCEPT ![t] = NoNf]
    /\ nfAvailable' = [nfAvailable EXCEPT ![t] = FALSE]
    /\ pc' = [pc EXCEPT ![t] = how]
    /\ UNCHANGED nfQueue /\ UNCHANGED history

\* Variant: null is taken for a notification.
ReturnSlot_NullToo(t) ==
    /\ received' = [received EXCEPT ![t] = @ \cup {pNf[t]}]
    /\ pNf' = [pNf EXCEPT ![t] = NoNf]
    /\ nfAvailable' = [nfAvailable EXCEPT ![t] = FALSE]
    /\ pc' = [pc EXCEPT ![t] = "running"]
    /\ UNCHANGED <<nfQueue, clock, ticket, urgent, cleared>>

\* What both overloads end with: return WaitInfo::pNf, delete the WaitInfo.
ReturnSlot(t) ==
    /\ received' = [received EXCEPT ![t] = @ \cup ({pNf[t]} \ {NoNf})]
    /\ pNf' = [pNf EXCEPT ![t] = NoNf]
    /\ nfAvailable' = [nfAvailable EXCEPT ![t] = FALSE]
    /\ pc' = [pc EXCEPT ![t] = "running"]
    /\ UNCHANGED <<nfQueue, clock, ticket, urgent, cleared>>

\* nfAvailable.wait() or tryWait() succeeds.
FinishWait(t) ==
    /\ pc[t] \in {"waiting", "timedWait"}
    /\ nfAvailable[t]
    /\ ReturnSlot(t)
    /\ UNCHANGED waitQueue

\* tryWait(milliseconds) returns false: the mutex is not yet taken again.
WaitTimesOut(t) ==
    /\ pc[t] = "timedWait"
    /\ ~nfAvailable[t]
    /\ pc' = [pc EXCEPT ![t] = "timedOut"]
    /\ UNCHANGED <<nfQueue, waitQueue, pNf, nfAvailable>>
    /\ UNCHANGED history

\* Variant: after the time-out the slot is not looked at again.
Withdraw_IgnoreSlot(t) ==
    /\ pc[t] = "timedOut"
    /\ waitQueue' = SelectSeq(waitQueue, LAMBDA w : w # t)
    /\ pNf' = [pNf EXCEPT ![t] = NoNf]
    /\ nfAvailable' = [nfAvailable EXCEPT ![t] = FALSE]
    /\ pc' = [pc EXCEPT ![t] = "running"]
    /\ UNCHANGED <<nfQueue, clock, ticket, urgent, received, cleared>>

\* The locked section after a time-out.  A notification handed over between
\* the time-out and this lock is returned all the same.
Withdraw(t) ==
    /\ pc[t] = "timedOut"
    /\ \/ /\ t \notin ToSet(waitQueue)
          /\ UNCHANGED waitQueue
       \/ \E i \in DOMAIN waitQueue :
            /\ waitQueue[i] = t
            /\ waitQueue' = RemoveAt(waitQueue, i)
    /\ ReturnSlot(t)

\* dispatch(): everything queued is posted to a NotificationCenter, in order,
\* under the mutex; thread t is the caller.
Dispatch(t) ==
    /\ pc[t] = "running"
    /\ nfQueue # <<>>
    /\ received' = [received EXCEPT ![t] = @ \cup ToSet(nfQueue)]
    /\ nfQueue' = <<>>
    /\ UNCHANGED <<waitQueue, pNf, nfAvailable, pc, clock, ticket, urgent, cleared>>

\* Variant: the wait queue is cleared but only its first thread is woken.
WakeUpAll_First ==
    /\ waitQueue # <<>>
    /\ nfAvailable' = [nfAvailable EXCEPT ![Head(waitQueue)] = TRUE]
    /\ waitQueue' = <<>>
    /\ UNCHANGED <<nfQueue, pNf, pc, clock, ticket, urgent, received, cleared>>

WakeUpAll ==
    /\ waitQueue # <<>>
    /\ nfAvailable' = [t \in Threads |-> nfAvailable[t] \/ t \in ToSet(waitQueue)]
    /\ waitQueue' = <<>>
    /\ UNCHANGED <<nfQueue, pNf, pc>>
    /\ UNCHANGED history

Clear ==
    /\ nfQueue # <<>>
    /\ nfQueue' = <<>>
    /\ cleared' = cleared \cup ToSet(nfQueue)
    /\ UNCHANGED <<waitQueue, pNf, nfAvailable, pc, clock, ticket, urgent, received>>

Thread(t) ==
    \/ DequeueNotification(t)
    \/ \E how \in {"waiting", "timedWait"} : BeginWait(t, how)
    \/ FinishWait(t)
    \/ WaitTimesOut(t)
    \/ Withdraw(t)
    \/ Dispatch(t)

Next ==
    \/ \E n \in Notifications : EnqueueNotification(n) \/ EnqueueUrgentNotification(n)
    \/ \E t \in Threads : Thread(t)
    \/ WakeUpAll
    \/ Clear

Spec == Init /\ [][Next]_vars

\* A thread whose event is set, or whose wait has timed out, is scheduled; a
\* timed wait ends.  Nobody is obliged to post, to wake up or to dequeue.
Fairness ==
    \A t \in Threads : /\ WF_vars(FinishWait(t))
                       /\ WF_vars(WaitTimesOut(t))
                       /\ WF_vars(Withdraw(t))

FairSpec == Spec /\ Fairness

-----------------------------------------------------------------------------
\* The notifications no longer pending: handed to a waiter or returned.
Claimed(n) == Posted(n) /\ n \notin ToSet(nfQueue) /\ n \notin cleared

\* Types of the variables of NotificationQueue and of the history.
TypeOK ==
    /\ nfQueue \in Seq(Notifications)
    /\ waitQueue \in Seq(Threads)
    /\ pNf \in [Threads -> Notifications \cup {NoNf}]
    /\ nfAvailable \in [Threads -> BOOLEAN]
    /\ pc \in [Threads -> {"running", "waiting", "timedWait", "timedOut"}]
    /\ clock \in Nat
    /\ ticket \in [Notifications -> Nat]
    /\ urgent \in SUBSET Notifications
    /\ received \in [Threads -> SUBSET Notifications]
    /\ cleared \in SUBSET Notifications

\* No notification is left lying in the queue while a thread is blocked
\* waiting for one: posting hands over, and waiting looks before it blocks.
NoIdleWaiter == waitQueue # <<>> => nfQueue = <<>>

\* A thread that is blocked and no longer in the wait queue has had its event
\* set: whoever takes a WaitInfo off the wait queue wakes its thread.
NoForgottenWaiter ==
    \A t \in Threads :
        pc[t] # "running" /\ t \notin ToSet(waitQueue) => nfAvailable[t]

\* The places a posted notification can be in.
InQueue(n) == {<<"queue", i>> : i \in {j \in DOMAIN nfQueue : nfQueue[j] = n}}
InSlot(n) == {<<"slot", t>> : t \in {s \in Threads : pNf[s] = n}}
InHands(n) == {<<"hands", t>> : t \in {s \in Threads : n \in received[s]}}
InTrash(n) == IF n \in cleared THEN {<<"trash", 0>>} ELSE {}
Places(n) == InQueue(n) \cup InSlot(n) \cup InHands(n) \cup InTrash(n)

\* Nothing is lost and nothing is delivered twice: a posted notification is in
\* exactly one place (queue, a waiter's slot, one receiver, discarded), across
\* hand-over, time-out, wake-up, dispatch and clear; an unposted one in none.
ExactlyOnce ==
    \A n \in Notifications :
        IF Posted(n) THEN \E p \in Places(n) : Places(n) = {p} ELSE Places(n) = {}

\* Notifications that were not urgent are claimed in the order of posting: one
\* that is still queued was posted after every one already claimed.
Fifo ==
    \A m, n \in Notifications \ urgent :
        Claimed(n) /\ m \in ToSet(nfQueue) => ticket[n] < ticket[m]

\* Urgent notifications are served before all others, the latest one first:
\* whatever stands before an urgent one is urgent and was posted after it.
UrgentFirst ==
    \A i, j \in DOMAIN nfQueue :
        i < j /\ nfQueue[j] \in urgent
            => /\ nfQueue[i] \in urgent
               /\ ticket[nfQueue[i]] > ticket[nfQueue[j]]
=============================================================================
