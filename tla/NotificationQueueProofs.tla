----------------------- MODULE NotificationQueueProofs -----------------------
(***************************************************************************)
(* Proofs about NotificationQueue, for any set of threads and any set of   *)
(* notifications.  The inductive invariant is TypeOK plus how the wait     *)
(* queue, the slots, the events and the program counters go together       *)
(* (Waiting), one owner per notification (OneOwner), and the order of the  *)
(* queue (Ordered).                                                        *)
(***************************************************************************)
EXTENDS NotificationQueueMailbox, SequenceTheorems, TLAPS

-----------------------------------------------------------------------------
(* Sequences as the queue uses them. *)

\* The elements of a sequence after removing its first one.
LEMMA TailFacts ==
    ASSUME NEW S, NEW q \in Seq(S), q # <<>>
    PROVE  /\ Head(q) \in S
           /\ Head(q) = q[1]
           /\ 1 \in DOMAIN q
           /\ Tail(q) \in Seq(S)
           /\ DOMAIN Tail(q) = 1 .. (Len(q) - 1)
           /\ \A i \in DOMAIN Tail(q) : i + 1 \in DOMAIN q /\ Tail(q)[i] = q[i + 1]
           /\ \A i \in DOMAIN q : i = 1 \/ (i - 1 \in DOMAIN Tail(q) /\ q[i] = Tail(q)[i - 1])
  OBVIOUS

\* The elements of a sequence after appending one.
LEMMA AppendFacts ==
    ASSUME NEW S, NEW q \in Seq(S), NEW e \in S
    PROVE  /\ Append(q, e) \in Seq(S)
           /\ DOMAIN Append(q, e) = 1 .. (Len(q) + 1)
           /\ \A i \in DOMAIN q : i \in DOMAIN Append(q, e) /\ Append(q, e)[i] = q[i]
           /\ \A i \in DOMAIN Append(q, e) :
                 Append(q, e)[i] = e \/ (i \in DOMAIN q /\ Append(q, e)[i] = q[i])
           /\ Append(q, e)[Len(q) + 1] = e
  OBVIOUS

\* The elements of a sequence after pushing one in front.
LEMMA PushFacts ==
    ASSUME NEW S, NEW q \in Seq(S), NEW e \in S
    PROVE  /\ <<e>> \o q \in Seq(S)
           /\ DOMAIN (<<e>> \o q) = 1 .. (Len(q) + 1)
           /\ (<<e>> \o q)[1] = e
           /\ \A i \in DOMAIN q : i + 1 \in DOMAIN (<<e>> \o q) /\ (<<e>> \o q)[i + 1] = q[i]
           /\ \A i \in DOMAIN (<<e>> \o q) :
                 i = 1 \/ (i - 1 \in DOMAIN q /\ (<<e>> \o q)[i] = q[i - 1])
  OBVIOUS

\* The elements of a sequence after erasing one.
LEMMA RemoveAtFacts ==
    ASSUME NEW S, NEW q \in Seq(S), NEW k \in DOMAIN q
    PROVE  /\ RemoveAt(q, k) \in Seq(S)
           /\ DOMAIN RemoveAt(q, k) = 1 .. (Len(q) - 1)
           /\ \A i \in DOMAIN RemoveAt(q, k) :
                 RemoveAt(q, k)[i] = IF i < k THEN q[i] ELSE q[i + 1]
  <1> DEFINE front == SubSeq(q, 1, k - 1)
             back == SubSeq(q, k + 1, Len(q))
  <1>1. k \in 1 .. Len(q) /\ Len(q) \in Nat /\ \A i \in 1 .. Len(q) : q[i] \in S
    BY LenProperties, ElementOfSeq
  <1>2. /\ front \in Seq(S)
        /\ Len(front) = k - 1
        /\ \A i \in 1 .. (k - 1) : front[i] = q[i]
    BY <1>1
  <1>3. /\ back \in Seq(S)
        /\ Len(back) = Len(q) - k
        /\ \A i \in 1 .. (Len(q) - k) : back[i] = q[k + i]
    BY <1>1
  <1>4. RemoveAt(q, k) = front \o back
    BY DEF RemoveAt
  <1> HIDE DEF front, back
  <1>5. /\ front \o back \in Seq(S)
        /\ Len(front \o back) = Len(q) - 1
        /\ \A i \in 1 .. (Len(q) - 1) :
              (front \o back)[i] = IF i <= k - 1 THEN front[i] ELSE back[i - (k - 1)]
    <2>1. /\ front \o back \in Seq(S)
          /\ Len(front \o back) = Len(front) + Len(back)
          /\ \A i \in 1 .. (Len(front) + Len(back)) :
                (front \o back)[i] = IF i <= Len(front) THEN front[i] ELSE back[i - Len(front)]
      BY <1>2, <1>3, ConcatProperties
    <2>2. Len(front) + Len(back) = Len(q) - 1
      BY <1>1, <1>2, <1>3
    <2>3. QED
      BY <1>2, <2>1, <2>2
  <1>6. DOMAIN (front \o back) = 1 .. (Len(q) - 1)
    BY <1>5, LenProperties
  <1>7. ASSUME NEW i \in 1 .. (Len(q) - 1)
        PROVE  (front \o back)[i] = IF i < k THEN q[i] ELSE q[i + 1]
    <2>1. CASE i < k
      BY <1>1, <1>2, <1>5, <2>1
    <2>2. CASE ~(i < k)
      <3>1. i - (k - 1) \in 1 .. (Len(q) - k) /\ k + (i - (k - 1)) = i + 1 /\ ~(i <= k - 1)
        BY <1>1, <2>2
      <3>2. (front \o back)[i] = back[i - (k - 1)]
        BY <1>5, <3>1
      <3>3. back[i - (k - 1)] = q[i + 1]
        BY <1>3, <3>1
      <3>4. QED
        BY <2>2, <3>2, <3>3
    <2>3. QED
      BY <2>1, <2>2
  <1>8. QED
    BY <1>4, <1>5, <1>6, <1>7

-----------------------------------------------------------------------------
(* The inductive invariant. *)

\* A thread is in the wait queue at most once, and while it is there it is in
\* a wait, its slot is empty and its event is not set; outside a wait a
\* thread has no slot; a slot is only filled together with setting its event.
Waiting ==
    /\ \A i, j \in DOMAIN waitQueue : waitQueue[i] = waitQueue[j] => i = j
    /\ \A i \in DOMAIN waitQueue :
          /\ pc[waitQueue[i]] # "running"
          /\ ~nfAvailable[waitQueue[i]]
          /\ pNf[waitQueue[i]] = NoNf
    /\ \A t \in Threads : pc[t] = "running" => pNf[t] = NoNf /\ ~nfAvailable[t]
    /\ \A t \in Threads : pNf[t] # NoNf => nfAvailable[t]

\* No notification is in two places.
OneOwner ==
    /\ \A i, j \in DOMAIN nfQueue : nfQueue[i] = nfQueue[j] => i = j
    /\ \A i \in DOMAIN nfQueue : nfQueue[i] \notin cleared
    /\ \A i \in DOMAIN nfQueue, t \in Threads :
          nfQueue[i] # pNf[t] /\ nfQueue[i] \notin received[t]
    /\ \A s, t \in Threads : pNf[s] = pNf[t] /\ pNf[s] # NoNf => s = t
    /\ \A s, t \in Threads : pNf[s] \notin received[t]
    /\ \A s, t \in Threads, n \in Notifications :
          n \in received[s] /\ n \in received[t] => s = t
    /\ \A t \in Threads, n \in cleared : pNf[t] # n /\ n \notin received[t]

\* A notification is in some place exactly when it has been posted.
SomeOwner ==
    \A n \in Notifications :
        Posted(n) <=> \/ n \in ToSet(nfQueue)
                      \/ n \in cleared
                      \/ \E t \in Threads : pNf[t] = n \/ n \in received[t]

\* No ticket is above the clock, and the queue is ordered by tickets.
Ordered ==
    /\ \A n \in Notifications : ticket[n] <= clock
    /\ \A i, j \in DOMAIN nfQueue :
          i < j /\ nfQueue[i] \notin urgent /\ nfQueue[j] \notin urgent
              => ticket[nfQueue[i]] < ticket[nfQueue[j]]
    /\ \A n \in urgent : Posted(n)
    /\ UrgentFirst
    /\ Fifo

WaitInv == TypeOK /\ Waiting /\ NoIdleWaiter /\ NoForgottenWaiter

\* The initial state satisfies the part of the invariant about waiting.
LEMMA InitWaitInv == Init => WaitInv
  BY DEF Init, WaitInv, TypeOK, Waiting, NoIdleWaiter, NoForgottenWaiter, ToSet

\* Handing over keeps a thread's place consistent: the oldest waiter leaves
\* the wait queue with its slot filled and its event set.
LEMMA HandOverWaiting ==
    ASSUME WaitInv, NEW n \in Notifications, HandOver(n), pc' = pc
    PROVE  /\ waitQueue' \in Seq(Threads)
           /\ pNf' \in [Threads -> Notifications \cup {NoNf}]
           /\ nfAvailable' \in [Threads -> BOOLEAN]
           /\ Waiting' /\ NoIdleWaiter' /\ NoForgottenWaiter'
  <1> DEFINE t == Head(waitQueue)
  <1>1. /\ t \in Threads /\ t = waitQueue[1] /\ 1 \in DOMAIN waitQueue
        /\ waitQueue' \in Seq(Threads)
        /\ \A i \in DOMAIN waitQueue' : i + 1 \in DOMAIN waitQueue /\ waitQueue'[i] = waitQueue[i + 1]
        /\ \A i \in DOMAIN waitQueue : i = 1 \/ (i - 1 \in DOMAIN waitQueue' /\ waitQueue[i] = waitQueue'[i - 1])
        /\ DOMAIN waitQueue' \subseteq Nat /\ 0 \notin DOMAIN waitQueue'
    BY TailFacts DEF HandOver, WaitInv, TypeOK
  <1>2. /\ pNf' = [pNf EXCEPT ![t] = n]
        /\ nfAvailable' = [nfAvailable EXCEPT ![t] = TRUE]
        /\ nfQueue' = nfQueue
    BY DEF HandOver
  <1> HIDE DEF t
  <1>3. \A i \in DOMAIN waitQueue' : waitQueue'[i] # t
    BY <1>1 DEF WaitInv, Waiting
  <1>4. NoIdleWaiter'
    BY <1>2 DEF NoIdleWaiter, WaitInv, HandOver
  <1>5. Waiting'
    <2>1. \A i, j \in DOMAIN waitQueue' : waitQueue'[i] = waitQueue'[j] => i = j
      BY <1>1 DEF WaitInv, Waiting
    <2>2. \A i \in DOMAIN waitQueue' : /\ pc[waitQueue'[i]] # "running"
                                       /\ ~nfAvailable'[waitQueue'[i]]
                                       /\ pNf'[waitQueue'[i]] = NoNf
      BY <1>1, <1>2, <1>3 DEF WaitInv, Waiting, TypeOK
    <2>3. \A s \in Threads : pc[s] = "running" => pNf'[s] = NoNf /\ ~nfAvailable'[s]
      BY <1>1, <1>2 DEF WaitInv, Waiting, TypeOK
    <2>4. \A s \in Threads : pNf'[s] # NoNf => nfAvailable'[s]
      BY <1>1, <1>2 DEF WaitInv, Waiting, TypeOK
    <2>5. QED
      BY <2>1, <2>2, <2>3, <2>4 DEF Waiting
  <1>6. NoForgottenWaiter'
    <2> SUFFICES ASSUME NEW s \in Threads, pc[s] # "running",
                        s \notin ToSet(waitQueue'), s # t
                 PROVE  nfAvailable[s]
      BY <1>1, <1>2 DEF NoForgottenWaiter, WaitInv, TypeOK
    <2>1. s \notin ToSet(waitQueue)
      BY <1>1 DEF ToSet
    <2>2. QED
      BY <2>1 DEF WaitInv, NoForgottenWaiter
  <1>7. QED
    BY <1>1, <1>2, <1>4, <1>5, <1>6 DEF WaitInv, TypeOK

\* Every step preserves the part of the invariant about waiting.
LEMMA NextWaitInv == WaitInv /\ [Next]_vars => WaitInv'
  <1> SUFFICES ASSUME WaitInv, [Next]_vars
               PROVE  WaitInv'
    OBVIOUS
  <1> USE DEF WaitInv
  <1>1. ASSUME NEW n \in Notifications, EnqueueNotification(n)
        PROVE  WaitInv'
    <2>1. CASE waitQueue = <<>> /\ nfQueue' = Append(nfQueue, n) /\ UNCHANGED <<waitQueue, pNf, nfAvailable>>
      BY <1>1, <2>1 DEF EnqueueNotification, Stamp, TypeOK, Waiting, NoIdleWaiter, NoForgottenWaiter
    <2>2. CASE HandOver(n)
      <3>1. /\ nfQueue' = nfQueue /\ pc' = pc /\ received' = received /\ cleared' = cleared
            /\ clock' \in Nat /\ ticket' \in [Notifications -> Nat]
            /\ urgent' \in SUBSET Notifications
        BY <1>1, <2>2 DEF EnqueueNotification, Stamp, TypeOK, HandOver
      <3>2. QED
        BY <2>2, <3>1, HandOverWaiting DEF TypeOK
    <2>3. QED
      BY <1>1, <2>1, <2>2 DEF EnqueueNotification
  <1>2. ASSUME NEW n \in Notifications, EnqueueUrgentNotification(n)
        PROVE  WaitInv'
    <2>1. CASE waitQueue = <<>> /\ nfQueue' = <<n>> \o nfQueue /\ UNCHANGED <<waitQueue, pNf, nfAvailable>>
      BY <1>2, <2>1 DEF EnqueueUrgentNotification, Stamp, TypeOK, Waiting, NoIdleWaiter, NoForgottenWaiter
    <2>2. CASE HandOver(n)
      <3>1. /\ nfQueue' = nfQueue /\ pc' = pc /\ received' = received /\ cleared' = cleared
            /\ clock' \in Nat /\ ticket' \in [Notifications -> Nat]
            /\ urgent' \in SUBSET Notifications
        BY <1>2, <2>2 DEF EnqueueUrgentNotification, Stamp, TypeOK, HandOver
      <3>2. QED
        BY <2>2, <3>1, HandOverWaiting DEF TypeOK
    <2>3. QED
      BY <1>2, <2>1, <2>2 DEF EnqueueUrgentNotification
  <1>3. ASSUME NEW t \in Threads, DequeueNotification(t)
        PROVE  WaitInv'
    BY <1>3, TailFacts DEF DequeueNotification, DequeueOne, TypeOK, Waiting, NoIdleWaiter, NoForgottenWaiter
  <1>4. ASSUME NEW t \in Threads, NEW how \in {"waiting", "timedWait"}, BeginWait(t, how)
        PROVE  WaitInv'
    <2>1. /\ waitQueue' \in Seq(Threads)
          /\ waitQueue' = Append(waitQueue, t)
          /\ \A i \in DOMAIN waitQueue : i \in DOMAIN waitQueue' /\ waitQueue'[i] = waitQueue[i]
          /\ \A i \in DOMAIN waitQueue' :
                \/ i = Len(waitQueue) + 1 /\ waitQueue'[i] = t
                \/ i \in DOMAIN waitQueue /\ waitQueue'[i] = waitQueue[i]
          /\ Len(waitQueue) + 1 \in DOMAIN waitQueue' /\ waitQueue'[Len(waitQueue) + 1] = t
          /\ Len(waitQueue) + 1 \notin DOMAIN waitQueue
      BY <1>4 DEF BeginWait, TypeOK
    <2>2. \A i \in DOMAIN waitQueue : waitQueue[i] # t
      BY <1>4 DEF BeginWait, Waiting
    <2>3. TypeOK'
      BY <1>4, <2>1 DEF BeginWait, TypeOK, history
    <2>4. Waiting'
      <3>1. \A i, j \in DOMAIN waitQueue' : waitQueue'[i] = waitQueue'[j] => i = j
        BY <2>1, <2>2 DEF Waiting
      <3>2. \A i \in DOMAIN waitQueue' : /\ pc'[waitQueue'[i]] # "running"
                                         /\ ~nfAvailable'[waitQueue'[i]]
                                         /\ pNf'[waitQueue'[i]] = NoNf
        BY <1>4, <2>1 DEF BeginWait, Waiting, TypeOK
      <3>3. \A s \in Threads : pc'[s] = "running" => pNf'[s] = NoNf /\ ~nfAvailable'[s]
        BY <1>4 DEF BeginWait, Waiting, TypeOK
      <3>4. \A s \in Threads : pNf'[s] # NoNf => nfAvailable'[s]
        BY <1>4 DEF BeginWait, Waiting, TypeOK
      <3>5. QED
        BY <3>1, <3>2, <3>3, <3>4 DEF Waiting
    <2>5. NoIdleWaiter'
      BY <1>4 DEF BeginWait, NoIdleWaiter
    <2>6. NoForgottenWaiter'
      BY <1>4, <2>1 DEF BeginWait, NoForgottenWaiter, ToSet, TypeOK
    <2>7. QED
      BY <2>3, <2>4, <2>5, <2>6
  <1>5. ASSUME NEW t \in Threads, FinishWait(t)
        PROVE  WaitInv'
    <2>1. \A i \in DOMAIN waitQueue : waitQueue[i] # t
      BY <1>5 DEF FinishWait, Waiting
    <2>2. TypeOK'
      BY <1>5 DEF FinishWait, ReturnSlot, TypeOK
    <2>3. Waiting'
      BY <1>5, <2>1 DEF FinishWait, ReturnSlot, Waiting, TypeOK
    <2>4. NoIdleWaiter' /\ NoForgottenWaiter'
      BY <1>5 DEF FinishWait, ReturnSlot, NoIdleWaiter, NoForgottenWaiter, TypeOK
    <2>5. QED
      BY <2>2, <2>3, <2>4
  <1>6. ASSUME NEW t \in Threads, WaitTimesOut(t)
        PROVE  WaitInv'
    BY <1>6 DEF WaitTimesOut, history, TypeOK, Waiting, NoIdleWaiter, NoForgottenWaiter
  <1>7. ASSUME NEW t \in Threads, Withdraw(t)
        PROVE  WaitInv'
    <2> DEFINE Erased(q) ==
                 /\ q \in Seq(Threads)
                 /\ \A i \in DOMAIN q : q[i] # t /\ q[i] \in ToSet(waitQueue)
                 /\ \A i, j \in DOMAIN q : q[i] = q[j] => i = j
                 /\ \A s \in ToSet(waitQueue) : s = t \/ s \in ToSet(q)
                 /\ waitQueue = <<>> => q = <<>>
    <2>1. Erased(waitQueue')
      <3>1. CASE t \notin ToSet(waitQueue) /\ UNCHANGED waitQueue
        BY <3>1 DEF ToSet, TypeOK, Waiting
      <3>2. ASSUME NEW k \in DOMAIN waitQueue, waitQueue[k] = t, waitQueue' = RemoveAt(waitQueue, k)
            PROVE  Erased(waitQueue')
        <4>1. /\ waitQueue' \in Seq(Threads)
              /\ DOMAIN waitQueue' = 1 .. (Len(waitQueue) - 1)
              /\ \A i \in DOMAIN waitQueue' :
                    waitQueue'[i] = IF i < k THEN waitQueue[i] ELSE waitQueue[i + 1]
          BY <3>2, RemoveAtFacts DEF TypeOK
        <4>2. DOMAIN waitQueue = 1 .. Len(waitQueue) /\ Len(waitQueue) \in Nat
          BY LenProperties DEF TypeOK
        <4>3. \A i \in DOMAIN waitQueue' : waitQueue'[i] # t /\ waitQueue'[i] \in ToSet(waitQueue)
          BY <4>1, <4>2, <3>2 DEF Waiting, ToSet
        <4>4. \A i, j \in DOMAIN waitQueue' : waitQueue'[i] = waitQueue'[j] => i = j
          BY <4>1, <4>2, <3>2 DEF Waiting
        <4>5. \A i \in DOMAIN waitQueue : waitQueue[i] = t \/ waitQueue[i] \in ToSet(waitQueue')
          <5> SUFFICES ASSUME NEW i \in DOMAIN waitQueue, i # k
                       PROVE  \E j \in DOMAIN waitQueue' : waitQueue'[j] = waitQueue[i]
            BY <3>2 DEF ToSet
          <5>1. CASE i < k
            BY <5>1, <4>1, <4>2
          <5>2. CASE i > k
            <6>1. i - 1 \in DOMAIN waitQueue' /\ waitQueue'[i - 1] = waitQueue[i]
              BY <5>2, <4>1, <4>2
            <6>2. QED
              BY <6>1
          <5>3. QED
            BY <5>1, <5>2, <4>2
        <4>6. QED
          BY <4>1, <4>2, <4>3, <4>4, <4>5, <3>2 DEF ToSet
      <3>3. QED
        BY <1>7, <3>1, <3>2 DEF Withdraw
    <2>2. TypeOK'
      BY <1>7, <2>1 DEF Withdraw, ReturnSlot, TypeOK
    <2>3. Waiting'
      <3>1. \A i \in DOMAIN waitQueue' : /\ pc'[waitQueue'[i]] # "running"
                                         /\ ~nfAvailable'[waitQueue'[i]]
                                         /\ pNf'[waitQueue'[i]] = NoNf
        BY <1>7, <2>1 DEF Withdraw, ReturnSlot, Waiting, TypeOK, ToSet
      <3>2. \A s \in Threads : pc'[s] = "running" => pNf'[s] = NoNf /\ ~nfAvailable'[s]
        BY <1>7 DEF Withdraw, ReturnSlot, Waiting, TypeOK
      <3>3. \A s \in Threads : pNf'[s] # NoNf => nfAvailable'[s]
        BY <1>7 DEF Withdraw, ReturnSlot, Waiting, TypeOK
      <3>4. QED
        BY <2>1, <3>1, <3>2, <3>3 DEF Waiting
    <2>4. NoIdleWaiter'
      BY <1>7, <2>1 DEF Withdraw, ReturnSlot, NoIdleWaiter
    <2>5. NoForgottenWaiter'
      BY <1>7, <2>1 DEF Withdraw, ReturnSlot, NoForgottenWaiter, TypeOK
    <2>6. QED
      BY <2>2, <2>3, <2>4, <2>5
  <1>8. ASSUME NEW t \in Threads, Dispatch(t)
        PROVE  WaitInv'
    BY <1>8 DEF Dispatch, TypeOK, Waiting, NoIdleWaiter, NoForgottenWaiter, ToSet
  <1>9. CASE WakeUpAll
    <2>1. TypeOK'
      BY <1>9 DEF WakeUpAll, TypeOK, history
    <2>2. Waiting'
      BY <1>9 DEF WakeUpAll, TypeOK, Waiting, ToSet
    <2>3. NoIdleWaiter' /\ NoForgottenWaiter'
      BY <1>9 DEF WakeUpAll, TypeOK, NoIdleWaiter, NoForgottenWaiter, ToSet
    <2>4. QED
      BY <2>1, <2>2, <2>3
  <1>10. CASE Clear
    BY <1>10 DEF Clear, TypeOK, Waiting, NoIdleWaiter, NoForgottenWaiter, ToSet
  <1>11. CASE UNCHANGED vars
    BY <1>11 DEF vars, TypeOK, Waiting, NoIdleWaiter, NoForgottenWaiter
  <1>12. QED
    BY <1>1, <1>2, <1>3, <1>4, <1>5, <1>6, <1>7, <1>8, <1>9, <1>10, <1>11 DEF Next, Thread

\* The variables keep their types in every behaviour.
THEOREM TypeCorrect == Spec => []TypeOK
  <1>1. WaitInv => TypeOK
    BY DEF WaitInv
  <1>2. QED
    BY InitWaitInv, NextWaitInv, <1>1, PTL DEF Spec

\* A thread never waits while a notification lies in the queue, however
\* posting, waiting, timing out and waking up interleave.
THEOREM NoIdleWaiterHolds == Spec => []NoIdleWaiter
  <1>1. WaitInv => NoIdleWaiter
    BY DEF WaitInv
  <1>2. QED
    BY InitWaitInv, NextWaitInv, <1>1, PTL DEF Spec

\* Whoever takes a WaitInfo off the wait queue has set its event: no thread is
\* left blocked with nobody to wake it.
THEOREM NoForgottenWaiterHolds == Spec => []NoForgottenWaiter
  <1>1. WaitInv => NoForgottenWaiter
    BY DEF WaitInv
  <1>2. QED
    BY InitWaitInv, NextWaitInv, <1>1, PTL DEF Spec

-----------------------------------------------------------------------------
(* Exactly once. *)

OwnerInv == WaitInv /\ OneOwner /\ SomeOwner

\* A notification that was never posted is nowhere.
LEMMA Fresh ==
    ASSUME OwnerInv, NEW n \in Notifications, ~Posted(n)
    PROVE  /\ \A i \in DOMAIN nfQueue : nfQueue[i] # n
           /\ n \notin cleared
           /\ \A t \in Threads : pNf[t] # n /\ n \notin received[t]
  BY DEF OwnerInv, SomeOwner, ToSet

\* Handing a fresh notification to a waiter gives it that one owner.
LEMMA HandOverOwner ==
    ASSUME OwnerInv, NEW n \in Notifications, Stamp(n), HandOver(n),
           UNCHANGED <<received, cleared>>
    PROVE  OneOwner' /\ SomeOwner'
  <1> DEFINE t == Head(waitQueue)
  <1>1. t \in Threads /\ pNf[t] = NoNf /\ waitQueue # <<>>
    <2>1. t \in Threads /\ t = waitQueue[1] /\ 1 \in DOMAIN waitQueue
      BY TailFacts DEF HandOver, OwnerInv, WaitInv, TypeOK
    <2>2. QED
      BY <2>1 DEF OwnerInv, WaitInv, Waiting, HandOver
  <1>2. pNf' = [pNf EXCEPT ![t] = n] /\ nfQueue' = nfQueue
    BY DEF HandOver
  <1> HIDE DEF t
  <1>3. pNf \in [Threads -> Notifications \cup {NoNf}] /\ received \in [Threads -> SUBSET Notifications]
    BY DEF OwnerInv, WaitInv, TypeOK
  <1>4. /\ \A i \in DOMAIN nfQueue : nfQueue[i] # n
        /\ n \notin cleared
        /\ \A s \in Threads : pNf[s] # n /\ n \notin received[s]
    BY Fresh DEF Stamp
  <1>5. OneOwner'
    BY <1>1, <1>2, <1>3, <1>4 DEF OneOwner, OwnerInv
  <1>6. SomeOwner'
    <2> SUFFICES ASSUME NEW m \in Notifications
                 PROVE  Posted(m)' <=> \/ m \in ToSet(nfQueue')
                                       \/ m \in cleared'
                                       \/ \E s \in Threads : pNf'[s] = m \/ m \in received'[s]
      BY DEF SomeOwner
    <2>1. Posted(m)' <=> Posted(m) \/ m = n
      BY DEF Stamp, Posted, OwnerInv, WaitInv, TypeOK
    <2>2. m # n => ((\E s \in Threads : pNf'[s] = m \/ m \in received'[s])
                        <=> (\E s \in Threads : pNf[s] = m \/ m \in received[s]))
      BY <1>1, <1>2, <1>3, NoNfAssumption
    <2>3. m = n => \E s \in Threads : pNf'[s] = m
      BY <1>1, <1>2, <1>3
    <2>4. QED
      BY <2>1, <2>2, <2>3, <1>2 DEF SomeOwner, OwnerInv
  <1>7. QED
    BY <1>5, <1>6

\* Queueing a fresh notification, at either end, gives it that one owner.
LEMMA QueueOwner ==
    ASSUME OwnerInv, NEW n \in Notifications, Stamp(n),
           nfQueue' = Append(nfQueue, n) \/ nfQueue' = <<n>> \o nfQueue,
           UNCHANGED <<pNf, received, cleared>>
    PROVE  OneOwner' /\ SomeOwner'
  <1>1. nfQueue \in Seq(Notifications)
    BY DEF OwnerInv, WaitInv, TypeOK
  <1>2. /\ \A i \in DOMAIN nfQueue : nfQueue[i] # n
        /\ n \notin cleared
        /\ \A s \in Threads : pNf[s] # n /\ n \notin received[s]
    BY Fresh DEF Stamp
  <1>3. /\ \A i \in DOMAIN nfQueue' : nfQueue'[i] = n \/ nfQueue'[i] \in ToSet(nfQueue)
        /\ n \in ToSet(nfQueue')
        /\ \A m \in ToSet(nfQueue) : m \in ToSet(nfQueue')
    <2>1. CASE nfQueue' = Append(nfQueue, n)
      BY <1>1, <2>1 DEF ToSet
    <2>2. CASE nfQueue' = <<n>> \o nfQueue
      <3>1. /\ 1 \in DOMAIN nfQueue' /\ nfQueue'[1] = n
            /\ \A i \in DOMAIN nfQueue : i + 1 \in DOMAIN nfQueue' /\ nfQueue'[i + 1] = nfQueue[i]
            /\ \A i \in DOMAIN nfQueue' :
                  i = 1 \/ (i - 1 \in DOMAIN nfQueue /\ nfQueue'[i] = nfQueue[i - 1])
        BY <1>1, <2>2, PushFacts
      <3>2. \A i \in DOMAIN nfQueue : nfQueue[i] \in ToSet(nfQueue')
        BY <3>1 DEF ToSet
      <3>3. \A i \in DOMAIN nfQueue' : nfQueue'[i] = n \/ nfQueue'[i] \in ToSet(nfQueue)
        BY <3>1 DEF ToSet
      <3>4. QED
        BY <3>1, <3>2, <3>3 DEF ToSet
    <2>3. QED
      BY <2>1, <2>2
  <1>4. \A i, j \in DOMAIN nfQueue' : nfQueue'[i] = nfQueue'[j] => i = j
    <2>1. CASE nfQueue' = Append(nfQueue, n)
      BY <1>1, <1>2, <2>1 DEF OneOwner, OwnerInv
    <2>2. CASE nfQueue' = <<n>> \o nfQueue
      <3>1. \A i \in DOMAIN nfQueue' : /\ i \in Nat
                                       /\ \/ i = 1 /\ nfQueue'[i] = n
                                          \/ i - 1 \in DOMAIN nfQueue /\ nfQueue'[i] = nfQueue[i - 1]
        BY <1>1, <2>2, PushFacts
      <3>2. QED
        BY <3>1, <1>2 DEF OneOwner, OwnerInv
    <2>3. QED
      BY <2>1, <2>2
  <1>5. OneOwner'
    BY <1>2, <1>3, <1>4 DEF OneOwner, OwnerInv, ToSet
  <1>6. SomeOwner'
    <2>1. \A m \in Notifications : Posted(m)' <=> Posted(m) \/ m = n
      BY DEF Stamp, Posted, OwnerInv, WaitInv, TypeOK
    <2>2. \A m \in Notifications : m \in ToSet(nfQueue') <=> m \in ToSet(nfQueue) \/ m = n
      BY <1>3 DEF ToSet
    <2>3. QED
      BY <2>1, <2>2 DEF SomeOwner, OwnerInv
  <1>7. QED
    BY <1>5, <1>6

\* Every step preserves that each posted notification has exactly one owner.
LEMMA NextOwnerInv == OwnerInv /\ [Next]_vars => OwnerInv'
  <1> SUFFICES ASSUME OwnerInv, [Next]_vars
               PROVE  OneOwner' /\ SomeOwner'
    BY NextWaitInv DEF OwnerInv
  <1>0. /\ nfQueue \in Seq(Notifications)
        /\ pNf \in [Threads -> Notifications \cup {NoNf}]
        /\ received \in [Threads -> SUBSET Notifications]
        /\ ticket \in [Notifications -> Nat]
    BY DEF OwnerInv, WaitInv, TypeOK
  <1>1. ASSUME NEW n \in Notifications, EnqueueNotification(n)
        PROVE  OneOwner' /\ SomeOwner'
    BY <1>1, HandOverOwner, QueueOwner DEF EnqueueNotification
  <1>2. ASSUME NEW n \in Notifications, EnqueueUrgentNotification(n)
        PROVE  OneOwner' /\ SomeOwner'
    BY <1>2, HandOverOwner, QueueOwner DEF EnqueueUrgentNotification
  <1>3. ASSUME NEW t \in Threads, DequeueNotification(t)
        PROVE  OneOwner' /\ SomeOwner'
    <2>1. /\ Head(nfQueue) = nfQueue[1] /\ 1 \in DOMAIN nfQueue
          /\ \A i \in DOMAIN nfQueue' : i + 1 \in DOMAIN nfQueue /\ nfQueue'[i] = nfQueue[i + 1] /\ i \in Nat /\ i # 0
          /\ \A i \in DOMAIN nfQueue : i = 1 \/ (i - 1 \in DOMAIN nfQueue' /\ nfQueue[i] = nfQueue'[i - 1])
      BY <1>0, <1>3, TailFacts DEF DequeueNotification, DequeueOne
    <2>2. /\ \A s \in Threads : \A m : m \in received'[s] <=> m \in received[s] \/ (s = t /\ m = nfQueue[1])
          /\ pNf' = pNf /\ cleared' = cleared /\ ticket' = ticket
      BY <1>0, <1>3, <2>1 DEF DequeueNotification, DequeueOne
    <2>3. \A i \in DOMAIN nfQueue' : nfQueue'[i] # nfQueue[1]
      BY <2>1 DEF OneOwner, OwnerInv
    <2>4. \A i, j \in DOMAIN nfQueue' : nfQueue'[i] = nfQueue'[j] => i = j
      BY <2>1 DEF OneOwner, OwnerInv
    <2>5. \A i \in DOMAIN nfQueue' : /\ nfQueue'[i] \notin cleared'
                                     /\ \A s \in Threads : nfQueue'[i] # pNf'[s] /\ nfQueue'[i] \notin received'[s]
      BY <2>1, <2>2, <2>3 DEF OneOwner, OwnerInv
    <2>6. \A s, u \in Threads : /\ pNf'[s] = pNf'[u] /\ pNf'[s] # NoNf => s = u
                                /\ pNf'[s] \notin received'[u]
      BY <2>1, <2>2 DEF OneOwner, OwnerInv
    <2>7. \A s, u \in Threads, m \in Notifications : m \in received'[s] /\ m \in received'[u] => s = u
      BY <2>1, <2>2 DEF OneOwner, OwnerInv
    <2>8. \A s \in Threads, m \in cleared' : pNf'[s] # m /\ m \notin received'[s]
      BY <2>1, <2>2 DEF OneOwner, OwnerInv
    <2>9. \A m \in Notifications : m \in ToSet(nfQueue) <=> m \in ToSet(nfQueue') \/ m = nfQueue[1]
      BY <2>1 DEF ToSet
    <2>10. SomeOwner'
      BY <2>2, <2>9, <1>3 DEF SomeOwner, OwnerInv, Posted
    <2>11. QED
      BY <2>4, <2>5, <2>6, <2>7, <2>8, <2>10 DEF OneOwner
  <1>4. ASSUME NEW t \in Threads, NEW how \in {"waiting", "timedWait"}, BeginWait(t, how)
        PROVE  OneOwner' /\ SomeOwner'
    <2>1. pNf' = pNf
      BY <1>0, <1>4 DEF BeginWait, OwnerInv, WaitInv, Waiting
    <2>2. QED
      BY <1>4, <2>1 DEF BeginWait, history, OneOwner, SomeOwner, OwnerInv, Posted
  <1>5. ASSUME NEW t \in Threads, ReturnSlot(t)
        PROVE  OneOwner' /\ SomeOwner'
    <2>1. /\ \A s \in Threads : pNf'[s] = IF s = t THEN NoNf ELSE pNf[s]
          /\ \A s \in Threads : \A m :
                m \in received'[s] <=> m \in received[s] \/ (s = t /\ m = pNf[t] /\ m # NoNf)
          /\ nfQueue' = nfQueue /\ cleared' = cleared /\ ticket' = ticket
      BY <1>0, <1>5 DEF ReturnSlot
    <2>2. \A s \in Threads : NoNf \notin received[s]
      BY <1>0, NoNfAssumption
    <2>3. cleared \subseteq Notifications
      BY DEF OwnerInv, WaitInv, TypeOK
    <2>4. \A i \in DOMAIN nfQueue : nfQueue[i] # NoNf
      BY <1>0, NoNfAssumption, ElementOfSeq, LenProperties
    <2>5. OneOwner'
      BY <2>1, <2>2, <2>3, <2>4, NoNfAssumption DEF OneOwner, OwnerInv
    <2>6. \A m \in Notifications :
             (\E s \in Threads : pNf'[s] = m \/ m \in received'[s])
                 <=> (\E s \in Threads : pNf[s] = m \/ m \in received[s])
      BY <2>1, NoNfAssumption
    <2>7. SomeOwner'
      BY <2>1, <2>6 DEF SomeOwner, OwnerInv, Posted
    <2>8. QED
      BY <2>5, <2>7
  <1>6. ASSUME NEW t \in Threads, WaitTimesOut(t)
        PROVE  OneOwner' /\ SomeOwner'
    BY <1>6 DEF WaitTimesOut, history, OneOwner, SomeOwner, OwnerInv, Posted
  <1>7. ASSUME NEW t \in Threads, Dispatch(t)
        PROVE  OneOwner' /\ SomeOwner'
    <2>1. /\ \A s \in Threads : \A m :
                m \in received'[s] <=> m \in received[s] \/ (s = t /\ m \in ToSet(nfQueue))
          /\ nfQueue' = <<>> /\ pNf' = pNf /\ cleared' = cleared /\ ticket' = ticket
      BY <1>0, <1>7 DEF Dispatch
    <2>2. OneOwner'
      BY <2>1 DEF OneOwner, OwnerInv, ToSet
    <2>3. SomeOwner'
      BY <2>1, <1>7 DEF SomeOwner, OwnerInv, Posted, ToSet
    <2>4. QED
      BY <2>2, <2>3
  <1>8. CASE WakeUpAll
    BY <1>8 DEF WakeUpAll, history, OneOwner, SomeOwner, OwnerInv, Posted
  <1>9. CASE Clear
    <2>1. OneOwner'
      BY <1>9 DEF Clear, OneOwner, OwnerInv, ToSet
    <2>2. SomeOwner'
      BY <1>9 DEF Clear, SomeOwner, OwnerInv, Posted, ToSet
    <2>3. QED
      BY <2>1, <2>2
  <1>10. CASE UNCHANGED vars
    BY <1>10 DEF vars, OneOwner, SomeOwner, OwnerInv, Posted
  <1>11. QED
    BY <1>1, <1>2, <1>3, <1>4, <1>5, <1>6, <1>7, <1>8, <1>9, <1>10
       DEF Next, Thread, FinishWait, Withdraw

\* The pairwise form used in the induction gives the form with places.
LEMMA OwnerGivesExactlyOnce == OwnerInv => ExactlyOnce
  <1> SUFFICES ASSUME OwnerInv, NEW n \in Notifications
               PROVE  IF Posted(n) THEN \E p \in Places(n) : Places(n) = {p} ELSE Places(n) = {}
    BY DEF ExactlyOnce
  <1> USE DEF OwnerInv, Places, InQueue, InSlot, InHands, InTrash
  <1>1. n # NoNf
    BY NoNfAssumption
  <1>2. CASE ~Posted(n)
    BY <1>2, Fresh
  <1>3. CASE Posted(n)
    <2>1. CASE n \in ToSet(nfQueue)
      <3>1. PICK i \in DOMAIN nfQueue : nfQueue[i] = n
        BY <2>1 DEF ToSet
      <3>2. Places(n) = {<<"queue", i>>}
        BY <3>1 DEF OneOwner
      <3>3. QED
        BY <3>2, <1>3
    <2>2. CASE n \in cleared
      <3>1. Places(n) = {<<"trash", 0>>}
        BY <2>2 DEF OneOwner
      <3>2. QED
        BY <3>1, <1>3
    <2>3. CASE \E t \in Threads : pNf[t] = n
      <3>1. PICK t \in Threads : pNf[t] = n
        BY <2>3
      <3>2. Places(n) = {<<"slot", t>>}
        BY <3>1, <1>1 DEF OneOwner
      <3>3. QED
        BY <3>2, <1>3
    <2>4. CASE \E t \in Threads : n \in received[t]
      <3>1. PICK t \in Threads : n \in received[t]
        BY <2>4
      <3>2. Places(n) = {<<"hands", t>>}
        BY <3>1 DEF OneOwner
      <3>3. QED
        BY <3>2, <1>3
    <2>5. QED
      BY <2>1, <2>2, <2>3, <2>4, <1>3 DEF SomeOwner
  <1>4. QED
    BY <1>2, <1>3

\* In the initial state nothing is posted and nothing is anywhere.
LEMMA InitOwnerInv == Init => OwnerInv
  <1> SUFFICES ASSUME Init PROVE OneOwner /\ SomeOwner
    BY InitWaitInv DEF OwnerInv
  <1>1. OneOwner
    BY DEF Init, OneOwner
  <1>2. SomeOwner
    BY NoNfAssumption DEF Init, SomeOwner, Posted, ToSet
  <1>3. QED
    BY <1>1, <1>2

\* No notification is lost or delivered twice, whatever posting, hand-over,
\* time-outs, wake-ups, dispatch and clear do to one another.
THEOREM ExactlyOnceHolds == Spec => []ExactlyOnce
  BY InitOwnerInv, NextOwnerInv, OwnerGivesExactlyOnce, PTL DEF Spec

-----------------------------------------------------------------------------
(* The order of service. *)

OrderInv == OwnerInv /\ Ordered

\* A posting that goes to a waiter overtakes nothing: the queue is empty.
LEMMA HandOverOrder ==
    ASSUME OrderInv, NEW n \in Notifications, Stamp(n), HandOver(n)
    PROVE  /\ nfQueue' = <<>>
           /\ \A m \in Notifications : ticket'[m] <= clock'
           /\ \A m \in urgent \cup {n} : Posted(m)'
  <1>1. nfQueue' = <<>>
    BY DEF OrderInv, OwnerInv, WaitInv, NoIdleWaiter, HandOver
  <1>2. \A m \in Notifications : ticket'[m] <= clock'
    BY DEF OrderInv, OwnerInv, WaitInv, TypeOK, Ordered, Stamp
  <1>3. \A m \in urgent \cup {n} : Posted(m)'
    BY DEF OrderInv, OwnerInv, WaitInv, TypeOK, Ordered, Stamp, Posted
  <1>4. QED
    BY <1>1, <1>2, <1>3

\* An empty queue is in order.
LEMMA EmptyOrdered ==
    ASSUME nfQueue' = <<>>, \A m \in Notifications : ticket'[m] <= clock',
           \A m \in urgent' : Posted(m)'
    PROVE  Ordered'
  BY DEF Ordered, UrgentFirst, Fifo, ToSet

\* Steps that touch neither the queue nor the history of posting keep it in
\* order; so do those that only discard or only shorten the set of claims.
LEMMA SameOrdered ==
    ASSUME Ordered, UNCHANGED <<nfQueue, clock, ticket, urgent, cleared>>
    PROVE  Ordered'
  BY DEF Ordered, UrgentFirst, Fifo, Claimed, Posted

\* Every step keeps the queue ordered and serves it in order.
LEMMA NextOrderInv == OrderInv /\ [Next]_vars => OrderInv'
  <1> SUFFICES ASSUME OrderInv, [Next]_vars
               PROVE  Ordered'
    BY NextOwnerInv DEF OrderInv
  <1>0. /\ nfQueue \in Seq(Notifications)
        /\ ticket \in [Notifications -> Nat] /\ clock \in Nat
        /\ Ordered /\ OwnerInv /\ urgent \subseteq Notifications
        /\ \A i \in DOMAIN nfQueue : nfQueue[i] \in Notifications /\ i \in Nat /\ i > 0
    <2>1. /\ nfQueue \in Seq(Notifications) /\ ticket \in [Notifications -> Nat]
          /\ clock \in Nat /\ urgent \subseteq Notifications
      BY DEF OrderInv, OwnerInv, WaitInv, TypeOK
    <2>2. \A i \in DOMAIN nfQueue : nfQueue[i] \in Notifications /\ i \in Nat /\ i > 0
      BY <2>1, ElementOfSeq, LenProperties
    <2>3. QED
      BY <2>1, <2>2 DEF OrderInv
  <1>1. ASSUME NEW n \in Notifications, Stamp(n), HandOver(n), urgent' \subseteq urgent \cup {n}
        PROVE  Ordered'
    BY <1>1, HandOverOrder, EmptyOrdered
  <1>2. ASSUME NEW n \in Notifications, Stamp(n), nfQueue' = Append(nfQueue, n),
               UNCHANGED <<urgent, cleared>>
        PROVE  Ordered'
    <2>1. /\ \A i \in DOMAIN nfQueue : nfQueue[i] # n
          /\ n \notin cleared
      BY <1>2, Fresh DEF Stamp, OrderInv
    <2>2. /\ \A i \in DOMAIN nfQueue' :
                \/ i = Len(nfQueue) + 1 /\ nfQueue'[i] = n
                \/ i \in DOMAIN nfQueue /\ i < Len(nfQueue) + 1 /\ nfQueue'[i] = nfQueue[i]
          /\ Len(nfQueue) \in Nat
          /\ \A i \in DOMAIN nfQueue : i \in DOMAIN nfQueue' /\ nfQueue'[i] = nfQueue[i]
          /\ Len(nfQueue) + 1 \in DOMAIN nfQueue' /\ nfQueue'[Len(nfQueue) + 1] = n
      BY <1>0, <1>2
    <2>9. \A m : m \in ToSet(nfQueue') <=> m \in ToSet(nfQueue) \/ m = n
      BY <2>2 DEF ToSet
    <2>3. /\ \A m \in Notifications : m # n => ticket'[m] = ticket[m]
          /\ ticket'[n] = clock + 1 /\ clock' = clock + 1
          /\ \A m \in Notifications : ticket[m] <= clock
          /\ ~Posted(n)
      BY <1>0, <1>2 DEF Stamp, Ordered
    <2>4. \A i, j \in DOMAIN nfQueue' :
             i < j /\ nfQueue'[i] \notin urgent /\ nfQueue'[j] \notin urgent
                => ticket'[nfQueue'[i]] < ticket'[nfQueue'[j]]
      BY <1>0, <2>1, <2>2, <2>3 DEF Ordered
    <2>5. n \notin urgent
      BY <1>0, <2>3 DEF Ordered
    <2>6. UrgentFirst'
      BY <1>0, <1>2, <2>1, <2>2, <2>3, <2>5 DEF Ordered, UrgentFirst
    <2>7. Fifo'
      BY <1>0, <1>2, <2>1, <2>3, <2>9 DEF Ordered, Fifo, Claimed, Posted
    <2>8. \A m \in urgent' : Posted(m)'
      BY <1>0, <1>2, <2>3, <2>5 DEF Ordered, Posted
    <2>10. \A m \in Notifications : ticket'[m] <= clock'
      BY <1>0, <2>3
    <2>11. QED
      BY <1>2, <2>4, <2>6, <2>7, <2>8, <2>10 DEF Ordered
  <1>3. ASSUME NEW n \in Notifications, Stamp(n), nfQueue' = <<n>> \o nfQueue,
               urgent' = urgent \cup {n}, cleared' = cleared
        PROVE  Ordered'
    <2>1. /\ \A i \in DOMAIN nfQueue : nfQueue[i] # n
          /\ n \notin cleared
      BY <1>3, Fresh DEF Stamp, OrderInv
    <2>2. /\ \A i \in DOMAIN nfQueue' :
                \/ i = 1 /\ nfQueue'[i] = n
                \/ i > 1 /\ i - 1 \in DOMAIN nfQueue /\ nfQueue'[i] = nfQueue[i - 1]
          /\ DOMAIN nfQueue' \subseteq Nat
          /\ 1 \in DOMAIN nfQueue' /\ nfQueue'[1] = n
          /\ \A i \in DOMAIN nfQueue : i + 1 \in DOMAIN nfQueue' /\ nfQueue'[i + 1] = nfQueue[i]
      BY <1>0, <1>3, PushFacts
    <2>3. /\ \A m \in Notifications : m # n => ticket'[m] = ticket[m]
          /\ ticket'[n] = clock + 1 /\ clock' = clock + 1
          /\ \A m \in Notifications : ticket[m] <= clock
          /\ ~Posted(n)
      BY <1>0, <1>3 DEF Stamp, Ordered
    <2>4. \A i, j \in DOMAIN nfQueue' :
             i < j /\ nfQueue'[i] \notin urgent' /\ nfQueue'[j] \notin urgent'
                => ticket'[nfQueue'[i]] < ticket'[nfQueue'[j]]
      <3> SUFFICES ASSUME NEW i \in DOMAIN nfQueue', NEW j \in DOMAIN nfQueue', i < j,
                          nfQueue'[i] \notin urgent', nfQueue'[j] \notin urgent'
                   PROVE  ticket'[nfQueue'[i]] < ticket'[nfQueue'[j]]
        OBVIOUS
      <3>1. i # 1 /\ j # 1
        BY <1>3, <2>2
      <3>2. /\ i - 1 \in DOMAIN nfQueue /\ nfQueue'[i] = nfQueue[i - 1]
            /\ j - 1 \in DOMAIN nfQueue /\ nfQueue'[j] = nfQueue[j - 1]
            /\ i - 1 < j - 1
        BY <3>1, <2>2
      <3>3. QED
        BY <1>0, <1>3, <2>1, <2>3, <3>2 DEF Ordered
    <2>5. UrgentFirst'
      <3> SUFFICES ASSUME NEW i \in DOMAIN nfQueue', NEW j \in DOMAIN nfQueue', i < j,
                          nfQueue'[j] \in urgent'
                   PROVE  /\ nfQueue'[i] \in urgent'
                          /\ ticket'[nfQueue'[i]] > ticket'[nfQueue'[j]]
        BY DEF UrgentFirst
      <3>1. j - 1 \in DOMAIN nfQueue /\ nfQueue'[j] = nfQueue[j - 1] /\ nfQueue[j - 1] \in urgent
        BY <1>0, <1>3, <2>1, <2>2
      <3>2. CASE i = 1
        BY <1>0, <1>3, <2>1, <2>2, <2>3, <3>1, <3>2
      <3>3. CASE i # 1
        <4>1. i - 1 \in DOMAIN nfQueue /\ nfQueue'[i] = nfQueue[i - 1] /\ i - 1 < j - 1
          BY <2>2, <3>3
        <4>2. QED
          BY <1>0, <1>3, <2>1, <2>3, <3>1, <4>1 DEF Ordered, UrgentFirst
      <3>4. QED
        BY <3>2, <3>3
    <2>6. \A m : m \in ToSet(nfQueue') <=> m \in ToSet(nfQueue) \/ m = n
      <3>1. \A i \in DOMAIN nfQueue : nfQueue[i] \in ToSet(nfQueue')
        BY <2>2 DEF ToSet
      <3>2. \A i \in DOMAIN nfQueue' : nfQueue'[i] = n \/ nfQueue'[i] \in ToSet(nfQueue)
        BY <2>2 DEF ToSet
      <3>3. QED
        BY <2>2, <3>1, <3>2 DEF ToSet
    <2>7. Fifo'
      BY <1>0, <1>3, <2>1, <2>3, <2>6 DEF Ordered, Fifo, Claimed, Posted
    <2>8. \A m \in urgent' : Posted(m)'
      BY <1>0, <1>3, <2>3 DEF Ordered, Posted
    <2>9. \A m \in Notifications : ticket'[m] <= clock'
      BY <1>0, <2>3
    <2>10. QED
      BY <2>4, <2>5, <2>7, <2>8, <2>9 DEF Ordered
  <1>4. ASSUME NEW t \in Threads, DequeueNotification(t)
        PROVE  Ordered'
    <2>1. /\ Head(nfQueue) = nfQueue[1] /\ 1 \in DOMAIN nfQueue
          /\ \A i \in DOMAIN nfQueue' : i + 1 \in DOMAIN nfQueue /\ nfQueue'[i] = nfQueue[i + 1] /\ i \in Nat /\ i > 0
          /\ \A i \in DOMAIN nfQueue : i = 1 \/ (i - 1 \in DOMAIN nfQueue' /\ nfQueue[i] = nfQueue'[i - 1])
      BY <1>0, <1>4, TailFacts DEF DequeueNotification, DequeueOne
    <2>2. UNCHANGED <<clock, ticket, urgent, cleared>>
      BY <1>4 DEF DequeueNotification
    <2>3. /\ \A i, j \in DOMAIN nfQueue' :
                i < j /\ nfQueue'[i] \notin urgent /\ nfQueue'[j] \notin urgent
                    => ticket[nfQueue'[i]] < ticket[nfQueue'[j]]
          /\ UrgentFirst'
      <3>1. ASSUME NEW i \in DOMAIN nfQueue', NEW j \in DOMAIN nfQueue', i < j
            PROVE  /\ i + 1 \in DOMAIN nfQueue /\ nfQueue'[i] = nfQueue[i + 1]
                   /\ j + 1 \in DOMAIN nfQueue /\ nfQueue'[j] = nfQueue[j + 1]
                   /\ i + 1 < j + 1
        BY <2>1, <3>1
      <3>2. \A i, j \in DOMAIN nfQueue' :
               i < j /\ nfQueue'[i] \notin urgent /\ nfQueue'[j] \notin urgent
                    => ticket[nfQueue'[i]] < ticket[nfQueue'[j]]
        BY <1>0, <3>1 DEF Ordered
      <3>3. UrgentFirst'
        BY <1>0, <2>2, <3>1 DEF Ordered, UrgentFirst
      <3>4. QED
        BY <3>2, <3>3
    <2>4. \A m : m \in ToSet(nfQueue) <=> m \in ToSet(nfQueue') \/ m = nfQueue[1]
      BY <2>1 DEF ToSet
    <2>5. \A m \in Notifications \ urgent :
             m \in ToSet(nfQueue') /\ nfQueue[1] \notin urgent => ticket[nfQueue[1]] < ticket[m]
      <3> SUFFICES ASSUME NEW i \in DOMAIN nfQueue', nfQueue'[i] \notin urgent, nfQueue[1] \notin urgent
                   PROVE  ticket[nfQueue[1]] < ticket[nfQueue'[i]]
        BY DEF ToSet
      <3>1. i + 1 \in DOMAIN nfQueue /\ nfQueue'[i] = nfQueue[i + 1] /\ 1 < i + 1
        BY <2>1
      <3>2. QED
        BY <1>0, <2>1, <3>1 DEF Ordered
    <2>6. Fifo'
      BY <1>0, <2>1, <2>2, <2>4, <2>5 DEF Ordered, Fifo, Claimed, Posted
    <2>7. QED
      BY <1>0, <2>2, <2>3, <2>6 DEF Ordered, Posted
  <1>5. ASSUME nfQueue' = <<>>, UNCHANGED <<clock, ticket, urgent>>
        PROVE  Ordered'
    BY <1>0, <1>5, EmptyOrdered DEF Ordered, Posted
  <1>6. ASSUME NEW t \in Threads, Thread(t)
        PROVE  Ordered'
    <2>1. \A how : BeginWait(t, how) => Ordered'
      BY <1>0, SameOrdered DEF BeginWait, history
    <2>2. FinishWait(t) \/ Withdraw(t) => Ordered'
      <3>1. FinishWait(t) => ReturnSlot(t) /\ cleared' = cleared
        BY DEF FinishWait, ReturnSlot
      <3>2. Withdraw(t) => ReturnSlot(t)
        BY DEF Withdraw
      <3>3. ReturnSlot(t) => Ordered'
        BY <1>0, SameOrdered DEF ReturnSlot
      <3>4. QED
        BY <3>1, <3>2, <3>3
    <2>3. WaitTimesOut(t) => Ordered'
      BY <1>0, SameOrdered DEF WaitTimesOut, history
    <2>4. Dispatch(t) => Ordered'
      BY <1>5 DEF Dispatch
    <2>5. QED
      BY <1>4, <1>6, <2>1, <2>2, <2>3, <2>4 DEF Thread
  <1>7. CASE WakeUpAll
    BY <1>0, <1>7, SameOrdered DEF WakeUpAll, history
  <1>8. CASE Clear
    BY <1>5, <1>8 DEF Clear
  <1>9. CASE UNCHANGED vars
    BY <1>0, <1>9, SameOrdered DEF vars
  <1>10. QED
    BY <1>1, <1>2, <1>3, <1>6, <1>7, <1>8, <1>9
       DEF Next, EnqueueNotification, EnqueueUrgentNotification

\* Initially the queue is empty and nothing has a ticket.
LEMMA InitOrderInv == Init => OrderInv
  <1>1. Init => Ordered
    BY DEF Init, Ordered, UrgentFirst, Fifo, ToSet
  <1>2. QED
    BY <1>1, InitOwnerInv DEF OrderInv

\* Notifications posted without urgency are claimed in the order of posting.
THEOREM FifoHolds == Spec => []Fifo
  <1>1. OrderInv => Fifo
    BY DEF OrderInv, Ordered
  <1>2. QED
    BY InitOrderInv, NextOrderInv, <1>1, PTL DEF Spec

\* Urgent notifications stand before all others, the latest one first.
THEOREM UrgentFirstHolds == Spec => []UrgentFirst
  <1>1. OrderInv => UrgentFirst
    BY DEF OrderInv, Ordered
  <1>2. QED
    BY InitOrderInv, NextOrderInv, <1>1, PTL DEF Spec

-----------------------------------------------------------------------------
(* The queue implements the mailbox. *)

\* Handing a notification to a waiter sets it aside in an empty mailbox.
LEMMA HandOverSetsAside ==
    ASSUME OwnerInv, NEW n \in Notifications, HandOver(n), received' = received
    PROVE  \E t \in Threads : M!SetAside(n, t)
  <1>1. /\ Head(waitQueue) \in Threads /\ Head(waitQueue) = waitQueue[1]
        /\ 1 \in DOMAIN waitQueue
    BY TailFacts DEF HandOver, OwnerInv, WaitInv, TypeOK
  <1>2. nfQueue = <<>> /\ pNf[Head(waitQueue)] = NoNf
    BY <1>1 DEF HandOver, OwnerInv, WaitInv, NoIdleWaiter, Waiting
  <1>3. M!SetAside(n, Head(waitQueue))
    BY <1>2 DEF HandOver, M!SetAside
  <1>4. QED
    BY <1>1, <1>3

\* A notification without a ticket is new to the mailbox.
LEMMA FreshIsNew ==
    ASSUME OwnerInv, NEW n \in Notifications, ~Posted(n)
    PROVE  M!New(n)
  BY Fresh DEF M!New, M!ToSet

\* Returning a slot takes what was set aside, or is invisible when the thread
\* comes back without a notification.
LEMMA ReturnTakesAside ==
    ASSUME OwnerInv, NEW t \in Threads, ReturnSlot(t)
    PROVE  M!TakeAside(t) \/ UNCHANGED M!mailbox
  <1>1. CASE pNf[t] # NoNf
    BY <1>1 DEF ReturnSlot, M!TakeAside
  <1>2. CASE pNf[t] = NoNf
    <2>1. pNf' = pNf /\ received' = received /\ nfQueue' = nfQueue
      BY <1>2 DEF ReturnSlot, OwnerInv, WaitInv, TypeOK
    <2>2. QED
      BY <2>1 DEF M!mailbox
  <1>3. QED
    BY <1>1, <1>2

\* Every step of the queue is a step of the mailbox or leaves it unchanged.
LEMMA NextMailbox == OwnerInv /\ [Next]_vars => [M!Next]_M!mailbox
  <1> SUFFICES ASSUME OwnerInv, [Next]_vars
               PROVE  M!Next \/ UNCHANGED M!mailbox
    OBVIOUS
  <1>1. ASSUME NEW n \in Notifications, Stamp(n), HandOver(n), received' = received
        PROVE  M!Next
    BY <1>1, HandOverSetsAside, FreshIsNew DEF M!Next, Stamp
  <1>2. ASSUME NEW n \in Notifications, Stamp(n), UNCHANGED <<pNf, received>>,
               nfQueue' = Append(nfQueue, n) \/ nfQueue' = <<n>> \o nfQueue
        PROVE  M!Next
    BY <1>2, FreshIsNew DEF M!Next, M!Put, Stamp
  <1>3. ASSUME NEW t \in Threads, DequeueNotification(t)
        PROVE  M!Next
    BY <1>3 DEF DequeueNotification, DequeueOne, M!Next, M!TakeFirst
  <1>4. ASSUME NEW t \in Threads, NEW how, BeginWait(t, how)
        PROVE  UNCHANGED M!mailbox
    BY <1>4 DEF BeginWait, history, M!mailbox, OwnerInv, WaitInv, Waiting, TypeOK
  <1>5. ASSUME NEW t \in Threads, ReturnSlot(t)
        PROVE  M!Next \/ UNCHANGED M!mailbox
    BY <1>5, ReturnTakesAside DEF M!Next
  <1>6. ASSUME NEW t \in Threads, Dispatch(t)
        PROVE  M!Next
    <2>1. M!TakeAll(t)
      BY <1>6 DEF Dispatch, M!TakeAll, ToSet, M!ToSet
    <2>2. QED
      BY <2>1 DEF M!Next
  <1>7. CASE Clear
    BY <1>7 DEF Clear, M!Next, M!Discard
  <1>8. CASE WakeUpAll \/ UNCHANGED vars \/ \E t \in Threads : WaitTimesOut(t)
    BY <1>8 DEF WakeUpAll, vars, WaitTimesOut, history, M!mailbox
  <1>9. QED
    BY <1>1, <1>2, <1>3, <1>4, <1>5, <1>6, <1>7, <1>8
       DEF Next, Thread, EnqueueNotification, EnqueueUrgentNotification, FinishWait, Withdraw

\* A NotificationQueue is a mailbox: its wait queue, events and time-outs are
\* invisible to the threads that share it.
THEOREM QueueImplementsMailbox == Spec => ImplementsMailbox
  <1>1. Init => M!Init
    BY DEF Init, M!Init
  <1>2. QED
    BY <1>1, InitOwnerInv, NextOwnerInv, NextMailbox, PTL DEF Spec, ImplementsMailbox, M!Spec
=============================================================================
