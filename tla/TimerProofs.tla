----------------------------- MODULE TimerProofs -----------------------------
(***************************************************************************)
(* Proofs about Timer, for any tasks and any number of threads that call   *)
(* cancel().                                                               *)
(***************************************************************************)
EXTENDS Timer, SequenceTheorems, FiniteSetTheorems, TLAPS

\* The entries of a queue.
Elements(q) == {q[i] : i \in DOMAIN q}

\* What inserting an entry does to the queue.
LEMMA InsertFacts ==
    ASSUME NEW S, NEW q \in Seq(S), NEW e \in S, NEW i \in 1..(Len(q) + 1)
    PROVE  /\ InsertAt(q, i, e) \in Seq(S)
           /\ Elements(InsertAt(q, i, e)) = Elements(q) \cup {e}
           /\ InsertAt(q, i, e) # <<>>
  <1> DEFINE front == SubSeq(q, 1, i - 1)
             back == SubSeq(q, i, Len(q))
             r == InsertAt(q, i, e)
  <1>1. Len(q) \in Nat /\ DOMAIN q = 1..Len(q) /\ \A j \in 1..Len(q) : q[j] \in S
    BY LenProperties, ElementOfSeq
  <1>2. front \in Seq(S) /\ Len(front) = i - 1 /\ \A j \in 1..(i - 1) : front[j] = q[j]
    BY <1>1
  <1>3. /\ back \in Seq(S) /\ Len(back) = Len(q) - i + 1
        /\ \A j \in 1..(Len(q) - i + 1) : back[j] = q[i + j - 1]
    BY <1>1
  <1>4. r = front \o <<e>> \o back
    BY DEF InsertAt
  <1> HIDE DEF front, back
  <1>5. /\ front \o <<e>> \in Seq(S) /\ Len(front \o <<e>>) = i
        /\ \A j \in 1..i : (front \o <<e>>)[j] = IF j = i THEN e ELSE q[j]
    BY <1>1, <1>2
  <1>6. /\ r \in Seq(S) /\ Len(r) = Len(q) + 1
        /\ \A j \in 1..(Len(q) + 1) : r[j] = IF j < i THEN q[j] ELSE IF j = i THEN e ELSE q[j - 1]
    <2>1. /\ r \in Seq(S) /\ Len(r) = i + (Len(q) - i + 1)
          /\ \A j \in 1..(i + (Len(q) - i + 1)) :
                r[j] = IF j <= i THEN (front \o <<e>>)[j] ELSE back[j - i]
      BY <1>1, <1>3, <1>4, <1>5, ConcatProperties
    <2> HIDE DEF r
    <2>2. i + (Len(q) - i + 1) = Len(q) + 1
      BY <1>1
    <2>3. ASSUME NEW j \in 1..(Len(q) + 1)
          PROVE  r[j] = IF j < i THEN q[j] ELSE IF j = i THEN e ELSE q[j - 1]
      <3>1. CASE j <= i
        BY <1>1, <1>5, <2>1, <2>2, <3>1
      <3>2. CASE j > i
        <4>1. j - i \in 1..(Len(q) - i + 1) /\ i + (j - i) - 1 = j - 1
          BY <1>1, <3>2
        <4>2. r[j] = back[j - i]
          BY <1>1, <2>1, <2>2, <3>2
        <4>3. QED
          BY <1>1, <1>3, <3>2, <4>1, <4>2
      <3>3. QED
        BY <1>1, <3>1, <3>2
    <2>4. QED
      BY <2>1, <2>2, <2>3
  <1> HIDE DEF r
  <1>7. DOMAIN r = 1..(Len(q) + 1)
    BY <1>6, LenProperties
  <1>8. Elements(r) = Elements(q) \cup {e}
    <2>1. ASSUME NEW x \in Elements(r)
          PROVE  x \in Elements(q) \cup {e}
      BY <1>1, <1>6, <1>7, <2>1 DEF Elements
    <2>2. e \in Elements(r)
      BY <1>1, <1>6, <1>7 DEF Elements
    <2>3. ASSUME NEW x \in Elements(q)
          PROVE  x \in Elements(r)
      <3>1. PICK j \in 1..Len(q) : q[j] = x
        BY <1>1 DEF Elements
      <3>2. CASE j < i
        <4>1. j \in 1..(Len(q) + 1) /\ r[j] = x
          BY <1>1, <1>6, <3>1, <3>2
        <4>2. QED
          BY <1>7, <4>1 DEF Elements
      <3>3. CASE j >= i
        <4>1. j + 1 \in 1..(Len(q) + 1) /\ r[j + 1] = x
          BY <1>1, <1>6, <3>1, <3>3
        <4>2. QED
          BY <1>7, <4>1 DEF Elements
      <3>4. QED
        BY <1>1, <3>2, <3>3
    <2>4. QED
      BY <2>1, <2>2, <2>3
  <1>9. r # <<>>
    BY <1>1, <1>6
  <1>10. QED
    BY <1>6, <1>8, <1>9 DEF r

\* Erasing an entry brings nothing new into the queue.
LEMMA RemoveFacts ==
    ASSUME NEW S, NEW q \in Seq(S), NEW k \in DOMAIN q
    PROVE  RemoveAt(q, k) \in Seq(S) /\ Elements(RemoveAt(q, k)) \subseteq Elements(q)
  <1> DEFINE front == SubSeq(q, 1, k - 1)
             back == SubSeq(q, k + 1, Len(q))
  <1>1. k \in 1..Len(q) /\ Len(q) \in Nat /\ \A i \in 1..Len(q) : q[i] \in S
    BY LenProperties, ElementOfSeq
  <1>2. front \in Seq(S) /\ Len(front) = k - 1 /\ \A i \in 1..(k - 1) : front[i] = q[i]
    BY <1>1
  <1>3. /\ back \in Seq(S) /\ Len(back) = Len(q) - k
        /\ \A i \in 1..(Len(q) - k) : back[i] = q[k + i]
    BY <1>1
  <1>4. RemoveAt(q, k) = front \o back
    BY DEF RemoveAt
  <1> HIDE DEF front, back
  <1>5. /\ front \o back \in Seq(S)
        /\ Len(front \o back) = Len(q) - 1
        /\ \A i \in 1..(Len(q) - 1) :
              (front \o back)[i] = IF i <= k - 1 THEN front[i] ELSE back[i - (k - 1)]
    <2>1. /\ front \o back \in Seq(S)
          /\ Len(front \o back) = Len(front) + Len(back)
          /\ \A i \in 1..(Len(front) + Len(back)) :
                (front \o back)[i] = IF i <= Len(front) THEN front[i] ELSE back[i - Len(front)]
      BY <1>2, <1>3, ConcatProperties
    <2>2. Len(front) + Len(back) = Len(q) - 1
      BY <1>1, <1>2, <1>3
    <2>3. QED
      BY <1>2, <2>1, <2>2
  <1>6. DOMAIN (front \o back) = 1..(Len(q) - 1)
    BY <1>5, LenProperties
  <1>7. ASSUME NEW i \in 1..(Len(q) - 1)
        PROVE  (front \o back)[i] = IF i < k THEN q[i] ELSE q[i + 1]
    <2>1. CASE i < k
      BY <1>1, <1>2, <1>5, <2>1
    <2>2. CASE ~(i < k)
      <3>1. i - (k - 1) \in 1..(Len(q) - k) /\ k + (i - (k - 1)) = i + 1 /\ ~(i <= k - 1)
        BY <1>1, <2>2
      <3>2. (front \o back)[i] = back[i - (k - 1)]
        BY <1>5, <3>1
      <3>3. back[i - (k - 1)] = q[i + 1]
        BY <1>3, <3>1
      <3>4. QED
        BY <2>2, <3>2, <3>3
    <2>3. QED
      BY <2>1, <2>2
  <1>8. Elements(front \o back) \subseteq Elements(q)
    <2>1. DOMAIN q = 1..Len(q)
      BY LenProperties
    <2>2. ASSUME NEW i \in 1..(Len(q) - 1)
          PROVE  (front \o back)[i] \in {q[j] : j \in 1..Len(q)}
      <3>1. i \in 1..Len(q) /\ i + 1 \in 1..Len(q)
        BY <1>1
      <3>2. QED
        BY <1>7, <3>1
    <2>3. QED
      BY <1>6, <2>1, <2>2 DEF Elements
  <1>9. QED
    BY <1>4, <1>5, <1>8

-----------------------------------------------------------------------------
\* No more entries of a kind are queued than there are.
LEMMA QueuedFacts ==
    ASSUME nfQueue \in Seq(Entries), NEW E
    PROVE  Queued(E) \in Nat /\ Queued(E) <= Len(nfQueue)
  <1>1. Len(nfQueue) \in Nat /\ DOMAIN nfQueue = 1..Len(nfQueue)
    BY LenProperties
  <1>2. IsFiniteSet(1..Len(nfQueue)) /\ Cardinality(1..Len(nfQueue)) = Len(nfQueue)
    BY <1>1, FS_Interval
  <1>3. {i \in DOMAIN nfQueue : nfQueue[i] \in E} \subseteq 1..Len(nfQueue)
    BY <1>1
  <1>4. QED
    BY <1>2, <1>3, FS_Subset, FS_CardinalityType DEF Queued

\* The library's Contains in the terms of these proofs.
LEMMA ContainsFacts ==
    ASSUME NEW S, NEW q \in Seq(S), NEW e
    PROVE  Contains(q, e) <=> e \in Elements(q)
  <1>1. DOMAIN q = 1..Len(q)
    BY LenProperties
  <1>2. QED
    BY <1>1 DEF Contains, Elements

\* The empty queue, and the first entry of another.
LEMMA HeadFacts ==
    /\ Elements(<<>>) = {}
    /\ \A S : \A q \in Seq(S) : q # <<>> => Head(q) \in Elements(q) /\ Head(q) \in S
  <1>1. Elements(<<>>) = {}
    BY DEF Elements
  <1>2. ASSUME NEW S, NEW q \in Seq(S), q # <<>>
        PROVE  Head(q) \in Elements(q) /\ Head(q) \in S
    <2>1. 1 \in DOMAIN q /\ Head(q) = q[1] /\ Head(q) \in S
      BY <1>2
    <2>2. QED
      BY <2>1 DEF Elements
  <1>3. QED
    BY <1>1, <1>2

\* What posting an entry does.
LEMMA Enqueued ==
    ASSUME nfQueue \in Seq(Entries), NEW e \in Entries,
           EnqueueTask(e) \/ EnqueueEarly(e) \/ EnqueueControl(e)
    PROVE  /\ nfQueue' \in Seq(Entries) /\ nfQueue' # <<>>
           /\ Elements(nfQueue') = Elements(nfQueue) \cup {e}
           /\ nfAvailable' = TRUE
           /\ early' \subseteq early \cup {e}
  <1>1. Len(nfQueue) \in Nat
    BY LenProperties
  <1>2. \A E : Queued(E) \in Nat /\ Queued(E) <= Len(nfQueue)
    BY QueuedFacts
  <1>3. \E i \in 1..(Len(nfQueue) + 1) : EnqueueNotification(e, i)
    <2>1. CASE EnqueueEarly(e)
      <3>1. 1..(Queued(early) + 1) \subseteq 1..(Len(nfQueue) + 1)
        BY <1>1, <1>2
      <3>2. QED
        BY <2>1, <3>1 DEF EnqueueEarly
    <2>2. CASE EnqueueTask(e) \/ EnqueueControl(e)
      <3> DEFINE n == Queued(early \cup Controls)
      <3>1. n \in Nat /\ n <= Len(nfQueue)
        BY <1>2
      <3> HIDE DEF n
      <3>2. n + 1 \in 1..(Len(nfQueue) + 1) /\ (n + 1)..(Len(nfQueue) + 1) \subseteq 1..(Len(nfQueue) + 1)
        BY <1>1, <3>1
      <3>3. QED
        BY <2>2, <3>2 DEF n, EnqueueTask, EnqueueControl
    <2>3. QED
      BY <2>1, <2>2
  <1>4. PICK i \in 1..(Len(nfQueue) + 1) : EnqueueNotification(e, i)
    BY <1>3
  <1>5. /\ nfQueue' \in Seq(Entries) /\ nfQueue' # <<>>
        /\ Elements(nfQueue') = Elements(nfQueue) \cup {e}
        /\ nfAvailable' = TRUE
    BY <1>4, InsertFacts DEF EnqueueNotification
  <1>6. QED
    BY <1>5 DEF EnqueueTask, EnqueueEarly, EnqueueControl

-----------------------------------------------------------------------------
(* The inductive invariant. *)

\* What the thread holds fits to where it is.
Held ==
    /\ thread \in {"timing", "sleeping", "taking"} => it \in Elements(nfQueue)
    /\ thread \in {"running", "ran"} => pNf \in Tasks
    /\ thread = "cleared" => pNf \in Callers

\* The event is set whenever the thread has not seen the first entry.
Seen ==
    /\ thread = "blocked" => nfQueue = <<>> \/ nfAvailable
    /\ thread \in {"timing", "sleeping"} => Head(nfQueue) = it \/ nfAvailable

\* Only what was scheduled is in the queue or executed.
Known ==
    /\ \A k \in Tasks : k \in Elements(nfQueue) \/ pNf = k => k \in scheduled
    /\ \A c \in Callers : purging[c] \subseteq scheduled

\* A call of cancel() that has not begun has left no trace.
Unborn ==
    \A c \in Callers :
        caller[c] = "running" => c \notin finished /\ c \notin Elements(nfQueue) /\ pNf # c

\* From the clearing on, nothing of what a cancel() found is there.
Purged ==
    /\ \A c \in Callers :
          c \in finished \/ (thread = "cleared" /\ pNf = c)
              => \A k \in purging[c] : pNf # k /\ k \notin Elements(nfQueue)
    /\ \A c \in Callers : caller[c] = "returned" => c \in finished

Inv == TypeOK /\ Held /\ Seen /\ Known /\ Unborn /\ Purged

\* Init implies the invariant.
LEMMA InitInv == Init => Inv
  <1> SUFFICES ASSUME Init PROVE Inv
    OBVIOUS
  <1>1. <<>> \in Seq(Entries)
    OBVIOUS
  <1>2. TypeOK
    BY <1>1 DEF Init, TypeOK
  <1>3. Nothing \notin Tasks /\ Nothing \notin Callers
    BY TimerAssumption
  <1>4. Held /\ Seen
    BY DEF Init, Held, Seen
  <1>5. Known /\ Unborn /\ Purged
    BY <1>3, HeadFacts DEF Init, Known, Unborn, Purged
  <1>6. QED
    BY <1>2, <1>4, <1>5 DEF Inv

\* The invariant is inductive.
LEMMA NextInv == Inv /\ [Next]_vars => Inv'
  <1> SUFFICES ASSUME Inv, [Next]_vars PROVE Inv'
    OBVIOUS
  <1> USE DEF Inv, ThreadGoes, queueVars, Clear
  <1>1. CASE Look
    <2>1. nfQueue # <<>> => Head(nfQueue) \in Elements(nfQueue) /\ Head(nfQueue) \in Entries
      BY HeadFacts DEF TypeOK
    <2>2. TypeOK'
      BY <1>1, <2>1, TimerAssumption DEF Look, TypeOK, Entries, Controls
    <2>3. Held' /\ Seen'
      BY <1>1, <2>1 DEF Look, Held, Seen
    <2>4. Known' /\ Unborn' /\ Purged'
      BY <1>1 DEF Look, Known, Unborn, Purged
    <2>5. QED
      BY <2>2, <2>3, <2>4
  <1>2. CASE Time \/ SleepEnds \/ EndTask
    BY <1>2 DEF Time, SleepEnds, EndTask, TypeOK, Held, Seen, Known, Unborn, Purged
  <1>3. CASE WakeUp
    BY <1>3 DEF WakeUp, TypeOK, Held, Seen, Known, Unborn, Purged
  <1>4. CASE DequeueOne
    <2>1. PICK i \in DOMAIN nfQueue : nfQueue[i] = it /\ nfQueue' = RemoveAt(nfQueue, i)
      BY <1>4 DEF DequeueOne
    <2>2. nfQueue' \in Seq(Entries) /\ Elements(nfQueue') \subseteq Elements(nfQueue)
      BY <2>1, RemoveFacts DEF TypeOK
    <2>3. /\ thread = "taking" /\ thread' = "executing" /\ pNf' = it /\ it' = Nothing
          /\ early' = early \ {it}
          /\ UNCHANGED <<nfAvailable, finished, scheduled, isCancelled, caller, timer, purging>>
      BY <1>4 DEF DequeueOne
    <2>4. it \in Elements(nfQueue) /\ it \in Entries /\ it # Nothing
      BY <2>3 DEF Held, TypeOK
    <2>5. TypeOK'
      BY <2>2, <2>3, <2>4 DEF TypeOK
    <2>6. Held' /\ Seen'
      BY <2>3 DEF Held, Seen
    <2>7. Known' /\ Unborn' /\ Purged'
      BY <2>2, <2>3, <2>4 DEF Known, Unborn, Purged
    <2>8. QED
      BY <2>5, <2>6, <2>7
  <1>5. CASE ExecuteCancel
    <2>1. CASE pNf \in Callers /\ thread = "executing" /\ thread' = "cleared" /\ nfQueue' = <<>>
               /\ early' = {}
               /\ UNCHANGED <<nfAvailable, it, pNf, finished, scheduled, isCancelled, caller, timer, purging>>
      <3>1. Elements(nfQueue') = {} /\ nfQueue' \in Seq(Entries)
        BY <2>1, HeadFacts
      <3>3. TypeOK'
        BY <2>1, <3>1 DEF TypeOK
      <3>4. \A k \in Tasks : pNf # k
        BY <2>1, TimerAssumption
      <3>5. \A c \in Callers : purging[c] \subseteq Tasks
        BY DEF TypeOK
      <3>6. Held' /\ Seen' /\ Known' /\ Unborn' /\ Purged'
        BY <2>1, <3>1, <3>4, <3>5 DEF Held, Seen, Known, Unborn, Purged
      <3>7. QED
        BY <3>3, <3>6
    <2>2. CASE thread = "cleared" /\ thread' = "looking" /\ finished' = finished \cup {pNf}
               /\ pNf' = Nothing
               /\ UNCHANGED <<nfQueue, early, nfAvailable, it, scheduled, isCancelled, caller, timer, purging>>
      <3>1. pNf \in Callers /\ caller[pNf] # "running"
        BY <2>2 DEF Held, Unborn
      <3>2. TypeOK'
        BY <2>2, <3>1 DEF TypeOK
      <3>3. Held' /\ Seen'
        BY <2>2 DEF Held, Seen
      <3>4. /\ \A k \in Tasks : Nothing # k
            /\ \A c \in Callers : Nothing # c /\ purging[c] \subseteq Tasks
        BY TimerAssumption DEF TypeOK
      <3>5. Known' /\ Unborn' /\ Purged'
        BY <2>2, <3>1, <3>4 DEF Known, Unborn, Purged
      <3>6. QED
        BY <3>2, <3>3, <3>5
    <2>3. QED
      BY <1>5, <2>1, <2>2 DEF ExecuteCancel
  <1>6. CASE ExecuteStop
    <2>1. Elements(nfQueue') = {} /\ nfQueue' \in Seq(Entries)
      BY <1>6, HeadFacts DEF ExecuteStop
    <2>3. TypeOK'
      BY <1>6, <2>1 DEF ExecuteStop, TypeOK
    <2>4. /\ \A k \in Tasks : Nothing # k
          /\ \A c \in Callers : Nothing # c /\ purging[c] \subseteq Tasks
      BY TimerAssumption DEF TypeOK
    <2>5. Held' /\ Seen' /\ Known' /\ Unborn' /\ Purged'
      BY <1>6, <2>1, <2>4 DEF ExecuteStop, Held, Seen, Known, Unborn, Purged
    <2>6. QED
      BY <2>3, <2>5
  <1>7. CASE BeginTask
    BY <1>7 DEF BeginTask, TypeOK, Held, Seen, Known, Unborn, Purged
  <1>8. CASE Repeat
    <2>1. /\ thread = "ran" /\ thread' = "looking" /\ pNf' = Nothing /\ pNf \in Tasks
          /\ UNCHANGED <<it, finished, scheduled, isCancelled, caller, timer, purging>>
      BY <1>8 DEF Repeat, Held
    <2>2. /\ nfQueue' \in Seq(Entries) /\ nfAvailable' \in BOOLEAN
          /\ Elements(nfQueue') \subseteq Elements(nfQueue) \cup {pNf} /\ early' = early
      <3>1. pNf \in Entries
        BY <2>1 DEF Entries
      <3>2. CASE EnqueueTask(pNf)
        BY <3>1, <3>2, Enqueued DEF TypeOK, EnqueueTask
      <3>3. CASE UNCHANGED queueVars
        BY <3>3 DEF TypeOK
      <3>4. QED
        BY <1>8, <3>2, <3>3 DEF Repeat
    <2>3. TypeOK'
      BY <2>1, <2>2 DEF TypeOK
    <2>4. Held' /\ Seen'
      BY <2>1 DEF Held, Seen
    <2>5. /\ \A k \in Tasks : Nothing # k
          /\ \A c \in Callers : Nothing # c /\ pNf # c /\ purging[c] \subseteq Tasks
      BY <2>1, TimerAssumption DEF TypeOK
    <2>6. Known' /\ Unborn' /\ Purged'
      BY <2>1, <2>2, <2>5 DEF Known, Unborn, Purged
    <2>7. QED
      BY <2>3, <2>4, <2>6
  <1>9. ASSUME NEW k \in Tasks, Schedule(k)
        PROVE  Inv'
    <2>1. /\ k \notin scheduled /\ scheduled' = scheduled \cup {k}
          /\ UNCHANGED <<thread, it, pNf, isCancelled, caller, finished, timer, purging>>
      BY <1>9 DEF Schedule
    <2>2. /\ nfQueue' \in Seq(Entries) /\ nfQueue' # <<>> /\ nfAvailable' = TRUE
          /\ Elements(nfQueue') = Elements(nfQueue) \cup {k} /\ early' \subseteq Tasks
      <3>1. k \in Entries /\ (EnqueueTask(k) \/ EnqueueEarly(k))
        BY <1>9 DEF Schedule, Entries
      <3>2. QED
        BY <3>1, Enqueued DEF TypeOK
    <2>3. TypeOK'
      BY <2>1, <2>2 DEF TypeOK
    <2>4. Held' /\ Seen'
      BY <2>1, <2>2 DEF Held, Seen
    <2>5. \A c \in Callers : c # k
      BY TimerAssumption
    <2>6. Known' /\ Unborn' /\ Purged'
      BY <2>1, <2>2, <2>5 DEF Known, Unborn, Purged
    <2>7. QED
      BY <2>3, <2>4, <2>6
  <1>10. ASSUME NEW k \in Tasks, CancelTask(k)
         PROVE  Inv'
    BY <1>10 DEF CancelTask, TypeOK, Held, Seen, Known, Unborn, Purged
  <1>11. ASSUME NEW c \in Callers, NEW wait \in BOOLEAN, Cancel(c, wait)
         PROVE  Inv'
    <2>1. /\ caller[c] = "running"
          /\ caller' = [caller EXCEPT ![c] = IF wait THEN "waiting" ELSE "gone on"]
          /\ purging' = [purging EXCEPT ![c] = {k \in Tasks : pNf = k \/ Contains(nfQueue, k)}]
          /\ UNCHANGED <<thread, it, pNf, scheduled, isCancelled, finished, timer>>
      BY <1>11 DEF Cancel, Posting
    <2>2. /\ nfQueue' \in Seq(Entries) /\ nfQueue' # <<>> /\ nfAvailable' = TRUE
          /\ Elements(nfQueue') = Elements(nfQueue) \cup {c} /\ early' = early
      <3>1. c \in Entries /\ EnqueueControl(c)
        BY <1>11 DEF Cancel, Entries, Controls
      <3>2. QED
        BY <3>1, Enqueued DEF TypeOK, EnqueueControl
    <2>3. {k \in Tasks : pNf = k \/ Contains(nfQueue, k)} \subseteq scheduled
      BY ContainsFacts DEF Known, TypeOK
    <2>4. TypeOK'
      BY <2>1, <2>2 DEF TypeOK
    <2>5. Held' /\ Seen'
      BY <2>1, <2>2 DEF Held, Seen
    <2>6. \A k \in Tasks : k # c
      BY TimerAssumption
    <2>7. /\ caller \in [Callers -> {"running", "waiting", "gone on", "returned"}]
          /\ purging \in [Callers -> SUBSET Tasks]
      BY DEF TypeOK
    <2>8. Known'
      BY <2>1, <2>2, <2>3, <2>6, <2>7 DEF Known
    <2>9. Unborn'
      BY <2>1, <2>2, <2>7 DEF Unborn
    <2>10. c \notin finished /\ pNf # c
      BY <2>1 DEF Unborn
    <2>11. Purged'
      BY <2>1, <2>2, <2>6, <2>7, <2>10 DEF Purged
    <2>12. QED
      BY <2>4, <2>5, <2>8, <2>9, <2>11
  <1>12. ASSUME NEW c \in Callers, CancelReturns(c)
         PROVE  Inv'
    BY <1>12 DEF CancelReturns, TypeOK, Held, Seen, Known, Unborn, Purged
  <1>13. CASE Destroy
    <2>1. /\ nfQueue' \in Seq(Entries) /\ nfQueue' # <<>> /\ nfAvailable' = TRUE
          /\ Elements(nfQueue') = Elements(nfQueue) \cup {Stop} /\ early' = early
      <3>1. Stop \in Entries /\ EnqueueControl(Stop)
        BY <1>13 DEF Destroy, Entries, Controls
      <3>2. QED
        BY <3>1, Enqueued DEF TypeOK, EnqueueControl
    <2>2. timer' = "joining"
          /\ UNCHANGED <<thread, it, pNf, scheduled, isCancelled, caller, finished, purging>>
      BY <1>13 DEF Destroy
    <2>3. TypeOK'
      BY <2>1, <2>2 DEF TypeOK
    <2>4. Held' /\ Seen'
      BY <2>1, <2>2 DEF Held, Seen
    <2>5. /\ \A k \in Tasks : k # Stop
          /\ \A c \in Callers : c # Stop /\ purging[c] \subseteq Tasks
      BY TimerAssumption DEF TypeOK
    <2>6. Known' /\ Unborn' /\ Purged'
      BY <2>1, <2>2, <2>5 DEF Known, Unborn, Purged
    <2>7. QED
      BY <2>3, <2>4, <2>6
  <1>14. CASE Joined
    BY <1>14 DEF Joined, TypeOK, Held, Seen, Known, Unborn, Purged
  <1>15. CASE UNCHANGED vars
    BY <1>15 DEF vars, TypeOK, Held, Seen, Known, Unborn, Purged
  <1>16. QED
    BY <1>1, <1>2, <1>3, <1>4, <1>5, <1>6, <1>7, <1>8, <1>9, <1>10, <1>11, <1>12, <1>13, <1>14,
       <1>15 DEF Next, Run

-----------------------------------------------------------------------------
\* The variables keep their types in every behaviour.
THEOREM TypeCorrect == Spec => []TypeOK
  <1>1. Inv => TypeOK
    BY DEF Inv
  <1>2. QED
    BY InitInv, NextInv, <1>1, PTL DEF Spec

\* The iterator kept over the unlocked stretch is always valid when it is used.
THEOREM IteratorIsValidHolds == Spec => []IteratorIsValid
  <1>1. Inv => IteratorIsValid
    BY ContainsFacts DEF Inv, Held, IteratorIsValid, TypeOK
  <1>2. QED
    BY InitInv, NextInv, <1>1, PTL DEF Spec

\* The thread never sleeps past an entry.
THEOREM NoMissedEntryHolds == Spec => []NoMissedEntry
  <1>1. Inv => NoMissedEntry
    BY DEF Inv, Seen, NoMissedEntry
  <1>2. QED
    BY InitInv, NextInv, <1>1, PTL DEF Spec

\* What cancel(true) has purged does not come back.
THEOREM PurgedStaysPurgedHolds == Spec => []PurgedStaysPurged
  <1>1. Inv => PurgedStaysPurged
    BY ContainsFacts DEF Inv, Purged, PurgedStaysPurged, TypeOK
  <1>2. QED
    BY InitInv, NextInv, <1>1, PTL DEF Spec
=============================================================================
