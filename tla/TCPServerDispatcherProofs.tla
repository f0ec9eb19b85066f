---------------------- MODULE TCPServerDispatcherProofs ----------------------
(***************************************************************************)
(* Proofs about TCPServerDispatcher, for any pool and any limits.  The     *)
(* queue's part of the invariant, WaitInv, and the proof that its steps    *)
(* preserve it come from NotificationQueueProofs, by instantiation: every  *)
(* step of the dispatcher is a step of its queue, or leaves it alone.      *)
(***************************************************************************)
EXTENDS TCPServerDispatcher, FiniteSetTheorems, TLAPS

QP == INSTANCE NotificationQueueProofs
          WITH Threads <- Workers, Notifications <- Connections, NoNf <- NoConnection

Places == {"pooled", "assigned", "polling", "creating", "serving", "checking", "leaving", "lost"}
Counted == {"assigned", "polling", "creating", "serving", "checking", "lost"}
Guarded == {"polling", "creating", "serving", "checking", "leaving"}

\* The workers whose place is one of A.
In(f, A) == {t \in Workers : f[t] \in A}

-----------------------------------------------------------------------------
\* What moving one worker does to the number of workers in a set of places.
LEMMA Move ==
    ASSUME NEW f \in [Workers -> Places], NEW g, NEW A, NEW w \in Workers, NEW x \in Places,
           g = [f EXCEPT ![w] = x]
    PROVE  /\ Cardinality(In(f, A)) \in Nat
           /\ Cardinality(In(g, A)) =
                 IF x \in A /\ f[w] \notin A THEN Cardinality(In(f, A)) + 1
                 ELSE IF x \notin A /\ f[w] \in A THEN Cardinality(In(f, A)) - 1
                 ELSE Cardinality(In(f, A))
           /\ f[w] \in A => Cardinality(In(f, A)) > 0
  <1>1. IsFiniteSet(In(f, A)) /\ IsFiniteSet(In(g, A))
    <2>1. In(f, A) \in SUBSET Workers /\ In(g, A) \in SUBSET Workers
      BY DEF In
    <2>2. QED
      BY <2>1, DispatcherAssumption, FS_Subset
  <1>2. Cardinality(In(f, A)) \in Nat /\ Cardinality(In(g, A)) \in Nat
    BY <1>1, FS_CardinalityType
  <1>3. CASE x \in A /\ f[w] \notin A
    <2>1. In(g, A) = In(f, A) \cup {w} /\ w \notin In(f, A)
      BY <1>3 DEF In
    <2>2. QED
      BY <1>1, <1>2, <1>3, <2>1, FS_AddElement
  <1>4. CASE f[w] \in A
    <2>1. w \in In(f, A)
      BY <1>4 DEF In
    <2>2. Cardinality(In(f, A)) > 0
      BY <1>1, <1>2, <2>1, FS_EmptySet
    <2>3. CASE x \in A
      <3>1. In(g, A) = In(f, A)
        BY <1>4, <2>3 DEF In
      <3>2. QED
        BY <1>2, <1>4, <2>2, <2>3, <3>1
    <2>4. CASE x \notin A
      <3>1. In(g, A) = In(f, A) \ {w}
        BY <2>4 DEF In
      <3>2. Cardinality(In(g, A)) = Cardinality(In(f, A)) - 1
        BY <1>1, <2>1, <3>1, FS_RemoveElement
      <3>3. QED
        BY <1>2, <1>4, <2>2, <2>4, <3>2
    <2>5. QED
      BY <2>3, <2>4
  <1>5. CASE x \notin A /\ f[w] \notin A
    <2>1. In(g, A) = In(f, A)
      BY <1>5 DEF In
    <2>2. QED
      BY <1>2, <1>5, <2>1
  <1>6. QED
    BY <1>3, <1>4, <1>5

\* Every step of the dispatcher is a step of its queue or leaves it alone.
LEMMA QueueStep ==
    ASSUME Next, acceptor = "enqueueing" => accepted \in Connections
    PROVE  [QP!Next]_(QP!vars)
  <1>1. ASSUME Accept \/ Acceptor
        PROVE  [QP!Next]_(QP!vars)
    BY <1>1 DEF Accept, Acceptor, PollTimesOut, EnqueueConnection, StartThread, NoThreadAvailable,
                NeedsNoThread, queue, QP!vars, QP!Next, Q!EnqueueNotification,
                QP!EnqueueNotification, Q!Stamp, QP!Stamp, Q!HandOver, QP!HandOver, Q!Posted, QP!Posted
  <1>2. ASSUME StopAccepting \/ Owner \/ Release
        PROVE  [QP!Next]_(QP!vars)
    BY <1>2 DEF StopAccepting, Owner, StopFlags, StopClears, StopWakes, Release, queue, QP!vars,
                QP!Next, Q!Clear, QP!Clear, Q!WakeUpAll, QP!WakeUpAll, Q!history, QP!history,
                OwnerGoes, Q!ToSet, QP!ToSet
  <1>3. ASSUME NEW t \in Workers, Worker(t)
        PROVE  [QP!Next]_(QP!vars)
    <2>1. CASE TakeConnection(t)
      BY <2>1 DEF TakeConnection, QP!Next, QP!Thread, Q!DequeueNotification,
                  QP!DequeueNotification, Q!DequeueOne, QP!DequeueOne
    <2>2. CASE BeginIdle(t)
      BY <2>2 DEF BeginIdle, QP!Next, QP!Thread, Q!BeginWait, QP!BeginWait, Q!WaitTimesOut,
                  QP!WaitTimesOut, Q!history, QP!history
    <2>3. CASE EndIdle(t)
      BY <2>3 DEF EndIdle, QP!Next, QP!Thread, Q!FinishWait, QP!FinishWait, Q!Withdraw,
                  QP!Withdraw, Q!ReturnSlot, QP!ReturnSlot, Q!ToSet, QP!ToSet, Q!RemoveAt, QP!RemoveAt
    <2>4. CASE \/ BeginRun(t) \/ FactoryThrows(t) \/ BeginConnection(t)
               \/ EndConnection(t) \/ CheckEnd(t) \/ EndRun(t)
      BY <2>4 DEF BeginRun, FactoryThrows, BeginConnection, EndConnection, CheckEnd, EndRun,
                  queue, QP!vars
    <2>5. QED
      BY <1>3, <2>1, <2>2, <2>3, <2>4 DEF Worker
  <1>4. QED
    BY <1>1, <1>2, <1>3 DEF Next

-----------------------------------------------------------------------------
(* The inductive invariant: the queue's, and what the dispatcher adds. *)

\* A worker inside a wait of the queue is in its loop; a connection is accepted
\* before it is enqueued; the accepting thread ends only after the owner has
\* said so, and the queue stays empty after it has been cleared.
Steps ==
    /\ \A t \in Workers : pc[t] # "running" => at[t] = "polling"
    /\ acceptor = "enqueueing" => accepted \in Connections
    /\ acceptor = "ended" => owner # "running"
    /\ owner \in {"clearing", "waking", "stopped", "gone"} => acceptor = "ended"
    /\ stopped <=> owner \in {"clearing", "waking", "stopped", "gone"}
    /\ StoppedIsEmpty

\* The three counters are the numbers of workers in a set of places.
Counts ==
    /\ ThreadsCounted
    /\ RefCounted
    /\ currentConnections = Cardinality(In(at, {"serving"}))

\* QueuedHasThread while enqueue() is not in the middle of it.
Attended ==
    nfQueue # <<>> /\ acceptor \in {"polling", "enqueueing"} /\ owner = "running"
        => Running # {} \/ starved \/ killed > 0

Inv == TypeOK /\ QP!WaitInv /\ Steps /\ Counts /\ Attended

\* The sets of the specification in the form Move counts them.
LEMMA Sets ==
    /\ Running = In(at, Counted) /\ Running' = In(at', Counted)
    /\ Holding = In(at, Guarded) /\ Holding' = In(at', Guarded)
  BY DEF Running, Holding, In, Counted, Guarded

\* The queue's assumption on its null notification.
LEMMA NullConnection == NoConnection \notin Connections
  BY DispatcherAssumption DEF NoConnection, Connections

\* Init implies the invariant.
LEMMA InitInv == Init => Inv
  <1> SUFFICES ASSUME Init PROVE Inv
    OBVIOUS
  <1>1. QP!Init
    BY DEF Init, Q!Init, QP!Init
  <1>2. QP!WaitInv
    BY <1>1, NullConnection, QP!InitWaitInv
  <1>3. TypeOK
    <2>1. Q!TypeOK
      BY <1>2 DEF QP!WaitInv, QP!TypeOK, Q!TypeOK
    <2>2. 0 \in 0..MaxThreads /\ 0 \in 0..MaxConnections /\ 0 \in 0..MaxFailures
      BY DispatcherAssumption
    <2>3. /\ at \in [Workers -> {"pooled", "assigned", "polling", "creating", "serving",
                               "checking", "leaving", "lost"}]
          /\ job \in [Workers -> Connections \cup {NoConnection}]
      BY DEF Init
    <2>4. QED
      BY <2>1, <2>2, <2>3 DEF Init, TypeOK
  <1>4. Steps
    BY DEF Init, Q!Init, Steps, StoppedIsEmpty
  <1>5. Running = {} /\ Holding = {} /\ In(at, {"serving"}) = {}
    BY DEF Init, Running, Holding, In
  <1>6. Counts
    BY <1>5, FS_EmptySet, DispatcherAssumption
       DEF Init, Counts, ThreadsCounted, RefCounted
  <1>7. Attended
    BY DEF Init, Q!Init, Attended
  <1>8. QED
    BY <1>2, <1>3, <1>4, <1>6, <1>7 DEF Inv

\* The queue's part is preserved because its own proof says so.
LEMMA QueueInv == Inv /\ [Next]_vars => QP!WaitInv' /\ Q!TypeOK'
  <1> SUFFICES ASSUME Inv, [Next]_vars PROVE QP!WaitInv' /\ Q!TypeOK'
    OBVIOUS
  <1>1. [QP!Next]_(QP!vars)
    <2>1. CASE Next
      BY <2>1, QueueStep DEF Inv, Steps
    <2>2. CASE UNCHANGED vars
      BY <2>2 DEF vars, queue, QP!vars
    <2>3. QED
      BY <2>1, <2>2
  <1>2. QP!WaitInv'
    BY <1>1, NullConnection, QP!NextWaitInv DEF Inv
  <1>3. QED
    BY <1>2 DEF QP!WaitInv, QP!TypeOK, Q!TypeOK

\* The types of the dispatcher's own variables that no counting touches.
Plain ==
    /\ stopped \in BOOLEAN
    /\ totalConnections \in Nat /\ refusedConnections \in Nat
    /\ at \in [Workers -> Places]
    /\ job \in [Workers -> Connections \cup {NoConnection}]
    /\ acceptor \in {"polling", "enqueueing", "enqueued", "ended"}
    /\ owner \in {"running", "joining", "clearing", "waking", "stopped", "gone"}
    /\ accepted \in 0..MaxConnections /\ failures \in 0..MaxFailures
    /\ starved \in BOOLEAN /\ killed \in Nat


\* The place a worker is in, and the bounded counters, in every step.
LEMMA PlainStep == Inv /\ [Next]_vars => Plain'
  <1> SUFFICES ASSUME Inv, [Next]_vars PROVE Plain'
    OBVIOUS
  <1>1. Plain
    BY DEF Inv, TypeOK, Plain, Places
  <1> USE <1>1 DEF Plain, counters, threads, history
  <1>2. CASE Accept \/ Acceptor
    <2>1. accepted + 1 \in 0..MaxConnections \/ ~Accept
      BY DispatcherAssumption DEF Accept
    <2>3. NextRound \in {"polling", "ended"}
      BY DEF NextRound
    <2>4. CASE Accept
      BY <2>1, <2>3, <2>4 DEF Accept
    <2>5. CASE StartThread
      BY <2>3, <2>5 DEF StartThread, Places
    <2>6. CASE NoThreadAvailable
      <3>1. failures' \in 0..MaxFailures
        BY <2>6, DispatcherAssumption DEF NoThreadAvailable
      <3>2. QED
        BY <2>3, <2>6, <3>1 DEF NoThreadAvailable
    <2>7. CASE PollTimesOut \/ EnqueueConnection \/ NeedsNoThread
      BY <2>3, <2>7 DEF PollTimesOut, EnqueueConnection, NeedsNoThread
    <2>8. QED
      BY <1>2, <2>4, <2>5, <2>6, <2>7 DEF Acceptor
  <1>3. CASE StopAccepting \/ Owner \/ Release
    BY <1>3 DEF StopAccepting, Owner, StopFlags, StopClears, StopWakes, Release, OwnerGoes
  <1>4. ASSUME NEW t \in Workers, Worker(t)
        PROVE  Plain'
    <2>1. CASE TakeConnection(t) \/ BeginIdle(t) \/ EndIdle(t)
      <3>1. pNf[t] \in Connections \cup {NoConnection}
        BY DEF Inv, TypeOK, Q!TypeOK
      <3>2. nfQueue # <<>> => Head(nfQueue) \in Connections
        BY DEF Inv, TypeOK, Q!TypeOK
      <3>3. QED
        BY <2>1, <3>1, <3>2 DEF TakeConnection, BeginIdle, EndIdle, Got, Places,
                  Q!DequeueNotification, Q!DequeueOne
    <2>2. CASE FactoryThrows(t)
      <3>1. failures + 1 \in 0..MaxFailures
        BY <2>2, DispatcherAssumption DEF FactoryThrows
      <3>2. QED
        BY <2>2, <3>1 DEF FactoryThrows, Places
    <2>3. CASE BeginRun(t) \/ BeginConnection(t) \/ EndConnection(t) \/ CheckEnd(t) \/ EndRun(t)
      BY <2>3 DEF BeginRun, BeginConnection, EndConnection, CheckEnd, EndRun, Places
    <2>4. QED
      BY <1>4, <2>1, <2>2, <2>3 DEF Worker
  <1>5. CASE UNCHANGED vars
    BY <1>5 DEF vars
  <1>6. QED
    BY <1>2, <1>3, <1>4, <1>5 DEF Next

\* Moving one worker, with the counters moving along, preserves the counts.
LEMMA CountsStep == Inv /\ [Next]_vars => Counts' /\ currentThreads' \in 0..MaxThreads
                                          /\ rc' \in Nat /\ currentConnections' \in Nat
                                          /\ maxConcurrentConnections' \in Nat
  <1> SUFFICES ASSUME Inv, [Next]_vars
               PROVE  /\ Counts' /\ currentThreads' \in 0..MaxThreads
                      /\ rc' \in Nat /\ currentConnections' \in Nat
                      /\ maxConcurrentConnections' \in Nat
    OBVIOUS
  <1> DEFINE C == Cardinality(In(at, Counted))
             G == Cardinality(In(at, Guarded))
             S == Cardinality(In(at, {"serving"}))
             Cn == Cardinality(In(at', Counted))
             Gn == Cardinality(In(at', Guarded))
             Sn == Cardinality(In(at', {"serving"}))
  <1>1. /\ at \in [Workers -> Places] /\ killed \in Nat /\ rc \in Nat /\ currentConnections \in Nat
        /\ currentThreads \in 0..MaxThreads /\ maxConcurrentConnections \in Nat
        /\ MaxThreads \in Nat
    BY DispatcherAssumption DEF Inv, TypeOK, Places
  <1>2. /\ currentThreads = C + killed /\ maxConcurrentConnections <= MaxThreads
        /\ rc = G + (IF owner = "gone" THEN 0 ELSE 1)
        /\ currentConnections = S
    BY Sets DEF Inv, Counts, ThreadsCounted, RefCounted
  <1>3. Counts' <=> /\ currentThreads' = Cn + killed' /\ maxConcurrentConnections' <= MaxThreads
                    /\ rc' = Gn + (IF owner' = "gone" THEN 0 ELSE 1)
                    /\ currentConnections' = Sn
    BY Sets DEF Counts, ThreadsCounted, RefCounted
  <1>4. ASSUME NEW w \in Workers, NEW x \in Places, at' = [at EXCEPT ![w] = x]
        PROVE  /\ C \in Nat /\ G \in Nat /\ S \in Nat
               /\ Cn = IF x \in Counted /\ at[w] \notin Counted THEN C + 1
                       ELSE IF x \notin Counted /\ at[w] \in Counted THEN C - 1 ELSE C
               /\ Gn = IF x \in Guarded /\ at[w] \notin Guarded THEN G + 1
                       ELSE IF x \notin Guarded /\ at[w] \in Guarded THEN G - 1 ELSE G
               /\ Sn = IF x = "serving" /\ at[w] # "serving" THEN S + 1
                       ELSE IF x # "serving" /\ at[w] = "serving" THEN S - 1 ELSE S
               /\ at[w] \in Counted => C > 0
               /\ at[w] \in Guarded => G > 0
               /\ at[w] = "serving" => S > 0
    <2>1. \A A : /\ Cardinality(In(at, A)) \in Nat
                 /\ Cardinality(In(at', A)) =
                       IF x \in A /\ at[w] \notin A THEN Cardinality(In(at, A)) + 1
                       ELSE IF x \notin A /\ at[w] \in A THEN Cardinality(In(at, A)) - 1
                       ELSE Cardinality(In(at, A))
                 /\ at[w] \in A => Cardinality(In(at, A)) > 0
      <3> SUFFICES ASSUME NEW A
                   PROVE  /\ Cardinality(In(at, A)) \in Nat
                          /\ Cardinality(In(at', A)) =
                                IF x \in A /\ at[w] \notin A THEN Cardinality(In(at, A)) + 1
                                ELSE IF x \notin A /\ at[w] \in A THEN Cardinality(In(at, A)) - 1
                                ELSE Cardinality(In(at, A))
                          /\ at[w] \in A => Cardinality(In(at, A)) > 0
        OBVIOUS
      <3>1. QED
        BY <1>1, <1>4, Move
    <2>2. \A y : y \in {"serving"} <=> y = "serving"
      OBVIOUS
    <2>3. C \in Nat /\ G \in Nat /\ S \in Nat
      BY <2>1
    <2>4. /\ Cn = IF x \in Counted /\ at[w] \notin Counted THEN C + 1
                  ELSE IF x \notin Counted /\ at[w] \in Counted THEN C - 1 ELSE C
          /\ at[w] \in Counted => C > 0
      BY <2>1
    <2>5. /\ Gn = IF x \in Guarded /\ at[w] \notin Guarded THEN G + 1
                  ELSE IF x \notin Guarded /\ at[w] \in Guarded THEN G - 1 ELSE G
          /\ at[w] \in Guarded => G > 0
      BY <2>1
    <2>6. /\ Sn = IF x \in {"serving"} /\ at[w] \notin {"serving"} THEN S + 1
                  ELSE IF x \notin {"serving"} /\ at[w] \in {"serving"} THEN S - 1 ELSE S
          /\ at[w] \in {"serving"} => S > 0
      BY <2>1
    <2> HIDE DEF C, G, S, Cn, Gn, Sn
    <2>7. QED
      BY <2>2, <2>3, <2>4, <2>5, <2>6
  <1>5. S <= C
    <2>1. In(at, {"serving"}) \subseteq In(at, Counted) /\ In(at, Counted) \subseteq Workers
      BY DEF In, Counted
    <2>2. QED
      BY <2>1, DispatcherAssumption, FS_Subset
  <1> HIDE DEF C, G, S, Cn, Gn, Sn
  <1>6. ASSUME UNCHANGED <<at, currentThreads, rc, killed, currentConnections,
                           maxConcurrentConnections>>,
               (owner = "gone") <=> (owner' = "gone")
        PROVE  /\ Counts' /\ currentThreads' \in 0..MaxThreads
               /\ rc' \in Nat /\ currentConnections' \in Nat
               /\ maxConcurrentConnections' \in Nat
    <2>1. Cn = C /\ Gn = G /\ Sn = S
      BY <1>6 DEF C, G, S, Cn, Gn, Sn
    <2>2. QED
      BY <1>1, <1>2, <1>3, <1>6, <2>1
  <1>7. CASE \/ Accept \/ PollTimesOut \/ EnqueueConnection \/ NoThreadAvailable \/ NeedsNoThread
             \/ StopAccepting \/ Owner \/ UNCHANGED vars
    BY <1>7, <1>6 DEF Accept, PollTimesOut, EnqueueConnection, NoThreadAvailable, NeedsNoThread,
          StopAccepting, Owner, StopFlags, StopClears, StopWakes, OwnerGoes, counters, history,
          threads, vars
  <1>8. CASE StartThread
    <2>1. PICK w \in Workers : at[w] = "pooled" /\ at' = [at EXCEPT ![w] = "assigned"]
      BY <1>8 DEF StartThread
    <2>2. Cn = C + 1 /\ Gn = G /\ Sn = S /\ C \in Nat
      BY <2>1, <1>4 DEF Counted, Guarded, Places
    <2>3. /\ currentThreads' = currentThreads + 1 /\ currentThreads < MaxThreads
          /\ UNCHANGED <<rc, killed, owner, currentConnections, maxConcurrentConnections>>
      BY <1>8 DEF StartThread, NeedsThread, counters
    <2>4. QED
      BY <1>1, <1>2, <1>3, <2>2, <2>3
  <1>9. CASE Release
    <2>1. /\ at' = at /\ Cn = C /\ Gn = G /\ Sn = S /\ G \in Nat
      <3>1. at' = at
        BY <1>9 DEF Release, OwnerGoes
      <3>2. In(at, Guarded) \subseteq Workers
        BY DEF In
      <3>3. QED
        BY <3>1, <3>2, DispatcherAssumption, FS_Subset, FS_CardinalityType
           DEF C, G, S, Cn, Gn, Sn
    <2>2. /\ rc' = rc - 1 /\ owner = "stopped" /\ owner' = "gone"
          /\ UNCHANGED <<currentThreads, killed, currentConnections, maxConcurrentConnections>>
      BY <1>9 DEF Release, OwnerGoes, counters, history
    <2>3. QED
      BY <1>1, <1>2, <1>3, <2>1, <2>2
  <1>10. ASSUME NEW t \in Workers, Worker(t)
         PROVE  /\ Counts' /\ currentThreads' \in 0..MaxThreads
                /\ rc' \in Nat /\ currentConnections' \in Nat
                /\ maxConcurrentConnections' \in Nat
    <2> USE DEF counters, threads, history
    <2>1. CASE BeginRun(t)
      <3>1. \/ /\ at[t] = "assigned" /\ at' = [at EXCEPT ![t] = "polling"]
               /\ rc' = rc + 1
            \/ /\ at[t] = "assigned" /\ at' = [at EXCEPT ![t] = "lost"]
               /\ rc' = rc
        BY <2>1 DEF BeginRun
      <3>2. UNCHANGED <<currentThreads, killed, owner, currentConnections, maxConcurrentConnections>>
        BY <2>1 DEF BeginRun
      <3>3. CASE rc' = rc + 1 /\ at' = [at EXCEPT ![t] = "polling"]
        <4>1. Cn = C /\ Gn = G + 1 /\ Sn = S /\ G \in Nat
          BY <3>1, <3>3, <1>1, <1>4 DEF Counted, Guarded, Places
        <4>2. QED
          BY <1>1, <1>2, <1>3, <3>2, <3>3, <4>1
      <3>4. CASE rc' = rc /\ at' = [at EXCEPT ![t] = "lost"]
        <4>1. Cn = C /\ Gn = G /\ Sn = S
          BY <3>1, <3>4, <1>4 DEF Counted, Guarded, Places
        <4>2. QED
          BY <1>1, <1>2, <1>3, <3>2, <3>4, <4>1
      <3>5. QED
        BY <3>1, <3>3, <3>4
    <2>2. CASE TakeConnection(t) \/ EndIdle(t)
      <3>1. \E x \in {"checking", "creating"} : at' = [at EXCEPT ![t] = x]
        BY <2>2 DEF TakeConnection, EndIdle, Got
      <3>2. at[t] = "polling" /\ Cn = C /\ Gn = G /\ Sn = S
        BY <2>2, <3>1, <1>4 DEF TakeConnection, EndIdle, Counted, Guarded, Places
      <3>3. UNCHANGED <<currentThreads, rc, killed, owner, currentConnections, maxConcurrentConnections>>
        BY <2>2 DEF TakeConnection, EndIdle, Got
      <3>4. QED
        BY <1>1, <1>2, <1>3, <3>2, <3>3
    <2>3. CASE BeginIdle(t)
      BY <2>3, <1>6 DEF BeginIdle
    <2>4. CASE FactoryThrows(t)
      <3>1. /\ at[t] = "creating" /\ at' = [at EXCEPT ![t] = "pooled"]
            /\ rc' = rc - 1 /\ killed' = killed + 1
            /\ UNCHANGED <<currentThreads, owner, currentConnections, maxConcurrentConnections>>
        BY <2>4 DEF FactoryThrows
      <3>2. Cn = C - 1 /\ Gn = G - 1 /\ Sn = S /\ C \in Nat /\ G \in Nat /\ C > 0 /\ G > 0
        BY <3>1, <1>4 DEF Counted, Guarded, Places
      <3>3. QED
        BY <1>1, <1>2, <1>3, <3>1, <3>2
    <2>5. CASE BeginConnection(t)
      <3>1. /\ at[t] = "creating" /\ at' = [at EXCEPT ![t] = "serving"]
            /\ currentConnections' = currentConnections + 1
            /\ UNCHANGED <<rc, killed, currentThreads, owner>>
            /\ maxConcurrentConnections' \in {currentConnections', maxConcurrentConnections}
        BY <2>5 DEF BeginConnection
      <3>2. Cn = C /\ Gn = G /\ Sn = S + 1 /\ C \in Nat /\ G \in Nat /\ S \in Nat
        BY <3>1, <1>4 DEF Counted, Guarded, Places
      <3>3. Sn <= Cn
        <4>1. In(at', {"serving"}) \subseteq In(at', Counted) /\ In(at', Counted) \subseteq Workers
          BY DEF In, Counted
        <4>2. QED
          BY <4>1, DispatcherAssumption, FS_Subset DEF Sn, Cn
      <3>4. QED
        BY <1>1, <1>2, <1>3, <3>1, <3>2, <3>3
    <2>6. CASE EndConnection(t)
      <3>1. /\ at[t] = "serving" /\ at' = [at EXCEPT ![t] = "checking"]
            /\ currentConnections' = currentConnections - 1
            /\ UNCHANGED <<rc, killed, currentThreads, owner, maxConcurrentConnections>>
        BY <2>6 DEF EndConnection
      <3>2. Cn = C /\ Gn = G /\ Sn = S - 1 /\ S \in Nat /\ S > 0
        BY <3>1, <1>4 DEF Counted, Guarded, Places
      <3>3. QED
        BY <1>1, <1>2, <1>3, <3>1, <3>2
    <2>7. CASE CheckEnd(t)
      <3>1. UNCHANGED <<rc, killed, owner, currentConnections, maxConcurrentConnections>>
        BY <2>7 DEF CheckEnd
      <3>2. CASE at' = [at EXCEPT ![t] = "leaving"] /\ currentThreads' = currentThreads - 1
        <4>1. Cn = C - 1 /\ Gn = G /\ Sn = S /\ C \in Nat /\ C > 0
          BY <2>7, <3>2, <1>4 DEF CheckEnd, Counted, Guarded, Places
        <4>2. QED
          BY <1>1, <1>2, <1>3, <3>1, <3>2, <4>1
      <3>3. CASE at' = [at EXCEPT ![t] = "polling"] /\ currentThreads' = currentThreads
        <4>1. Cn = C /\ Gn = G /\ Sn = S
          BY <2>7, <3>3, <1>4 DEF CheckEnd, Counted, Guarded, Places
        <4>2. QED
          BY <1>1, <1>2, <1>3, <3>1, <3>3, <4>1
      <3>4. QED
        BY <2>7, <3>2, <3>3 DEF CheckEnd
    <2>8. CASE EndRun(t)
      <3>1. /\ at[t] = "leaving" /\ at' = [at EXCEPT ![t] = "pooled"] /\ rc' = rc - 1
            /\ UNCHANGED <<killed, currentThreads, owner, currentConnections, maxConcurrentConnections>>
        BY <2>8 DEF EndRun
      <3>2. Cn = C /\ Gn = G - 1 /\ Sn = S /\ G \in Nat /\ G > 0
        BY <3>1, <1>4 DEF Counted, Guarded, Places
      <3>3. QED
        BY <1>1, <1>2, <1>3, <3>1, <3>2
    <2>9. QED
      BY <1>10, <2>1, <2>2, <2>3, <2>4, <2>5, <2>6, <2>7, <2>8 DEF Worker
  <1>11. QED
    BY <1>7, <1>8, <1>9, <1>10 DEF Next, Acceptor

\* The remaining parts of the invariant.
LEMMA StepsStep == Inv /\ [Next]_vars => Steps'
  <1> SUFFICES ASSUME Inv, [Next]_vars PROVE Steps'
    OBVIOUS
  <1> USE DEF Inv, Steps, StoppedIsEmpty, history, counters, threads
  <1>1. CASE Accept
    BY <1>1, DispatcherAssumption DEF Accept, TypeOK, Connections, NextRound, queue
  <1>2. CASE EnqueueConnection
    BY <1>2 DEF EnqueueConnection, Q!EnqueueNotification, Q!HandOver
  <1>3. CASE PollTimesOut \/ StartThread \/ NoThreadAvailable \/ NeedsNoThread
    <2>1. UNCHANGED <<pc, nfQueue, owner, accepted, stopped>> /\ acceptor' = NextRound
      BY <1>3 DEF PollTimesOut, StartThread, NoThreadAvailable, NeedsNoThread, queue
    <2>2. \A t \in Workers : at[t] = "polling" => at'[t] = "polling"
      BY <1>3 DEF PollTimesOut, StartThread, NoThreadAvailable, NeedsNoThread, TypeOK
    <2>3. acceptor # "ended"
      BY <1>3 DEF PollTimesOut, StartThread, NoThreadAvailable, NeedsNoThread
    <2>4. QED
      BY <2>1, <2>2, <2>3 DEF NextRound
  <1>4. CASE StopAccepting \/ Owner \/ Release
    BY <1>4 DEF StopAccepting, Owner, StopFlags, StopClears, StopWakes, Release, OwnerGoes, queue,
                Q!Clear, Q!WakeUpAll, Q!history
  <1>5. ASSUME NEW t \in Workers, Worker(t)
        PROVE  Steps'
    <2>1. UNCHANGED <<owner, acceptor, accepted, stopped>> /\ (nfQueue = <<>> => nfQueue' = <<>>)
      BY <1>5 DEF Worker, BeginRun, TakeConnection, BeginIdle, EndIdle, FactoryThrows,
            BeginConnection, EndConnection, CheckEnd, EndRun, Got, queue, Q!DequeueNotification,
            Q!DequeueOne, Q!BeginWait, Q!WaitTimesOut, Q!FinishWait, Q!Withdraw, Q!ReturnSlot,
            Q!history
    <2>2. /\ at' \in [Workers -> Places] /\ at \in [Workers -> Places]
          /\ pc' \in [Workers -> {"running", "waiting", "timedWait", "timedOut"}]
          /\ pc \in [Workers -> {"running", "waiting", "timedWait", "timedOut"}]
      BY PlainStep, QueueInv DEF Plain, Q!TypeOK, TypeOK, Places
    <2>3. \A s \in Workers : s # t => at'[s] = at[s] /\ pc'[s] = pc[s]
      <3>1. CASE TakeConnection(t) \/ BeginIdle(t) \/ EndIdle(t)
        BY <3>1, <2>2 DEF TakeConnection, BeginIdle, EndIdle, Got, Q!DequeueNotification,
              Q!BeginWait, Q!WaitTimesOut, Q!FinishWait, Q!Withdraw, Q!ReturnSlot
      <3>2. CASE \/ BeginRun(t) \/ FactoryThrows(t) \/ BeginConnection(t) \/ EndConnection(t)
                 \/ CheckEnd(t) \/ EndRun(t)
        BY <3>2, <2>2 DEF BeginRun, FactoryThrows, BeginConnection, EndConnection, CheckEnd,
              EndRun, queue
      <3>3. QED
        BY <1>5, <3>1, <3>2 DEF Worker
    <2>4. pc'[t] # "running" => at'[t] = "polling"
      <3>1. CASE TakeConnection(t) \/ EndIdle(t)
        BY <3>1, <2>2 DEF TakeConnection, EndIdle, Got, Q!DequeueNotification, Q!FinishWait,
              Q!Withdraw, Q!ReturnSlot
      <3>2. CASE BeginIdle(t)
        BY <3>2, <2>2 DEF BeginIdle, threads
      <3>3. CASE \/ BeginRun(t) \/ FactoryThrows(t) \/ BeginConnection(t) \/ EndConnection(t)
                 \/ CheckEnd(t) \/ EndRun(t)
        BY <3>3, <2>2 DEF BeginRun, FactoryThrows, BeginConnection, EndConnection, CheckEnd,
              EndRun, queue
      <3>4. QED
        BY <1>5, <3>1, <3>2, <3>3 DEF Worker
    <2>5. QED
      BY <2>1, <2>3, <2>4
  <1>6. CASE UNCHANGED vars
    BY <1>6 DEF vars, queue
  <1>7. QED
    BY <1>1, <1>2, <1>3, <1>4, <1>5, <1>6 DEF Next, Acceptor

\* enqueue() never leaves a connection without a thread: it asks for a new one
\* only when no thread waits and the limit is not reached, and both mean that
\* a thread is there; and only a thread that finds nothing queued ends.
LEMMA AttendedStep == Inv /\ [Next]_vars => Attended'
  <1> SUFFICES ASSUME Inv, [Next]_vars,
                      nfQueue' # <<>>, acceptor' \in {"polling", "enqueueing"}, owner' = "running",
                      ~starved', ~(killed' > 0)
               PROVE  Running' # {}
    BY DEF Attended
  <1> USE DEF history, counters, threads
  <1>1. /\ at \in [Workers -> Places] /\ killed \in Nat
        /\ waitQueue \in Seq(Workers) /\ MaxThreads \in Nat \ {0}
        /\ \A i \in DOMAIN waitQueue : pc[waitQueue[i]] # "running"
        /\ \A t \in Workers : pc[t] # "running" => at[t] = "polling"
    BY DispatcherAssumption
       DEF Inv, TypeOK, Places, QP!WaitInv, QP!Waiting, QP!TypeOK, Steps
  <1>2. CASE Accept
    BY <1>2 DEF Accept, Inv, Attended, Running, queue
  <1>3. CASE StartThread
    BY <1>3, <1>1 DEF StartThread, Running
  <1>4. CASE NoThreadAvailable
    BY <1>4 DEF NoThreadAvailable
  <1>5. CASE NeedsNoThread
    <2>1. UNCHANGED <<at, killed>>
      BY <1>5 DEF NeedsNoThread
    <2>2. CASE waitQueue # <<>>
      <3>1. 1 \in DOMAIN waitQueue /\ waitQueue[1] \in Workers
        BY <1>1, <2>2
      <3>2. at[waitQueue[1]] = "polling"
        BY <1>1, <3>1
      <3>3. QED
        BY <2>1, <3>1, <3>2 DEF Running
    <2>3. CASE ~(currentThreads < MaxThreads)
      <3>1. currentThreads = Cardinality(Running) + killed /\ killed = 0
        BY <1>1, <2>1 DEF Inv, Counts, ThreadsCounted
      <3>2. Cardinality({}) = 0
        BY FS_EmptySet
      <3>3. ASSUME Running = {}
            PROVE  FALSE
        <4>1. currentThreads = 0
          BY <3>1, <3>2, <3>3
        <4>2. QED
          BY <4>1, <1>1, <2>3
      <3>4. QED
        BY <2>1, <3>3 DEF Running
    <2>4. QED
      BY <1>5, <2>2, <2>3 DEF NeedsNoThread, NeedsThread
  <1>6. CASE PollTimesOut \/ EnqueueConnection
    BY <1>6 DEF PollTimesOut, EnqueueConnection, NextRound, Inv, Attended, Running, queue
  <1>7. CASE StopAccepting \/ Owner \/ Release
    BY <1>7 DEF StopAccepting, Owner, StopFlags, StopClears, StopWakes, Release, OwnerGoes
  <1>8. ASSUME NEW t \in Workers, Worker(t)
        PROVE  Running' # {}
    <2>1. UNCHANGED <<acceptor, owner, stopped>>
      BY <1>8 DEF Worker, BeginRun, TakeConnection, BeginIdle, EndIdle, FactoryThrows,
            BeginConnection, EndConnection, CheckEnd, EndRun, Got
    <2>2. nfQueue # <<>> /\ UNCHANGED <<starved, killed>>
      BY <1>8, <1>1 DEF Worker, BeginRun, TakeConnection, BeginIdle, EndIdle, FactoryThrows,
            BeginConnection, EndConnection, CheckEnd, EndRun, Got, queue, Q!DequeueNotification,
            Q!DequeueOne, Q!BeginWait, Q!WaitTimesOut, Q!FinishWait, Q!Withdraw, Q!ReturnSlot,
            Q!history
    <2>3. PICK s \in Running : TRUE
      BY <2>1, <2>2 DEF Inv, Attended
    <2>4. ~stopped
      BY <2>1 DEF Inv, Steps
    <2>5. at[t] \in Counted => at'[t] \in Counted
      <3>1. CASE CheckEnd(t)
        BY <3>1, <2>2, <2>4, <1>1 DEF CheckEnd, Superfluous, Counted
      <3>2. CASE FactoryThrows(t)
        BY <3>2, <1>1, <2>2 DEF FactoryThrows
      <3>3. CASE \/ BeginRun(t) \/ TakeConnection(t) \/ BeginIdle(t) \/ EndIdle(t)
                 \/ BeginConnection(t) \/ EndConnection(t) \/ EndRun(t)
        BY <3>3, <1>1 DEF BeginRun, TakeConnection, BeginIdle, EndIdle, Got, BeginConnection,
              EndConnection, EndRun, Counted
      <3>4. QED
        BY <1>8, <3>1, <3>2, <3>3 DEF Worker
    <2>6. \A w \in Workers : w # t => at'[w] = at[w]
      BY <1>8, <1>1 DEF Worker, BeginRun, TakeConnection, BeginIdle, EndIdle, FactoryThrows,
            BeginConnection, EndConnection, CheckEnd, EndRun, Got
    <2>7. s \in Workers /\ at[s] \in Counted
      BY <2>3 DEF Running, Counted
    <2>8. at'[s] \in Counted
      BY <2>5, <2>6, <2>7
    <2>9. QED
      BY <2>7, <2>8 DEF Running, Counted
  <1>9. CASE UNCHANGED vars
    BY <1>9 DEF vars, queue, Inv, Attended, Running
  <1>10. QED
    BY <1>2, <1>3, <1>4, <1>5, <1>6, <1>7, <1>8, <1>9 DEF Next, Acceptor

\* The invariant is inductive.
LEMMA NextInv == Inv /\ [Next]_vars => Inv'
  <1> SUFFICES ASSUME Inv, [Next]_vars PROVE Inv'
    OBVIOUS
  <1>1. Plain' /\ Q!TypeOK' /\ QP!WaitInv'
    BY PlainStep, QueueInv
  <1>2. /\ Counts' /\ currentThreads' \in 0..MaxThreads /\ rc' \in Nat
        /\ currentConnections' \in Nat /\ maxConcurrentConnections' \in Nat
    BY CountsStep
  <1>3. TypeOK'
    BY <1>1, <1>2 DEF TypeOK, Plain, Places
  <1>4. QED
    BY <1>1, <1>2, <1>3, StepsStep, AttendedStep DEF Inv

-----------------------------------------------------------------------------
(* Accounting for the connections, which takes from the queue's proof that *)
(* a notification is in one place only.                                    *)

\* A sequence without repetition has as many elements as places.
LEMMA DistinctLength ==
    ASSUME NEW S, NEW q \in Seq(S), \A i, j \in DOMAIN q : q[i] = q[j] => i = j
    PROVE  IsFiniteSet(ToSet(q)) /\ Cardinality(ToSet(q)) = Len(q)
  <1>1. Len(q) \in Nat /\ DOMAIN q = 1 .. Len(q) /\ q \in [1 .. Len(q) -> S]
    OBVIOUS
  <1>2. ToSet(q) = {q[i] : i \in 1 .. Len(q)}
    BY <1>1 DEF ToSet
  <1>3. q \in Bijection(1 .. Len(q), ToSet(q))
    <2>1. q \in [1 .. Len(q) -> ToSet(q)]
      BY <1>1, <1>2
    <2>2. \A x \in ToSet(q) : \E i \in 1 .. Len(q) : q[i] = x
      BY <1>2
    <2>3. QED
      BY <1>1, <2>1, <2>2 DEF Bijection, Injection, Surjection, IsInjective
  <1>4. ExistsBijection(1 .. Len(q), ToSet(q))
    BY <1>3 DEF ExistsBijection
  <1>5. IsFiniteSet(1 .. Len(q)) /\ Cardinality(1 .. Len(q)) = Len(q)
    BY <1>1, FS_Interval
  <1>6. QED
    BY <1>4, <1>5, FS_Bijection

\* The four places of the queue and of run() a connection can wait in.
InQueue == Len(nfQueue)
InSlots == Cardinality(In(pNf, Connections))
InHands == Cardinality(In(at, {"creating"}))
Discarded == Cardinality(cleared)

Accounted ==
    accepted = refusedConnections + (IF acceptor = "enqueueing" THEN 1 ELSE 0)
                 + InQueue + InSlots + InHands + totalConnections + killed + Discarded

AccountInv == Inv /\ QP!OwnerInv /\ Accounted

\* What the queue's invariant says, in the dispatcher's terms.
LEMMA QueueFacts ==
    ASSUME AccountInv
    PROVE  /\ nfQueue \in Seq(Connections) /\ waitQueue \in Seq(Workers)
           /\ pNf \in [Workers -> Connections \cup {NoConnection}]
           /\ \A i \in DOMAIN waitQueue : pNf[waitQueue[i]] = NoConnection
           /\ \A t \in Workers : pc[t] = "running" => pNf[t] = NoConnection
           /\ \A i, j \in DOMAIN nfQueue : nfQueue[i] = nfQueue[j] => i = j
           /\ \A i \in DOMAIN nfQueue : nfQueue[i] \notin cleared
           /\ IsFiniteSet(cleared)
           /\ InQueue \in Nat /\ InSlots \in Nat /\ InHands \in Nat /\ Discarded \in Nat
  <1>1. /\ nfQueue \in Seq(Connections) /\ waitQueue \in Seq(Workers)
        /\ pNf \in [Workers -> Connections \cup {NoConnection}]
        /\ cleared \in SUBSET Connections
    BY DEF AccountInv, Inv, TypeOK, Q!TypeOK
  <1>2. /\ \A i \in DOMAIN waitQueue : pNf[waitQueue[i]] = NoConnection
        /\ \A t \in Workers : pc[t] = "running" => pNf[t] = NoConnection
    BY DEF AccountInv, Inv, QP!WaitInv, QP!Waiting
  <1>3. /\ \A i, j \in DOMAIN nfQueue : nfQueue[i] = nfQueue[j] => i = j
        /\ \A i \in DOMAIN nfQueue : nfQueue[i] \notin cleared
    BY DEF AccountInv, QP!OwnerInv, QP!OneOwner
  <1>4. IsFiniteSet(Connections)
    BY DispatcherAssumption, FS_Interval DEF Connections
  <1>5. /\ IsFiniteSet(cleared)
        /\ In(pNf, Connections) \in SUBSET Workers /\ In(at, {"creating"}) \in SUBSET Workers
    BY <1>1, <1>4, FS_Subset DEF In
  <1>6. InSlots \in Nat /\ InHands \in Nat /\ Discarded \in Nat
    BY <1>5, DispatcherAssumption, FS_Subset, FS_CardinalityType DEF InSlots, InHands, Discarded
  <1>7. QED
    BY <1>1, <1>2, <1>3, <1>5, <1>6 DEF InQueue

\* Moving worker w to place x changes InHands by whether it is "creating".
LEMMA HandsMove ==
    ASSUME AccountInv, NEW w \in Workers, NEW x \in Places, at' = [at EXCEPT ![w] = x]
    PROVE  /\ x = "creating" /\ at[w] # "creating" => InHands' = InHands + 1
           /\ x # "creating" /\ at[w] = "creating" => InHands' = InHands - 1
           /\ (x = "creating" <=> at[w] = "creating") => InHands' = InHands
  <1>1. at \in [Workers -> Places]
    BY DEF AccountInv, Inv, TypeOK, Places
  <1>2. Cardinality(In(at', {"creating"})) =
                 IF x \in {"creating"} /\ at[w] \notin {"creating"}
                 THEN Cardinality(In(at, {"creating"})) + 1
                 ELSE IF x \notin {"creating"} /\ at[w] \in {"creating"}
                 THEN Cardinality(In(at, {"creating"})) - 1
                 ELSE Cardinality(In(at, {"creating"}))
    BY <1>1, Move
  <1>3. QED
    BY <1>2 DEF InHands

\* Filling or emptying the slot of worker w.
LEMMA SlotMove ==
    ASSUME AccountInv, NEW w \in Workers, NEW c \in Connections \cup {NoConnection},
           pNf' = [pNf EXCEPT ![w] = c]
    PROVE  /\ c # NoConnection /\ pNf[w] = NoConnection => InSlots' = InSlots + 1
           /\ c = NoConnection /\ pNf[w] # NoConnection => InSlots' = InSlots - 1
           /\ (c = NoConnection <=> pNf[w] = NoConnection) => InSlots' = InSlots
  <1>1. pNf \in [Workers -> Connections \cup {NoConnection}]
    BY QueueFacts
  <1>2. In(pNf, Connections) \in SUBSET Workers /\ IsFiniteSet(In(pNf, Connections))
    <2>1. In(pNf, Connections) \in SUBSET Workers
      BY DEF In
    <2>2. QED
      BY <2>1, DispatcherAssumption, FS_Subset
  <1>3. \A d \in Connections \cup {NoConnection} : d \in Connections <=> d # NoConnection
    BY NullConnection
  <1>4. CASE c # NoConnection /\ pNf[w] = NoConnection
    <2>1. In(pNf', Connections) = In(pNf, Connections) \cup {w} /\ w \notin In(pNf, Connections)
      BY <1>1, <1>3, <1>4 DEF In
    <2>2. Cardinality(In(pNf, Connections) \cup {w}) = Cardinality(In(pNf, Connections)) + 1
      BY <1>2, <2>1, FS_AddElement
    <2>3. QED
      BY <1>4, <2>1, <2>2 DEF InSlots
  <1>5. CASE c = NoConnection /\ pNf[w] # NoConnection
    <2>1. In(pNf', Connections) = In(pNf, Connections) \ {w} /\ w \in In(pNf, Connections)
      BY <1>1, <1>3, <1>5 DEF In
    <2>2. Cardinality(In(pNf, Connections) \ {w}) = Cardinality(In(pNf, Connections)) - 1
      BY <1>2, <2>1, FS_RemoveElement
    <2>3. QED
      BY <1>5, <2>1, <2>2 DEF InSlots
  <1>6. CASE c = NoConnection <=> pNf[w] = NoConnection
    <2>1. In(pNf', Connections) = In(pNf, Connections)
      BY <1>1, <1>3, <1>6 DEF In
    <2>2. QED
      BY <1>6, <2>1 DEF InSlots
  <1>7. QED
    BY <1>4, <1>5, <1>6

\* Posting adds one connection, to the queue or to the slot of a waiting thread.
LEMMA Post ==
    ASSUME AccountInv, NEW c \in Connections, Q!EnqueueNotification(c)
    PROVE  /\ Discarded' = Discarded
           /\ \/ InQueue' = InQueue + 1 /\ InSlots' = InSlots
              \/ InQueue' = InQueue /\ InSlots' = InSlots + 1
  <1>1. cleared' = cleared
    BY DEF Q!EnqueueNotification
  <1>2. CASE nfQueue' = Append(nfQueue, c) /\ pNf' = pNf
    BY <1>1, <1>2, QueueFacts DEF InQueue, InSlots, Discarded
  <1>3. CASE Q!HandOver(c)
    <2>1. /\ Head(waitQueue) \in Workers /\ pNf[Head(waitQueue)] = NoConnection
          /\ nfQueue' = nfQueue /\ pNf' = [pNf EXCEPT ![Head(waitQueue)] = c]
      BY <1>3, QueueFacts DEF Q!HandOver
    <2>2. InSlots' = InSlots + 1
      BY <2>1, NullConnection, SlotMove
    <2>3. QED
      BY <1>1, <2>1, <2>2, QueueFacts DEF InQueue, Discarded
  <1>4. QED
    BY <1>2, <1>3 DEF Q!EnqueueNotification

\* clear() discards as many connections as were queued.
LEMMA ClearAll ==
    ASSUME AccountInv, Q!Clear
    PROVE  InQueue' = 0 /\ InSlots' = InSlots /\ Discarded' = Discarded + InQueue
  <1>1. nfQueue' = <<>> /\ pNf' = pNf /\ cleared' = cleared \cup ToSet(nfQueue)
    BY DEF Q!Clear, Q!ToSet, ToSet
  <1>2. IsFiniteSet(ToSet(nfQueue)) /\ Cardinality(ToSet(nfQueue)) = Len(nfQueue)
    BY QueueFacts, DistinctLength
  <1>3. cleared \cap ToSet(nfQueue) = {}
    BY QueueFacts DEF ToSet
  <1>4. Cardinality(cleared \cup ToSet(nfQueue)) = Cardinality(cleared) + Len(nfQueue)
    <2>1. Cardinality(cleared \cup ToSet(nfQueue)) =
             Cardinality(cleared) + Cardinality(ToSet(nfQueue)) - Cardinality({})
      BY <1>2, <1>3, QueueFacts, FS_Union
    <2>2. Cardinality({}) = 0 /\ Cardinality(cleared) \in Nat /\ Len(nfQueue) \in Nat
      BY FS_EmptySet, QueueFacts DEF Discarded, InQueue
    <2>3. QED
      BY <1>2, <2>1, <2>2
  <1>5. QED
    BY <1>1, <1>4, QueueFacts DEF InQueue, InSlots, Discarded

\* Every step moves each connection from one term of the sum to another.
LEMMA AccountStep == AccountInv /\ [Next]_vars => Accounted'
  <1> SUFFICES ASSUME AccountInv, [Next]_vars PROVE Accounted'
    OBVIOUS
  <1> DEFINE Entering == IF acceptor = "enqueueing" THEN 1 ELSE 0
  <1>1. /\ accepted \in Nat /\ refusedConnections \in Nat /\ totalConnections \in Nat
        /\ killed \in Nat /\ Entering \in Nat
    BY DEF AccountInv, Inv, TypeOK
  <1>2. InQueue \in Nat /\ InSlots \in Nat /\ InHands \in Nat /\ Discarded \in Nat
    BY QueueFacts
  <1>3. accepted = refusedConnections + Entering + InQueue + InSlots + InHands
                     + totalConnections + killed + Discarded
    BY DEF AccountInv, Accounted
  <1>4. Accounted' <=> accepted' = refusedConnections' + Entering' + InQueue' + InSlots' + InHands'
                                     + totalConnections' + killed' + Discarded'
    BY DEF Accounted
  <1>5. queue' = queue => InQueue' = InQueue /\ InSlots' = InSlots /\ Discarded' = Discarded
    BY DEF queue, InQueue, InSlots, Discarded
  <1>6. at' = at => InHands' = InHands
    BY DEF InHands
  <1>7. NextRound # "enqueueing" /\ (acceptor' = acceptor => Entering' = Entering)
    BY DEF NextRound
  <1>8. acceptor # "enqueueing" => Entering = 0
    OBVIOUS
  <1>9. /\ acceptor' = "enqueueing" => Entering' = 1
        /\ acceptor' # "enqueueing" => Entering' = 0
    OBVIOUS
  <1> USE DEF counters, threads, history
  <1>10. CASE Accept
    <2>1. /\ acceptor = "polling" /\ accepted' = accepted + 1
          /\ queue' = queue /\ at' = at /\ UNCHANGED <<totalConnections, killed>>
      BY <1>10 DEF Accept
    <2>2. /\ InQueue' = InQueue /\ InSlots' = InSlots /\ Discarded' = Discarded
          /\ InHands' = InHands /\ totalConnections' = totalConnections /\ killed' = killed
          /\ accepted' = accepted + 1 /\ Entering = 0
      BY <1>5, <1>6, <2>1
    <2>3. \/ Entering' = 1 /\ refusedConnections' = refusedConnections
          \/ Entering' = 0 /\ refusedConnections' = refusedConnections + 1
      BY <1>10, <1>7 DEF Accept
    <2> HIDE DEF Entering
    <2>4. CASE Entering' = 1 /\ refusedConnections' = refusedConnections
      BY <1>1, <1>2, <1>3, <1>4, <2>2, <2>4
    <2>5. CASE Entering' = 0 /\ refusedConnections' = refusedConnections + 1
      BY <1>1, <1>2, <1>3, <1>4, <2>2, <2>5
    <2>6. QED
      BY <2>3, <2>4, <2>5
  <1>11. CASE EnqueueConnection
    <2>1. /\ acceptor = "enqueueing" /\ acceptor' = "enqueued" /\ at' = at
          /\ UNCHANGED <<accepted, refusedConnections, totalConnections, killed>>
          /\ Q!EnqueueNotification(accepted) /\ accepted \in Connections
      BY <1>11 DEF EnqueueConnection, AccountInv, Inv, Steps
    <2>2. /\ Discarded' = Discarded
          /\ \/ InQueue' = InQueue + 1 /\ InSlots' = InSlots
             \/ InQueue' = InQueue /\ InSlots' = InSlots + 1
      BY <2>1, Post
    <2>3. /\ InHands' = InHands /\ totalConnections' = totalConnections /\ killed' = killed
          /\ accepted' = accepted /\ refusedConnections' = refusedConnections
          /\ Entering = 1 /\ Entering' = 0
      BY <1>6, <2>1
    <2> HIDE DEF Entering
    <2>4. CASE InQueue' = InQueue + 1 /\ InSlots' = InSlots
      BY <1>1, <1>2, <1>3, <1>4, <2>2, <2>3, <2>4
    <2>5. CASE InQueue' = InQueue /\ InSlots' = InSlots + 1
      BY <1>1, <1>2, <1>3, <1>4, <2>2, <2>3, <2>5
    <2>6. QED
      BY <2>2, <2>4, <2>5
  <1>12. CASE PollTimesOut \/ NoThreadAvailable \/ NeedsNoThread
    <2>1. /\ acceptor # "enqueueing" /\ acceptor' = NextRound /\ queue' = queue /\ at' = at
          /\ UNCHANGED <<accepted, refusedConnections, totalConnections, killed>>
      BY <1>12 DEF PollTimesOut, NoThreadAvailable, NeedsNoThread
    <2>2. QED
      BY <1>3, <1>4, <1>5, <1>6, <1>7, <1>8, <1>9, <2>1
  <1>13. CASE StartThread
    <2>1. /\ acceptor # "enqueueing" /\ acceptor' = NextRound /\ queue' = queue
          /\ UNCHANGED <<accepted, refusedConnections, totalConnections, killed>>
      BY <1>13 DEF StartThread
    <2>2. PICK w \in Workers : at[w] = "pooled" /\ at' = [at EXCEPT ![w] = "assigned"]
      BY <1>13 DEF StartThread
    <2>3. InHands' = InHands
      BY <2>2, HandsMove DEF Places
    <2>4. QED
      BY <1>3, <1>4, <1>5, <1>7, <1>8, <1>9, <2>1, <2>3
  <1>14. CASE StopAccepting \/ Owner \/ Release
    <2>1. /\ acceptor' = acceptor /\ at' = at
          /\ UNCHANGED <<accepted, refusedConnections, totalConnections, killed>>
      BY <1>14 DEF StopAccepting, Owner, StopFlags, StopClears, StopWakes, Release, OwnerGoes
    <2>2. /\ InSlots' = InSlots
          /\ \/ InQueue' = 0 /\ Discarded' = Discarded + InQueue
             \/ InQueue' = InQueue /\ Discarded' = Discarded
      <3>1. CASE Q!Clear
        BY <3>1, ClearAll
      <3>2. CASE Q!WakeUpAll
        BY <3>2 DEF Q!WakeUpAll, Q!history, InQueue, InSlots, Discarded
      <3>3. CASE queue' = queue
        BY <3>3, <1>5
      <3>4. QED
        BY <1>14, <3>1, <3>2, <3>3 DEF StopAccepting, Owner, StopFlags, StopClears, StopWakes, Release
    <2>3. /\ InHands' = InHands /\ totalConnections' = totalConnections /\ killed' = killed
          /\ accepted' = accepted /\ refusedConnections' = refusedConnections
          /\ Entering' = Entering
      BY <1>6, <1>7, <2>1
    <2> HIDE DEF Entering
    <2>4. CASE InQueue' = 0 /\ Discarded' = Discarded + InQueue
      BY <1>1, <1>2, <1>3, <1>4, <2>2, <2>3, <2>4
    <2>5. CASE InQueue' = InQueue /\ Discarded' = Discarded
      BY <1>3, <1>4, <2>2, <2>3, <2>5
    <2>6. QED
      BY <2>2, <2>4, <2>5
  <1>15. ASSUME NEW t \in Workers, Worker(t)
         PROVE  Accounted'
    <2>1. /\ acceptor' = acceptor /\ Entering' = Entering
          /\ UNCHANGED <<accepted, refusedConnections>>
      BY <1>15 DEF Worker, BeginRun, TakeConnection, BeginIdle, EndIdle, FactoryThrows,
            BeginConnection, EndConnection, CheckEnd, EndRun, Got
    <2>2. /\ pNf \in [Workers -> Connections \cup {NoConnection}]
          /\ nfQueue \in Seq(Connections)
      BY QueueFacts
    <2> HIDE DEF Entering
    <2>3. CASE TakeConnection(t)
      <3>1. /\ nfQueue # <<>> /\ nfQueue' = Tail(nfQueue) /\ pNf' = pNf /\ cleared' = cleared
            /\ Head(nfQueue) \in Connections /\ at[t] = "polling"
            /\ UNCHANGED <<totalConnections, killed>>
        BY <2>2, <2>3 DEF TakeConnection, Q!DequeueNotification, Q!DequeueOne, Got
      <3>2. at' = [at EXCEPT ![t] = "creating"]
        BY <2>3, <3>1, NullConnection DEF TakeConnection, Got
      <3>3. InHands' = InHands + 1
        BY <3>1, <3>2, HandsMove DEF Places
      <3>4. InQueue' = InQueue - 1 /\ InSlots' = InSlots /\ Discarded' = Discarded
        BY <2>2, <3>1 DEF InQueue, InSlots, Discarded
      <3>5. QED
        BY <1>1, <1>2, <1>3, <1>4, <2>1, <3>1, <3>3, <3>4
    <2>4. CASE BeginIdle(t)
      <3>1. at' = at /\ UNCHANGED <<totalConnections, killed>>
        BY <2>4 DEF BeginIdle
      <3>2. InQueue' = InQueue /\ Discarded' = Discarded /\ InSlots' = InSlots
        <4>1. CASE Q!WaitTimesOut(t)
          BY <4>1 DEF Q!WaitTimesOut, Q!history, InQueue, InSlots, Discarded
        <4>2. CASE Q!BeginWait(t, "timedWait")
          <5>1. pNf[t] = NoConnection /\ pNf' = [pNf EXCEPT ![t] = NoConnection]
            BY <4>2, QueueFacts DEF Q!BeginWait
          <5>2. InSlots' = InSlots
            BY <5>1, SlotMove
          <5>3. QED
            BY <4>2, <5>2 DEF Q!BeginWait, Q!history, InQueue, Discarded
        <4>3. QED
          BY <2>4, <4>1, <4>2 DEF BeginIdle
      <3>3. QED
        BY <1>3, <1>4, <1>6, <2>1, <3>1, <3>2
    <2>5. CASE EndIdle(t)
      <3>1. /\ nfQueue' = nfQueue /\ cleared' = cleared /\ at[t] = "polling"
            /\ pNf' = [pNf EXCEPT ![t] = NoConnection]
            /\ UNCHANGED <<totalConnections, killed>>
            /\ at' = [at EXCEPT ![t] = IF pNf[t] = NoConnection THEN "checking" ELSE "creating"]
        BY <2>5 DEF EndIdle, Got, Q!FinishWait, Q!Withdraw, Q!ReturnSlot
      <3>2. InQueue' = InQueue /\ Discarded' = Discarded
        BY <3>1 DEF InQueue, Discarded
      <3>3. CASE pNf[t] = NoConnection
        <4>1. InSlots' = InSlots
          BY <3>1, <3>3, SlotMove
        <4>2. InHands' = InHands
          BY <3>1, <3>3, HandsMove DEF Places
        <4>3. QED
          BY <1>3, <1>4, <2>1, <3>1, <3>2, <4>1, <4>2
      <3>4. CASE pNf[t] # NoConnection
        <4>1. InSlots' = InSlots - 1
          BY <3>1, <3>4, SlotMove
        <4>2. InHands' = InHands + 1
          BY <3>1, <3>4, HandsMove DEF Places
        <4>3. QED
          BY <1>1, <1>2, <1>3, <1>4, <2>1, <3>1, <3>2, <4>1, <4>2
      <3>5. QED
        BY <3>3, <3>4
    <2>6. CASE FactoryThrows(t)
      <3>1. /\ at[t] = "creating" /\ at' = [at EXCEPT ![t] = "pooled"] /\ queue' = queue
            /\ killed' = killed + 1 /\ totalConnections' = totalConnections
        BY <2>6 DEF FactoryThrows
      <3>2. InHands' = InHands - 1
        BY <3>1, HandsMove DEF Places
      <3>3. QED
        BY <1>1, <1>2, <1>3, <1>4, <1>5, <2>1, <3>1, <3>2
    <2>7. CASE BeginConnection(t)
      <3>1. /\ at[t] = "creating" /\ at' = [at EXCEPT ![t] = "serving"] /\ queue' = queue
            /\ killed' = killed /\ totalConnections' = totalConnections + 1
        BY <2>7 DEF BeginConnection
      <3>2. InHands' = InHands - 1
        BY <3>1, HandsMove DEF Places
      <3>3. QED
        BY <1>1, <1>2, <1>3, <1>4, <1>5, <2>1, <3>1, <3>2
    <2>8. CASE BeginRun(t) \/ EndConnection(t) \/ CheckEnd(t) \/ EndRun(t)
      <3>1. queue' = queue /\ UNCHANGED <<totalConnections, killed>> /\ at[t] # "creating"
        BY <2>8 DEF BeginRun, EndConnection, CheckEnd, EndRun
      <3>2. \E x \in Places \ {"creating"} : at' = [at EXCEPT ![t] = x]
        BY <2>8 DEF BeginRun, EndConnection, CheckEnd, EndRun, Places
      <3>3. InHands' = InHands
        BY <3>1, <3>2, HandsMove
      <3>4. QED
        BY <1>3, <1>4, <1>5, <2>1, <3>1, <3>3
    <2>9. QED
      BY <1>15, <2>3, <2>4, <2>5, <2>6, <2>7, <2>8 DEF Worker
  <1>16. CASE UNCHANGED vars
    BY <1>16, <1>3, <1>4, <1>5, <1>6, <1>7 DEF vars
  <1>17. QED
    BY <1>10, <1>11, <1>12, <1>13, <1>14, <1>15, <1>16 DEF Next, Acceptor

\* The queue's ownership is preserved because its own proof says so.
LEMMA NextAccountInv == AccountInv /\ [Next]_vars => AccountInv'
  <1> SUFFICES ASSUME AccountInv, [Next]_vars PROVE AccountInv'
    OBVIOUS
  <1>1. [QP!Next]_(QP!vars)
    <2>1. CASE Next
      BY <2>1, QueueStep DEF AccountInv, Inv, Steps
    <2>2. CASE UNCHANGED vars
      BY <2>2 DEF vars, queue, QP!vars
    <2>3. QED
      BY <2>1, <2>2
  <1>2. QP!OwnerInv'
    BY <1>1, NullConnection, QP!NextOwnerInv DEF AccountInv
  <1>3. QED
    BY <1>2, NextInv, AccountStep DEF AccountInv

LEMMA InitAccountInv == Init => AccountInv
  <1> SUFFICES ASSUME Init PROVE AccountInv
    OBVIOUS
  <1>1. QP!OwnerInv
    <2>1. QP!Init
      BY DEF Init, Q!Init, QP!Init
    <2>2. QED
      BY <2>1, NullConnection, QP!InitOwnerInv
  <1>2. In(pNf, Connections) = {} /\ In(at, {"creating"}) = {} /\ cleared = {} /\ nfQueue = <<>>
    BY NullConnection DEF Init, Q!Init, In
  <1>3. InQueue = 0 /\ InSlots = 0 /\ InHands = 0 /\ Discarded = 0
    BY <1>2, FS_EmptySet DEF InQueue, InSlots, InHands, Discarded
  <1>4. Accounted
    BY <1>3 DEF Init, Accounted
  <1>5. QED
    BY <1>1, <1>4, InitInv DEF AccountInv

-----------------------------------------------------------------------------
\* The variables keep their types in every behaviour.
THEOREM TypeCorrect == Spec => []TypeOK
  <1>1. Inv => TypeOK
    BY DEF Inv
  <1>2. QED
    BY InitInv, NextInv, <1>1, PTL DEF Spec

\* The dispatcher's thread count is right, and with it the limit on the number
\* of connections served at a time, for any pool and any limits.
THEOREM ThreadsCountedHolds == Spec => []ThreadsCounted
  <1>1. Inv => ThreadsCounted
    BY DEF Inv, Counts
  <1>2. QED
    BY InitInv, NextInv, <1>1, PTL DEF Spec

\* The reference count is one per worker inside run() and one for the server.
THEOREM RefCountedHolds == Spec => []RefCounted
  <1>1. Inv => RefCounted
    BY DEF Inv, Counts
  <1>2. QED
    BY InitInv, NextInv, <1>1, PTL DEF Spec

\* A queued connection has a thread that will look at the queue again, but for
\* an exhausted pool and for threads lost to an exception of the factory.
THEOREM QueuedHasThreadHolds == Spec => []QueuedHasThread
  <1>1. Inv => QueuedHasThread
    BY DEF Inv, Attended, QueuedHasThread
  <1>2. QED
    BY InitInv, NextInv, <1>1, PTL DEF Spec

\* Nothing is queued any more once stop() has cleared the queue.
THEOREM StoppedIsEmptyHolds == Spec => []StoppedIsEmpty
  <1>1. Inv => StoppedIsEmpty
    BY DEF Inv, Steps
  <1>2. QED
    BY InitInv, NextInv, <1>1, PTL DEF Spec

\* Every accepted connection is refused, waiting in one place, served, discarded
\* or lost to an exception, and the server's statistics add up to them.
THEOREM ConnectionsAccountedHolds == Spec => []ConnectionsAccounted
  <1>1. AccountInv => ConnectionsAccounted
    <2> SUFFICES ASSUME AccountInv PROVE ConnectionsAccounted
      OBVIOUS
    <2>1. In(pNf, Connections) = {t \in Workers : pNf[t] # NoConnection}
      BY QueueFacts, NullConnection DEF In
    <2>2. In(at, {"creating"}) = {t \in Workers : at[t] = "creating"}
      BY DEF In
    <2>3. In(at, {"serving"}) = {t \in Workers : at[t] = "serving"}
      BY DEF In
    <2>4. Accounted /\ currentConnections = Cardinality(In(at, {"serving"}))
      BY DEF AccountInv, Inv, Counts
    <2>5. QED
      BY <2>1, <2>2, <2>3, <2>4
         DEF Accounted, InQueue, InSlots, InHands, Discarded, ConnectionsAccounted
  <1>2. QED
    BY InitAccountInv, NextAccountInv, <1>1, PTL DEF Spec

-----------------------------------------------------------------------------
(* The dispatcher and the queue it uses. *)

\* The dispatcher uses the queue as its specification allows, so everything
\* that is proved of NotificationQueue holds of the dispatcher's queue.
THEOREM DispatcherImplementsQueue == Spec => QP!Spec
  <1>1. Init => QP!Init
    BY DEF Init, Q!Init, QP!Init
  <1>2. Inv /\ [Next]_vars => [QP!Next]_(QP!vars)
    <2> SUFFICES ASSUME Inv, [Next]_vars PROVE [QP!Next]_(QP!vars)
      OBVIOUS
    <2>1. CASE Next
      BY <2>1, QueueStep DEF Inv, Steps
    <2>2. CASE UNCHANGED vars
      BY <2>2 DEF vars, queue, QP!vars
    <2>3. QED
      BY <2>1, <2>2
  <1>3. QED
    BY <1>1, <1>2, InitInv, NextInv, PTL DEF Spec, QP!Spec

\* It is a mailbox of connections: whoever takes one, and however, it is one
\* that was put there and that nobody else took.
THEOREM DispatcherImplementsMailbox == Spec => QP!ImplementsMailbox
  <1>1. QP!Spec => QP!ImplementsMailbox
    BY NullConnection, QP!QueueImplementsMailbox
  <1>2. QED
    BY <1>1, DispatcherImplementsQueue, PTL

\* The order in which connections are put into the queue is that in which they
\* were accepted: none is urgent, and each is enqueued before the next is accepted.
ByAccept ==
    /\ urgent = {}
    /\ \A n \in Connections : ticket[n] > 0 => n <= accepted /\ ticket[n] <= clock
    /\ acceptor = "enqueueing" => ticket[accepted] = 0
    /\ \A m, n \in Connections : ticket[m] > 0 /\ ticket[n] > 0 /\ m < n => ticket[m] < ticket[n]

LEMMA ByAcceptStep == Inv /\ ByAccept /\ [Next]_vars => ByAccept'
  <1> SUFFICES ASSUME Inv, ByAccept, [Next]_vars PROVE ByAccept'
    OBVIOUS
  <1>0. /\ ticket \in [Connections -> Nat] /\ clock \in Nat /\ accepted \in Nat
        /\ Connections \subseteq Nat
    BY DispatcherAssumption DEF Inv, TypeOK, Q!TypeOK, Connections
  <1>1. ASSUME UNCHANGED <<urgent, ticket, clock, accepted>>,
               acceptor' = "enqueueing" => acceptor = "enqueueing"
        PROVE  ByAccept'
    BY <1>1 DEF ByAccept
  <1>2. CASE Accept
    <2>1. UNCHANGED <<urgent, ticket, clock>> /\ accepted' = accepted + 1
      BY <1>2 DEF Accept, queue
    <2>2. accepted' \in Connections
      BY <1>0, <1>2, DispatcherAssumption DEF Accept, Connections
    <2>3. \A n \in Connections : ticket[n] > 0 => n <= accepted'
      BY <1>0, <2>1 DEF ByAccept
    <2>4. ticket[accepted'] = 0
      BY <1>0, <2>1, <2>2 DEF ByAccept
    <2>5. QED
      BY <2>1, <2>3, <2>4 DEF ByAccept
  <1>3. CASE EnqueueConnection
    <2>1. /\ acceptor = "enqueueing" /\ acceptor' = "enqueued"
          /\ ticket' = [ticket EXCEPT ![accepted] = clock + 1] /\ clock' = clock + 1
          /\ UNCHANGED <<urgent, accepted>>
      BY <1>3 DEF EnqueueConnection, Q!EnqueueNotification, Q!Stamp, history
    <2>2. accepted \in Connections
      BY <2>1 DEF Inv, Steps
    <2>3. ASSUME NEW n \in Connections
          PROVE  /\ n = accepted => ticket'[n] = clock + 1
                 /\ n # accepted => ticket'[n] = ticket[n] /\ (ticket[n] > 0 => n < accepted)
                 /\ ticket[n] \in Nat /\ ticket[n] > 0 => ticket[n] <= clock
      BY <1>0, <2>1, <2>2 DEF ByAccept
    <2>4. \A n \in Connections : ticket'[n] > 0 => n <= accepted' /\ ticket'[n] <= clock'
      BY <1>0, <2>1, <2>3
    <2>5. ASSUME NEW m \in Connections, NEW n \in Connections, ticket'[m] > 0, ticket'[n] > 0, m < n
          PROVE  ticket'[m] < ticket'[n]
      <3>1. CASE n = accepted
        BY <1>0, <2>3, <2>5, <3>1
      <3>2. CASE n # accepted
        <4>1. ticket[n] > 0 /\ n < accepted /\ ticket'[n] = ticket[n]
          BY <2>3, <2>5, <3>2
        <4>2. m # accepted
          BY <1>0, <2>5, <4>1
        <4>3. QED
          BY <2>3, <2>5, <4>1, <4>2 DEF ByAccept
      <3>3. QED
        BY <3>1, <3>2
    <2>6. QED
      BY <2>1, <2>4, <2>5 DEF ByAccept
  <1>4. CASE PollTimesOut \/ StartThread \/ NoThreadAvailable \/ NeedsNoThread
    BY <1>1, <1>4 DEF PollTimesOut, StartThread, NoThreadAvailable, NeedsNoThread, NextRound, queue,
                      history
  <1>5. CASE StopAccepting \/ Owner \/ Release
    BY <1>1, <1>5 DEF StopAccepting, Owner, StopFlags, StopClears, StopWakes, Release, OwnerGoes,
                      queue, history, Q!Clear, Q!WakeUpAll, Q!history
  <1>6. ASSUME NEW t \in Workers, Worker(t) PROVE ByAccept'
    BY <1>1, <1>6
       DEF Worker, BeginRun, TakeConnection, BeginIdle, EndIdle, FactoryThrows, BeginConnection,
           EndConnection, CheckEnd, EndRun, Got, queue, history, threads, Q!DequeueNotification,
           Q!BeginWait, Q!WaitTimesOut, Q!FinishWait, Q!Withdraw, Q!ReturnSlot, Q!history
  <1>7. CASE UNCHANGED vars
    BY <1>1, <1>7 DEF vars, queue, threads, history
  <1>8. QED
    BY <1>2, <1>3, <1>4, <1>5, <1>6, <1>7 DEF Next, Acceptor

\* Connections are taken in the order in which they were accepted: no worker has
\* one, or is being handed one, while an earlier one waits in the queue.
TakenInOrder == \A m, n \in Connections : QP!Claimed(n) /\ m \in ToSet(nfQueue) => n < m

\* The order of service is that of accepting, for any pool, limits and failures:
\* the queue's own theorem Fifo, and the order in which the acceptor enqueues.
THEOREM TakenInOrderHolds == Spec => []TakenInOrder
  <1>1. QP!Spec => []QP!Fifo
    BY NullConnection, QP!FifoHolds
  <1>2. Init => ByAccept
    BY DispatcherAssumption DEF Init, Q!Init, ByAccept, Connections
  <1>3. Inv /\ ByAccept /\ QP!Fifo => TakenInOrder
    <2> SUFFICES ASSUME Inv, ByAccept, QP!Fifo, NEW m \in Connections, NEW n \in Connections,
                        QP!Claimed(n), m \in ToSet(nfQueue)
                 PROVE  n < m
      BY DEF TakenInOrder
    <2>1. ticket[n] < ticket[m]
      BY DEF QP!Fifo, ByAccept, ToSet, QP!ToSet
    <2>2. ticket[n] > 0 /\ ticket[n] \in Nat /\ ticket[m] \in Nat
      BY DEF QP!Claimed, QP!Posted, Inv, TypeOK, Q!TypeOK
    <2>3. m \in Nat /\ n \in Nat
      BY DispatcherAssumption DEF Connections
    <2>4. ~(m < n) /\ m # n
      BY <2>1, <2>2 DEF ByAccept
    <2>5. QED
      BY <2>3, <2>4
  <1>4. QED
    BY <1>1, <1>2, <1>3, InitInv, NextInv, ByAcceptStep, DispatcherImplementsQueue, PTL DEF Spec
=============================================================================
