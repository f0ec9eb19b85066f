------------------------- MODULE WebEventTokenProofs -------------------------
(***************************************************************************)
(* Who may read from a WebSocket, for any sets of sockets, workers,        *)
(* subjects and client frames.  The right to read the next frame of a      *)
(* socket is a token: it begins as the socket's AddSubscriberNotification, *)
(* and from then on is one entry of _socketList, one ReceiveNotification,  *)
(* one worker in receiveImpl or one WatchSocketNotification.  Token says   *)
(* that there is at most one per socket, that a subscriber has one or is   *)
(* about to be removed, and when a socket's shutdown may be pending.       *)
(***************************************************************************)
EXTENDS WebEventServiceProofs

Count(queue, kind, s) == Cardinality(Queued(queue, kind, s))
TakenBy(kind, s) == Cardinality(Taken(kind, s))

-----------------------------------------------------------------------------
(* Counting the tasks of a queue. *)

LEMMA CountType ==
    ASSUME NEW S, NEW q \in Seq(S), NEW kind, NEW s
    PROVE  IsFiniteSet(Queued(q, kind, s)) /\ Count(q, kind, s) \in Nat
  <1>1. Queued(q, kind, s) \in SUBSET (1 .. Len(q)) /\ Len(q) \in Nat
    BY DEF Queued
  <1>2. IsFiniteSet(1 .. Len(q))
    BY <1>1, FS_Interval
  <1>3. IsFiniteSet(Queued(q, kind, s))
    BY <1>1, <1>2, FS_Subset
  <1>4. QED
    BY <1>3, FS_CardinalityType DEF Count

\* Queues are counted one after the other.
LEMMA CountConcat ==
    ASSUME NEW S, NEW p \in Seq(S), NEW q \in Seq(S), NEW kind, NEW s
    PROVE  Count(p \o q, kind, s) = Count(p, kind, s) + Count(q, kind, s)
  <1> DEFINE A == Queued(p, kind, s)
             B == Queued(q, kind, s)
             n == Len(p)
             shifted == {i + n : i \in B}
             f == [i \in B |-> i + n]
  <1>1. /\ n \in Nat /\ Len(q) \in Nat
        /\ DOMAIN p = 1 .. n /\ DOMAIN q = 1 .. Len(q)
        /\ DOMAIN (p \o q) = 1 .. (n + Len(q))
        /\ \A i \in 1 .. n : (p \o q)[i] = p[i]
        /\ \A i \in 1 .. Len(q) : (p \o q)[i + n] = q[i]
    <2>1. /\ p \o q \in Seq(S) /\ Len(p \o q) = n + Len(q)
          /\ \A i \in 1 .. (n + Len(q)) :
                (p \o q)[i] = IF i <= n THEN p[i] ELSE q[i - n]
      BY ConcatProperties
    <2>2. n \in Nat /\ Len(q) \in Nat /\ DOMAIN p = 1 .. n /\ DOMAIN q = 1 .. Len(q)
      OBVIOUS
    <2>3. DOMAIN (p \o q) = 1 .. (n + Len(q))
      BY <2>1, LenProperties
    <2> HIDE DEF n
    <2>4. \A i \in 1 .. n : (p \o q)[i] = p[i]
      BY <2>1, <2>2
    <2>5. ASSUME NEW i \in 1 .. Len(q) PROVE (p \o q)[i + n] = q[i]
      <3>1. i + n \in 1 .. (n + Len(q)) /\ ~(i + n <= n) /\ (i + n) - n = i
        BY <2>2
      <3>2. QED
        BY <2>1, <3>1
    <2>6. QED
      BY <2>2, <2>3, <2>4, <2>5
  <1> HIDE DEF n
  <1>2. A \subseteq 1 .. n /\ B \subseteq 1 .. Len(q)
    BY <1>1 DEF Queued
  <1>3. Queued(p \o q, kind, s) = A \cup shifted
    <2>1. ASSUME NEW i \in Queued(p \o q, kind, s)
          PROVE  i \in A \cup shifted
      <3>1. CASE i \in 1 .. n
        BY <1>1, <2>1, <3>1 DEF Queued
      <3>2. CASE i \notin 1 .. n
        <4>1. i - n \in 1 .. Len(q) /\ (i - n) + n = i
          BY <1>1, <2>1, <3>2 DEF Queued
        <4>2. i - n \in B
          BY <1>1, <2>1, <4>1 DEF Queued
        <4>3. QED
          BY <4>1, <4>2
      <3>3. QED
        BY <3>1, <3>2
    <2>2. ASSUME NEW i \in A PROVE i \in Queued(p \o q, kind, s)
      BY <1>1, <1>2, <2>2 DEF Queued
    <2>3. ASSUME NEW i \in B PROVE i + n \in Queued(p \o q, kind, s)
      <3>1. /\ i \in 1 .. Len(q) /\ i + n \in 1 .. (n + Len(q)) /\ (p \o q)[i + n] = q[i]
            /\ q[i].kind = kind /\ q[i].socket = s
        BY <1>1, <1>2, <2>3 DEF Queued
      <3>2. QED
        BY <1>1, <3>1 DEF Queued
    <2>4. QED
      BY <2>1, <2>2, <2>3
  <1>4. IsFiniteSet(A) /\ IsFiniteSet(B) /\ Cardinality(A) \in Nat /\ Cardinality(B) \in Nat
    BY CountType DEF Count
  <1>5. IsFiniteSet(shifted) /\ Cardinality(shifted) = Cardinality(B)
    <2>1. f \in [B -> shifted] /\ \A t \in shifted : \E i \in B : f[i] = t
      OBVIOUS
    <2>2. \A i, j \in B : f[i] = f[j] => i = j
      <3>1. \A i, j \in 1 .. Len(q) : i + n = j + n => i = j
        BY <1>1
      <3>2. QED
        BY <1>2, <3>1
    <2> HIDE DEF f, shifted
    <2>3. f \in Bijection(B, shifted)
      BY <2>1, <2>2 DEF Bijection, Injection, Surjection, IsInjective
    <2>4. ExistsBijection(B, shifted)
      BY <2>3 DEF ExistsBijection
    <2>5. QED
      BY <1>4, <2>4, FS_Bijection
  <1>6. A \cap shifted = {}
    <2>1. \A i \in 1 .. Len(q) : i + n \notin 1 .. n
      BY <1>1
    <2>2. QED
      BY <1>2, <2>1
  <1> HIDE DEF A, B, shifted
  <1>7. Cardinality(A \cup shifted) = Cardinality(A) + Cardinality(shifted) - Cardinality({})
    BY <1>4, <1>5, <1>6, FS_Union
  <1>8. Cardinality({}) = 0
    BY FS_EmptySet
  <1>9. Count(p \o q, kind, s) = Cardinality(A) + Cardinality(B)
    BY <1>3, <1>4, <1>5, <1>7, <1>8 DEF Count
  <1>10. QED
    BY <1>9 DEF A, B, Count

\* One task, and none.
LEMMA CountOne ==
    ASSUME NEW e, NEW kind, NEW s
    PROVE  /\ e.kind = kind /\ e.socket = s => Count(<<e>>, kind, s) = 1
           /\ e.kind # kind \/ e.socket # s => Count(<<e>>, kind, s) = 0
  <1>1. CASE e.kind = kind /\ e.socket = s
    <2>1. Queued(<<e>>, kind, s) = {1}
      BY <1>1 DEF Queued
    <2>2. QED
      BY <1>1, <2>1, FS_Singleton DEF Count
  <1>2. CASE e.kind # kind \/ e.socket # s
    <2>1. Queued(<<e>>, kind, s) = {}
      BY <1>2 DEF Queued
    <2>2. QED
      BY <1>2, <2>1, FS_EmptySet DEF Count
  <1>3. QED
    BY <1>1, <1>2

\* No task of a kind counts as zero.
LEMMA CountNone ==
    ASSUME NEW q, NEW kind, NEW s, \A i \in DOMAIN q : q[i].kind # kind \/ q[i].socket # s
    PROVE  Queued(q, kind, s) = {} /\ Count(q, kind, s) = 0
  BY FS_EmptySet DEF Count, Queued

\* Appending a task.
LEMMA CountAppend ==
    ASSUME NEW S, NEW q \in Seq(S), NEW e \in S, NEW kind, NEW s
    PROVE  /\ e.kind = kind /\ e.socket = s => Count(Append(q, e), kind, s) = Count(q, kind, s) + 1
           /\ e.kind # kind \/ e.socket # s => Count(Append(q, e), kind, s) = Count(q, kind, s)
  <1> DEFINE one == <<e>>
  <1>1. Append(q, e) = q \o one /\ one \in Seq(S)
    OBVIOUS
  <1>2. /\ e.kind = kind /\ e.socket = s => Count(one, kind, s) = 1
        /\ e.kind # kind \/ e.socket # s => Count(one, kind, s) = 0
    BY CountOne
  <1> HIDE DEF one
  <1>3. Count(q \o one, kind, s) = Count(q, kind, s) + Count(one, kind, s)
    BY <1>1, CountConcat
  <1>4. Count(q, kind, s) \in Nat
    BY CountType
  <1>5. QED
    BY <1>1, <1>2, <1>3, <1>4

\* Taking the first task.
LEMMA CountTail ==
    ASSUME NEW S, NEW q \in Seq(S), q # <<>>, NEW kind, NEW s
    PROVE  /\ Head(q).kind = kind /\ Head(q).socket = s
                => Count(q, kind, s) = Count(Tail(q), kind, s) + 1
           /\ Head(q).kind # kind \/ Head(q).socket # s
                => Count(q, kind, s) = Count(Tail(q), kind, s)
  <1> DEFINE e == Head(q)
             rest == Tail(q)
             one == <<e>>
  <1>1. one \in Seq(S) /\ rest \in Seq(S) /\ q = one \o rest
    OBVIOUS
  <1>2. /\ e.kind = kind /\ e.socket = s => Count(one, kind, s) = 1
        /\ e.kind # kind \/ e.socket # s => Count(one, kind, s) = 0
    BY CountOne
  <1> HIDE DEF one, rest, e
  <1>3. Count(one \o rest, kind, s) = Count(one, kind, s) + Count(rest, kind, s)
    BY <1>1, CountConcat
  <1>4. Count(rest, kind, s) \in Nat
    BY <1>1, CountType
  <1>5. /\ e.kind = kind /\ e.socket = s => Count(q, kind, s) = Count(rest, kind, s) + 1
        /\ e.kind # kind \/ e.socket # s => Count(q, kind, s) = Count(rest, kind, s)
    BY <1>1, <1>2, <1>3, <1>4
  <1>6. QED
    BY <1>5 DEF rest, e

-----------------------------------------------------------------------------
(* The invariant. *)

Adds(s) == Count(mainQueue, "add", s)
Watches(s) == Count(mainQueue, "watch", s)
Removals(s) == Count(mainQueue, "remove", s)
Receives(s) == Count(workerQueue, "receive", s)
Shutdowns(s) == Count(workerQueue, "shutdown", s)
Reading(s) == TakenBy("receive", s)
Closing(s) == TakenBy("shutdown", s)

Tokens(s) == Adds(s) + socketList[s] + Watches(s) + Receives(s) + Reading(s)
Fresh(s) == client[s] \in {"none", "accepted"}

\* The token of s, and when its shutdown may be pending: not before it has
\* joined, not while it is a subscriber's, not once it is closed.
Token(s) ==
    /\ Tokens(s) <= 1
    /\ Shutdowns(s) + Closing(s) <= 1
    /\ Fresh(s) => Tokens(s) = 0 /\ s \notin socketMap
    /\ s \in socketMap => Adds(s) = 0
    /\ s \in socketMap \/ Adds(s) > 0 \/ Fresh(s) => ~closed[s] /\ Shutdowns(s) + Closing(s) = 0
    /\ closed[s] => Shutdowns(s) + Closing(s) = 0
    /\ s \in socketMap => Tokens(s) = 1 \/ Removals(s) > 0
    /\ s \in ready => socketList[s] > 0

\* The list of readable sockets is processed before the main thread goes on.
ReadyInProcess == mainPc # "process" => ready = {}

TokenInv == TypeOK /\ ReadyInProcess /\ \A s \in Sockets : Token(s)

LEMMA Numbers ==
    ASSUME TypeOK, NEW s \in Sockets
    PROVE  /\ Adds(s) \in Nat /\ Watches(s) \in Nat /\ Removals(s) \in Nat
           /\ Receives(s) \in Nat /\ Shutdowns(s) \in Nat
           /\ Reading(s) \in Nat /\ Closing(s) \in Nat
           /\ socketList[s] \in Nat
           /\ \A kind : IsFiniteSet(Taken(kind, s))
  <1>1. mainQueue \in Seq(MainTasks) /\ workerQueue \in Seq(WorkerTasks) /\ socketList[s] \in Nat
    BY DEF TypeOK
  <1>2. /\ Adds(s) \in Nat /\ Watches(s) \in Nat /\ Removals(s) \in Nat
        /\ Receives(s) \in Nat /\ Shutdowns(s) \in Nat
    BY <1>1, CountType DEF Adds, Watches, Removals, Receives, Shutdowns
  <1>3. ASSUME NEW kind
        PROVE  IsFiniteSet(Taken(kind, s)) /\ TakenBy(kind, s) \in Nat
    <2>1. Taken(kind, s) \in SUBSET Workers
      BY DEF Taken
    <2>2. IsFiniteSet(Taken(kind, s))
      BY <2>1, FiniteAssumption, FS_Subset
    <2>3. QED
      BY <2>2, FS_CardinalityType DEF TakenBy
  <1>4. QED
    BY <1>1, <1>2, <1>3 DEF Reading, Closing

\* What the two queues' counts do in a step: stay, grow by a task, lose the
\* first one.
MainCountsKept(s) ==
    Adds(s)' = Adds(s) /\ Watches(s)' = Watches(s) /\ Removals(s)' = Removals(s)
WorkerCountsKept(s) == Receives(s)' = Receives(s) /\ Shutdowns(s)' = Shutdowns(s)
TakenKept(s) == Reading(s)' = Reading(s) /\ Closing(s)' = Closing(s)

LEMMA CountsKept ==
    /\ mainQueue' = mainQueue => \A s \in Sockets : MainCountsKept(s)
    /\ workerQueue' = workerQueue => \A s \in Sockets : WorkerCountsKept(s)
    /\ UNCHANGED workers => \A s \in Sockets : TakenKept(s)
  BY DEF MainCountsKept, WorkerCountsKept, TakenKept, Adds, Watches, Removals, Receives, Shutdowns,
         Reading, Closing, TakenBy, Taken, Executing, workers

LEMMA MainPost ==
    ASSUME TypeOK, NEW e \in MainTasks, mainQueue' = Append(mainQueue, e), NEW s \in Sockets
    PROVE  /\ e.kind = "add" /\ e.socket = s => Adds(s)' = Adds(s) + 1
           /\ e.kind # "add" \/ e.socket # s => Adds(s)' = Adds(s)
           /\ e.kind = "watch" /\ e.socket = s => Watches(s)' = Watches(s) + 1
           /\ e.kind # "watch" \/ e.socket # s => Watches(s)' = Watches(s)
           /\ e.kind = "remove" /\ e.socket = s => Removals(s)' = Removals(s) + 1
           /\ e.kind # "remove" \/ e.socket # s => Removals(s)' = Removals(s)
  <1>1. mainQueue \in Seq(MainTasks)
    BY DEF TypeOK
  <1>2. \A kind : /\ e.kind = kind /\ e.socket = s
                        => Count(Append(mainQueue, e), kind, s) = Count(mainQueue, kind, s) + 1
                  /\ e.kind # kind \/ e.socket # s
                        => Count(Append(mainQueue, e), kind, s) = Count(mainQueue, kind, s)
    BY <1>1, CountAppend
  <1>3. QED
    BY <1>2 DEF Adds, Watches, Removals

LEMMA MainTake ==
    ASSUME TypeOK, mainQueue # <<>>, mainQueue' = Tail(mainQueue), NEW s \in Sockets,
           NEW e, e = Head(mainQueue)
    PROVE  /\ e.kind = "add" /\ e.socket = s => Adds(s) = Adds(s)' + 1
           /\ e.kind # "add" \/ e.socket # s => Adds(s) = Adds(s)'
           /\ e.kind = "watch" /\ e.socket = s => Watches(s) = Watches(s)' + 1
           /\ e.kind # "watch" \/ e.socket # s => Watches(s) = Watches(s)'
           /\ e.kind # "remove" \/ e.socket # s => Removals(s) = Removals(s)'
           /\ Adds(s)' \in Nat /\ Watches(s)' \in Nat /\ Removals(s)' \in Nat
  <1>1. mainQueue \in Seq(MainTasks) /\ mainQueue' \in Seq(MainTasks)
    BY DEF TypeOK
  <1>2. \A kind : /\ e.kind = kind /\ e.socket = s
                        => Count(mainQueue, kind, s) = Count(Tail(mainQueue), kind, s) + 1
                  /\ e.kind # kind \/ e.socket # s
                        => Count(mainQueue, kind, s) = Count(Tail(mainQueue), kind, s)
    BY <1>1, CountTail
  <1>3. \A kind : Count(mainQueue', kind, s) \in Nat
    BY <1>1, CountType
  <1>4. QED
    BY <1>2, <1>3 DEF Adds, Watches, Removals

LEMMA WorkerPost ==
    ASSUME TypeOK, NEW e \in WorkerTasks, workerQueue' = Append(workerQueue, e), NEW s \in Sockets
    PROVE  /\ e.kind = "receive" /\ e.socket = s => Receives(s)' = Receives(s) + 1
           /\ e.kind # "receive" \/ e.socket # s => Receives(s)' = Receives(s)
           /\ e.kind = "shutdown" /\ e.socket = s => Shutdowns(s)' = Shutdowns(s) + 1
           /\ e.kind # "shutdown" \/ e.socket # s => Shutdowns(s)' = Shutdowns(s)
  <1>1. workerQueue \in Seq(WorkerTasks)
    BY DEF TypeOK
  <1>2. \A kind : /\ e.kind = kind /\ e.socket = s
                        => Count(Append(workerQueue, e), kind, s) = Count(workerQueue, kind, s) + 1
                  /\ e.kind # kind \/ e.socket # s
                        => Count(Append(workerQueue, e), kind, s) = Count(workerQueue, kind, s)
    BY <1>1, CountAppend
  <1>3. QED
    BY <1>2 DEF Receives, Shutdowns

LEMMA WorkerTake ==
    ASSUME TypeOK, workerQueue # <<>>, workerQueue' = Tail(workerQueue), NEW s \in Sockets,
           NEW e, e = Head(workerQueue)
    PROVE  /\ e.kind = "receive" /\ e.socket = s => Receives(s) = Receives(s)' + 1
           /\ e.kind # "receive" \/ e.socket # s => Receives(s) = Receives(s)'
           /\ e.kind = "shutdown" /\ e.socket = s => Shutdowns(s) = Shutdowns(s)' + 1
           /\ e.kind # "shutdown" \/ e.socket # s => Shutdowns(s) = Shutdowns(s)'
           /\ Receives(s)' \in Nat /\ Shutdowns(s)' \in Nat
  <1>1. workerQueue \in Seq(WorkerTasks) /\ workerQueue' \in Seq(WorkerTasks)
    BY DEF TypeOK
  <1>2. \A kind : /\ e.kind = kind /\ e.socket = s
                        => Count(workerQueue, kind, s) = Count(Tail(workerQueue), kind, s) + 1
                  /\ e.kind # kind \/ e.socket # s
                        => Count(workerQueue, kind, s) = Count(Tail(workerQueue), kind, s)
    BY <1>1, CountTail
  <1>3. \A kind : Count(workerQueue', kind, s) \in Nat
    BY <1>1, CountType
  <1>4. QED
    BY <1>2, <1>3 DEF Receives, Shutdowns

-----------------------------------------------------------------------------
(* The steps. *)

\* A step that leaves the token of s where it is and the life of s as it was.
Kept(s) ==
    /\ MainCountsKept(s) /\ WorkerCountsKept(s) /\ TakenKept(s)
    /\ socketList'[s] = socketList[s]
    /\ (s \in socketMap' <=> s \in socketMap)
    /\ closed'[s] = closed[s]
    /\ (Fresh(s)' <=> Fresh(s))
    /\ s \in ready' => s \in ready \/ socketList[s] > 0

LEMMA KeptToken ==
    ASSUME TypeOK, NEW s \in Sockets, Token(s), Kept(s)
    PROVE  Token(s)'
  <1>1. Tokens(s)' = Tokens(s) /\ Shutdowns(s)' = Shutdowns(s) /\ Closing(s)' = Closing(s)
    BY DEF Kept, MainCountsKept, WorkerCountsKept, TakenKept, Tokens
  <1>2. Adds(s)' = Adds(s) /\ Removals(s)' = Removals(s)
    BY DEF Kept, MainCountsKept
  <1>3. QED
    BY <1>1, <1>2 DEF Token, Kept

\* The clients' steps: only a handshake makes a token, for a socket that had
\* none.
LEMMA ClientToken ==
    ASSUME TokenInv, NEW s \in Sockets,
           \/ \E r \in Sockets : Preflight(r) \/ Connect(r) \/ ClientGoes(r)
           \/ \E r \in Sockets, f \in ClientFrames : ClientSends(r, f)
           \/ \E x \in Subjects : NotifyCall(x)
    PROVE  Token(s)'
  <1> USE DEF maps, mainState, workers, dtor
  <1>1. Token(s) /\ TypeOK
    BY DEF TokenInv
  <1>2. UNCHANGED <<socketMap, socketList, ready, closed, workerQueue, workers>>
    BY DEF Preflight, Connect, ClientGoes, ClientSends, NotifyCall
  <1>3. WorkerCountsKept(s) /\ TakenKept(s)
    BY <1>2, CountsKept
  <1>4. ASSUME MainCountsKept(s), Fresh(s)' <=> Fresh(s)
        PROVE  Token(s)'
    <2>1. Kept(s)
      BY <1>2, <1>3, <1>4 DEF Kept
    <2>2. QED
      BY <1>1, <2>1, KeptToken
  <1>5. ASSUME NEW r \in Sockets, Preflight(r) \/ ClientGoes(r)
        PROVE  Token(s)'
    <2>1. Fresh(s)' <=> Fresh(s)
      BY <1>1, <1>5 DEF Preflight, ClientGoes, Fresh, TypeOK
    <2>2. mainQueue' = mainQueue
      BY <1>5 DEF Preflight, ClientGoes
    <2>3. QED
      BY <1>4, <2>1, <2>2, CountsKept
  <1>6. ASSUME NEW r \in Sockets, NEW f \in ClientFrames, ClientSends(r, f)
        PROVE  Token(s)'
    <2>1. Fresh(s)' <=> Fresh(s)
      BY <1>1, <1>6 DEF ClientSends, Fresh, TypeOK
    <2>2. mainQueue' = mainQueue
      BY <1>6 DEF ClientSends
    <2>3. QED
      BY <1>4, <2>1, <2>2, CountsKept
  <1>7. ASSUME NEW x \in Subjects, NotifyCall(x)
        PROVE  Token(s)'
    <2> DEFINE e == Notify(x)
    <2>1. e \in MainTasks /\ e.kind = "notify"
      BY TasksAreTyped DEF Notify
    <2>2. mainQueue' = Append(mainQueue, e) /\ client' = client
      BY <1>7 DEF NotifyCall
    <2> HIDE DEF e
    <2>3. MainCountsKept(s)
      BY <1>1, <2>1, <2>2, MainPost DEF MainCountsKept
    <2>4. QED
      BY <1>4, <2>2, <2>3 DEF Fresh
  <1>8. ASSUME NEW r \in Sockets, Connect(r)
        PROVE  Token(s)'
    <2> DEFINE e == AddSubscriber(r)
    <2>1. e \in MainTasks /\ e.kind = "add" /\ e.socket = r
      BY TasksAreTyped DEF AddSubscriber
    <2>2. /\ mainQueue' = Append(mainQueue, e) /\ client[r] = "accepted"
          /\ client' = [client EXCEPT ![r] = "up"]
      BY <1>8 DEF Connect
    <2> HIDE DEF e
    <2>3. Watches(s)' = Watches(s) /\ Removals(s)' = Removals(s)
      BY <1>1, <2>1, <2>2, MainPost
    <2>4. CASE r # s
      <3>1. MainCountsKept(s)
        BY <1>1, <2>1, <2>2, <2>4, MainPost DEF MainCountsKept
      <3>2. Fresh(s)' <=> Fresh(s)
        BY <1>1, <2>2, <2>4 DEF Fresh, TypeOK
      <3>3. QED
        BY <1>4, <3>1, <3>2
    <2>5. CASE r = s
      <3>1. Adds(s)' = Adds(s) + 1
        BY <1>1, <2>1, <2>2, <2>5, MainPost
      <3>2. Fresh(s) /\ ~Fresh(s)'
        BY <1>1, <2>2, <2>5 DEF Fresh, TypeOK
      <3>3. /\ Tokens(s) = 0 /\ s \notin socketMap /\ ~closed[s]
            /\ Shutdowns(s) + Closing(s) = 0
        BY <1>1, <3>2 DEF Token
      <3>4. Tokens(s)' = 1
        BY <1>1, <1>2, <1>3, <2>3, <3>1, <3>3, Numbers
           DEF Tokens, WorkerCountsKept, TakenKept
      <3>5. Shutdowns(s)' + Closing(s)' = 0
        BY <1>3, <3>3 DEF WorkerCountsKept, TakenKept
      <3>6. s \in ready' => socketList'[s] > 0
        BY <1>1, <1>2 DEF Token
      <3>7. QED
        BY <1>2, <3>2, <3>3, <3>4, <3>5, <3>6 DEF Token
    <2>6. QED
      BY <2>4, <2>5
  <1>9. QED
    BY <1>5, <1>6, <1>7, <1>8

\* removeSubscriberImpl() of a subscriber, with nothing else in the step that
\* touches a token: its shutdown becomes pending, its token may go.
LEMMA RemovalToken ==
    ASSUME TokenInv, NEW r \in Sockets, NEW c \in BOOLEAN, r \in socketMap,
           RemoveSubscriberImpl(r, c),
           ready' = {}, UNCHANGED <<workers, closed, client>>,
           NEW s \in Sockets,
           Adds(s)' = Adds(s), Watches(s)' = Watches(s),
           r # s => Removals(s)' = Removals(s)
    PROVE  Token(s)'
  <1> DEFINE e == Shutdown(r, c)
  <1>1. Token(s) /\ TypeOK
    BY DEF TokenInv
  <1>2. e \in WorkerTasks /\ e.kind = "shutdown" /\ e.socket = r
    BY TasksAreTyped DEF Shutdown
  <1>3. /\ workerQueue' = Append(workerQueue, e)
        /\ socketMap' = socketMap \ {r} /\ socketList' = Unwatched(r)
    BY DEF RemoveSubscriberImpl
  <1> HIDE DEF e
  <1>4. TakenKept(s) /\ (Fresh(s)' <=> Fresh(s)) /\ closed'[s] = closed[s]
    BY CountsKept DEF Fresh
  <1>5. Receives(s)' = Receives(s)
    BY <1>1, <1>2, <1>3, WorkerPost
  <1>6. CASE r # s
    <2>1. Shutdowns(s)' = Shutdowns(s)
      BY <1>1, <1>2, <1>3, <1>6, WorkerPost
    <2>2. socketList'[s] = socketList[s] /\ (s \in socketMap' <=> s \in socketMap)
      BY <1>1, <1>3, <1>6 DEF Unwatched, TypeOK
    <2>3. Kept(s)
      BY <1>4, <1>5, <1>6, <2>1, <2>2 DEF Kept, MainCountsKept, WorkerCountsKept
    <2>4. QED
      BY <1>1, <2>3, KeptToken
  <1>7. CASE r = s
    <2>1. Shutdowns(s)' = Shutdowns(s) + 1 /\ Closing(s)' = Closing(s) /\ Reading(s)' = Reading(s)
      BY <1>1, <1>2, <1>3, <1>4, <1>7, WorkerPost DEF TakenKept
    <2>2. /\ Shutdowns(s) + Closing(s) = 0 /\ ~closed[s] /\ Adds(s) = 0 /\ ~Fresh(s)
          /\ Tokens(s) <= 1
      BY <1>1, <1>7 DEF Token
    <2>3. Shutdowns(s)' + Closing(s)' = 1
      BY <1>1, <2>1, <2>2, Numbers
    <2>4. \/ socketList'[s] = socketList[s]
          \/ socketList'[s] = socketList[s] - 1
      BY <1>1, <1>3, <1>7 DEF Unwatched, TypeOK
    <2>5. Tokens(s)' = Tokens(s) \/ Tokens(s)' = Tokens(s) - 1
      BY <1>1, <1>5, <2>1, <2>4, Numbers DEF Tokens
    <2>6. Tokens(s) \in Nat
      BY <1>1, Numbers DEF Tokens
    <2>7. Tokens(s)' <= 1
      BY <2>2, <2>5, <2>6
    <2>8. QED
      BY <1>3, <1>4, <1>7, <2>2, <2>3, <2>7 DEF Token
  <1>8. QED
    BY <1>6, <1>7

\* The main thread between its tasks: a readable socket's token goes from the
\* list to the worker queue.
LEMMA SelectToken ==
    ASSUME TokenInv, NEW s \in Sockets,
           Select \/ (\E r \in Sockets : ProcessReady(r) \/ ProcessBroken(r)) \/ Drained
    PROVE  Token(s)'
  <1> USE DEF maps, workers, clients
  <1>1. Token(s) /\ TypeOK
    BY DEF TokenInv
  <1>2. UNCHANGED <<mainQueue, workers, closed, client>>
    BY DEF Select, ProcessReady, ProcessBroken, Drained
  <1>3. MainCountsKept(s) /\ TakenKept(s) /\ (Fresh(s)' <=> Fresh(s))
    BY <1>2, CountsKept DEF Fresh
  <1>4. CASE Select \/ Drained
    <2>1. /\ UNCHANGED <<socketMap, socketList, workerQueue>>
          /\ s \in ready' => s \in ready \/ socketList[s] > 0
      BY <1>4 DEF Select, Drained
    <2>2. Kept(s)
      BY <1>2, <1>3, <2>1, CountsKept DEF Kept
    <2>3. QED
      BY <1>1, <2>2, KeptToken
  <1>5. ASSUME NEW r \in Sockets, ProcessReady(r)
        PROVE  Token(s)'
    <2>1. r \in ready /\ ready' = ready \ {r} /\ socketMap' = socketMap
      BY <1>5 DEF ProcessReady
    <2>2. CASE r \notin socketMap
      <3>1. UNCHANGED <<workerQueue, socketList>>
        BY <1>5, <2>2 DEF ProcessReady
      <3>2. Kept(s)
        BY <1>2, <1>3, <2>1, <3>1, CountsKept DEF Kept
      <3>3. QED
        BY <1>1, <3>2, KeptToken
    <2>3. CASE r \in socketMap
      <3> DEFINE e == Receive(r)
      <3>1. e \in WorkerTasks /\ e.kind = "receive" /\ e.socket = r
        BY TasksAreTyped DEF Receive
      <3>2. workerQueue' = Append(workerQueue, e) /\ socketList' = Unwatched(r)
        BY <1>5, <2>3 DEF ProcessReady
      <3> HIDE DEF e
      <3>3. Shutdowns(s)' = Shutdowns(s)
        BY <1>1, <3>1, <3>2, WorkerPost
      <3>4. CASE r # s
        <4>1. WorkerCountsKept(s)
          BY <1>1, <3>1, <3>2, <3>3, <3>4, WorkerPost DEF WorkerCountsKept
        <4>2. socketList'[s] = socketList[s]
          BY <1>1, <3>2, <3>4 DEF Unwatched, TypeOK
        <4>3. Kept(s)
          BY <1>2, <1>3, <2>1, <4>1, <4>2 DEF Kept
        <4>4. QED
          BY <1>1, <4>3, KeptToken
      <3>5. CASE r = s
        <4>1. Receives(s)' = Receives(s) + 1
          BY <1>1, <3>1, <3>2, <3>5, WorkerPost
        <4>2. socketList[s] > 0
          BY <1>1, <2>1, <3>5 DEF Token
        <4>3. socketList'[s] = socketList[s] - 1
          BY <1>1, <3>2, <3>5, <4>2 DEF Unwatched, TypeOK
        <4>4. Tokens(s)' = Tokens(s)
          BY <1>1, <1>3, <4>1, <4>2, <4>3, Numbers DEF Tokens, MainCountsKept, TakenKept
        <4>5. Adds(s)' = Adds(s) /\ Removals(s)' = Removals(s) /\ Closing(s)' = Closing(s)
          BY <1>3 DEF MainCountsKept, TakenKept
        <4>6. s \notin ready' /\ closed'[s] = closed[s]
          BY <1>2, <2>1, <3>5
        <4>7. QED
          BY <1>1, <1>3, <2>1, <3>3, <4>4, <4>5, <4>6 DEF Token
      <3>6. QED
        BY <3>4, <3>5
    <2>4. QED
      BY <2>2, <2>3
  <1>6. ASSUME NEW r \in Sockets, ProcessBroken(r)
        PROVE  Token(s)'
    <2>1. ready = {} /\ ready' = ready
      BY <1>6 DEF ProcessBroken
    <2>2. CASE r \notin socketMap
      <3>1. UNCHANGED <<workerQueue, socketList, socketMap>>
        BY <1>6, <2>2 DEF ProcessBroken
      <3>2. Kept(s)
        BY <1>2, <1>3, <2>1, <3>1, CountsKept DEF Kept
      <3>3. QED
        BY <1>1, <3>2, KeptToken
    <2>3. CASE r \in socketMap
      <3>1. RemoveSubscriberImpl(r, FALSE)
        BY <1>6, <2>3 DEF ProcessBroken
      <3>2. FALSE \in BOOLEAN /\ ready' = {} /\ UNCHANGED <<workers, closed, client>>
        BY <1>2, <2>1
      <3>3. Adds(s)' = Adds(s) /\ Watches(s)' = Watches(s) /\ Removals(s)' = Removals(s)
        BY <1>3 DEF MainCountsKept
      <3> HIDE DEF workers
      <3>4. QED
        BY <2>3, <3>1, <3>2, <3>3, RemovalToken
    <2>4. QED
      BY <2>2, <2>3
  <1>7. QED
    BY <1>4, <1>5, <1>6

\* A task of the main queue: joining and watching turn a task's token into an
\* entry of the list.
LEMMA MainTaskToken ==
    ASSUME TokenInv, NEW s \in Sockets, MainTask
    PROVE  Token(s)'
  <1> DEFINE t == Head(mainQueue)
  <1> USE DEF maps
  <1>1. Token(s) /\ TypeOK
    BY DEF TokenInv
  <1>2. /\ mainPc = "drain" /\ mainQueue # <<>> /\ mainQueue' = Tail(mainQueue)
        /\ UNCHANGED <<ready, workers, closed, client>>
        /\ ExecuteAdd(t) \/ ExecuteRemove(t) \/ ExecuteSubscribe(t)
           \/ ExecuteUnsubscribe(t) \/ ExecuteWatch(t) \/ ExecuteNotify(t)
    BY DEF MainTask, TakeMain, mainState, clients
  <1>3. ready = {} /\ ready' = {}
    BY <1>2 DEF TokenInv, ReadyInProcess
  <1>4. t \in MainTasks
    BY <1>1, <1>2 DEF TypeOK
  <1>5. /\ t.kind = "add" /\ t.socket = s => Adds(s) = Adds(s)' + 1
        /\ t.kind # "add" \/ t.socket # s => Adds(s) = Adds(s)'
        /\ t.kind = "watch" /\ t.socket = s => Watches(s) = Watches(s)' + 1
        /\ t.kind # "watch" \/ t.socket # s => Watches(s) = Watches(s)'
        /\ t.kind # "remove" \/ t.socket # s => Removals(s) = Removals(s)'
        /\ Adds(s)' \in Nat /\ Watches(s)' \in Nat /\ Removals(s)' \in Nat
    BY <1>1, <1>2, MainTake
  <1> HIDE DEF t
  <1>6. TakenKept(s) /\ (Fresh(s)' <=> Fresh(s)) /\ closed'[s] = closed[s]
    BY <1>2, CountsKept DEF Fresh
  <1>7. CASE ExecuteAdd(t)
    <2>1. /\ t.kind = "add" /\ t.socket \in Sockets
          /\ socketMap' = socketMap \cup {t.socket} /\ workerQueue' = workerQueue
          /\ socketList' = [socketList EXCEPT ![t.socket] = @ + 1]
      BY <1>4, <1>7, MainTaskKinds DEF ExecuteAdd
    <2>2. WorkerCountsKept(s) /\ Watches(s)' = Watches(s) /\ Removals(s)' = Removals(s)
      BY <1>5, <2>1, CountsKept
    <2>3. CASE t.socket # s
      <3>1. Kept(s)
        BY <1>1, <1>3, <1>5, <1>6, <2>1, <2>2, <2>3 DEF Kept, MainCountsKept, TypeOK
      <3>2. QED
        BY <1>1, <3>1, KeptToken
    <2>4. CASE t.socket = s
      <3>1. Adds(s) = Adds(s)' + 1 /\ Adds(s)' \in Nat /\ socketList'[s] = socketList[s] + 1
        BY <1>1, <1>5, <2>1, <2>4 DEF TypeOK
      <3>2. /\ ~closed[s] /\ Shutdowns(s) + Closing(s) = 0 /\ Tokens(s) <= 1
            /\ Fresh(s) => Tokens(s) = 0
        BY <1>1, <3>1 DEF Token
      <3>3. Adds(s)' = 0 /\ Tokens(s)' = 1 /\ Tokens(s) = 1
        BY <1>1, <1>6, <2>2, <3>1, <3>2, Numbers DEF Tokens, WorkerCountsKept, TakenKept
      <3>4. Shutdowns(s)' + Closing(s)' = 0
        BY <1>6, <2>2, <3>2 DEF WorkerCountsKept, TakenKept
      <3>5. ~Fresh(s)
        BY <3>2, <3>3
      <3>6. QED
        BY <1>3, <1>6, <3>2, <3>3, <3>4, <3>5 DEF Token
    <2>5. QED
      BY <2>3, <2>4
  <1>8. CASE ExecuteRemove(t)
    <2>1. t.kind = "remove" /\ t.socket \in Sockets /\ t.byClient \in BOOLEAN
      BY <1>4, <1>8, MainTaskKinds DEF ExecuteRemove
    <2>2. Adds(s)' = Adds(s) /\ Watches(s)' = Watches(s)
      BY <1>5, <2>1
    <2>3. t.socket # s => Removals(s)' = Removals(s)
      BY <1>5
    <2>4. CASE t.socket \in socketMap
      <3>1. RemoveSubscriberImpl(t.socket, t.byClient)
        BY <1>8, <2>4 DEF ExecuteRemove
      <3> DEFINE r == t.socket
                 c == t.byClient
      <3>2. /\ r \in Sockets /\ c \in BOOLEAN /\ r \in socketMap /\ RemoveSubscriberImpl(r, c)
            /\ r # s => Removals(s)' = Removals(s)
        BY <2>1, <2>3, <2>4, <3>1
      <3> HIDE DEF r, c
      <3>3. QED
        BY <1>2, <1>3, <2>2, <3>2, RemovalToken
    <2>5. CASE t.socket \notin socketMap
      <3>1. UNCHANGED <<socketMap, socketList, workerQueue>>
        BY <1>8, <2>5 DEF ExecuteRemove
      <3>2. WorkerCountsKept(s)
        BY <3>1, CountsKept
      <3>3. CASE t.socket # s
        <4>1. Kept(s)
          BY <1>3, <1>6, <2>2, <2>3, <3>1, <3>2, <3>3 DEF Kept, MainCountsKept
        <4>2. QED
          BY <1>1, <4>1, KeptToken
      <3>4. CASE t.socket = s
        <4>1. Tokens(s)' = Tokens(s) /\ Shutdowns(s)' = Shutdowns(s) /\ Closing(s)' = Closing(s)
          BY <1>6, <2>2, <3>1, <3>2 DEF Tokens, WorkerCountsKept, TakenKept
        <4>2. QED
          BY <1>1, <1>3, <1>6, <2>2, <2>5, <3>1, <3>4, <4>1 DEF Token
      <3>5. QED
        BY <3>3, <3>4
    <2>6. QED
      BY <2>4, <2>5
  <1>9. CASE ExecuteWatch(t)
    <2>1. /\ t.kind = "watch" /\ t.socket \in Sockets
          /\ UNCHANGED <<socketMap, workerQueue>>
          /\ socketList' = [socketList EXCEPT ![t.socket] = @ + 1]
      BY <1>4, <1>9, MainTaskKinds DEF ExecuteWatch
    <2>2. WorkerCountsKept(s) /\ Adds(s)' = Adds(s) /\ Removals(s)' = Removals(s)
      BY <1>5, <2>1, CountsKept
    <2>3. CASE t.socket # s
      <3>1. Kept(s)
        BY <1>1, <1>3, <1>5, <1>6, <2>1, <2>2, <2>3 DEF Kept, MainCountsKept, TypeOK
      <3>2. QED
        BY <1>1, <3>1, KeptToken
    <2>4. CASE t.socket = s
      <3>1. Watches(s) = Watches(s)' + 1 /\ socketList'[s] = socketList[s] + 1
        BY <1>1, <1>5, <2>1, <2>4 DEF TypeOK
      <3>2. Tokens(s)' = Tokens(s)
        BY <1>1, <1>5, <1>6, <2>2, <3>1, Numbers DEF Tokens, WorkerCountsKept, TakenKept
      <3>3. Shutdowns(s)' = Shutdowns(s) /\ Closing(s)' = Closing(s)
        BY <1>6, <2>2 DEF WorkerCountsKept, TakenKept
      <3>4. QED
        BY <1>1, <1>3, <1>6, <2>1, <2>2, <3>2, <3>3 DEF Token
    <2>5. QED
      BY <2>3, <2>4
  <1>10. CASE ExecuteSubscribe(t) \/ ExecuteUnsubscribe(t) \/ ExecuteNotify(t)
    <2>1. t.kind \in {"subscribe", "unsubscribe", "notify"} /\ UNCHANGED <<socketMap, socketList>>
      BY <1>10 DEF ExecuteSubscribe, ExecuteUnsubscribe, ExecuteNotify
    <2>2. MainCountsKept(s)
      BY <1>5, <2>1 DEF MainCountsKept
    <2>3. WorkerCountsKept(s)
      <3>1. CASE workerQueue' = workerQueue
        BY <3>1, CountsKept
      <3>2. CASE ExecuteNotify(t)
        <4>1. t.kind = "notify" /\ t.subject \in Subjects
          BY <1>4, <3>2, MainTaskKinds DEF ExecuteNotify
        <4>2. PICK order \in SetToSeqs({Send(e[2], t.subject, e[1]) :
                              e \in {d \in subjectMap : d[1] \in Levels(t.subject)}}) :
                workerQueue' = workerQueue \o order
          BY <3>2 DEF ExecuteNotify
        <4>3. order \in Seq(SendTasks)
          BY <1>1, <4>1, <4>2, OrderIsSendTasks
        <4>4. \A i \in DOMAIN order : order[i].kind = "send"
          BY <4>3 DEF SendTasks, Send
        <4>5. order \in Seq(WorkerTasks) /\ workerQueue \in Seq(WorkerTasks)
          BY <1>1, <4>3 DEF WorkerTasks, TypeOK
        <4>6. Count(order, "receive", s) = 0 /\ Count(order, "shutdown", s) = 0
          BY <4>4, CountNone
        <4>7. \A kind : Count(workerQueue \o order, kind, s)
                            = Count(workerQueue, kind, s) + Count(order, kind, s)
          BY <4>5, CountConcat
        <4>8. Receives(s) \in Nat /\ Shutdowns(s) \in Nat
          BY <1>1, Numbers
        <4>9. QED
          BY <4>2, <4>6, <4>7, <4>8 DEF WorkerCountsKept, Receives, Shutdowns
      <3>3. QED
        BY <1>10, <3>1, <3>2 DEF ExecuteSubscribe, ExecuteUnsubscribe
    <2>4. Kept(s)
      BY <1>3, <1>6, <2>1, <2>2, <2>3 DEF Kept
    <2>5. QED
      BY <1>1, <2>4, KeptToken
  <1>11. QED
    BY <1>2, <1>7, <1>8, <1>9, <1>10

\* What a worker holds changes by the task it takes or finishes.
LEMMA TakenAdd ==
    ASSUME TypeOK, NEW w \in Workers, WorkerTakes(w), NEW e, e = Head(workerQueue),
           NEW kind, NEW s \in Sockets
    PROVE  /\ e.kind = kind /\ e.socket = s => TakenBy(kind, s)' = TakenBy(kind, s) + 1
           /\ e.kind # kind \/ e.socket # s => TakenBy(kind, s)' = TakenBy(kind, s)
  <1>1. /\ workerPc[w] = "dequeue" /\ task' = [task EXCEPT ![w] = e]
        /\ workerPc' = [workerPc EXCEPT ![w] = "execute"]
    BY DEF WorkerTakes
  <1>2. workerPc'[w] = "execute" /\ task'[w] = e
    BY <1>1 DEF TypeOK
  <1>3. \A v \in Workers \ {w} : workerPc'[v] = workerPc[v] /\ task'[v] = task[v]
    BY <1>1 DEF TypeOK
  <1>4. w \notin Taken(kind, s)
    BY <1>1 DEF Taken, Executing
  <1>5. IsFiniteSet(Taken(kind, s))
    BY Numbers
  <1>6. CASE e.kind = kind /\ e.socket = s
    <2>1. Taken(kind, s)' = Taken(kind, s) \cup {w}
      BY <1>2, <1>3, <1>6 DEF Taken, Executing
    <2>2. Cardinality(Taken(kind, s) \cup {w}) = Cardinality(Taken(kind, s)) + 1
      BY <1>4, <1>5, FS_AddElement
    <2>3. QED
      BY <1>6, <2>1, <2>2 DEF TakenBy
  <1>7. CASE e.kind # kind \/ e.socket # s
    <2>1. Taken(kind, s)' = Taken(kind, s)
      BY <1>2, <1>3, <1>4, <1>7 DEF Taken, Executing
    <2>2. QED
      BY <1>7, <2>1 DEF TakenBy
  <1>8. QED
    BY <1>6, <1>7

LEMMA TakenRemove ==
    ASSUME TypeOK, NEW w \in Workers, NEW posted, WorkerDone(w, posted),
           workerPc[w] = "execute", NEW kind, NEW s \in Sockets
    PROVE  /\ task[w].kind = kind /\ task[w].socket = s => TakenBy(kind, s) = TakenBy(kind, s)' + 1
           /\ task[w].kind # kind \/ task[w].socket # s => TakenBy(kind, s)' = TakenBy(kind, s)
           /\ TakenBy(kind, s)' \in Nat
  <1>1. workerPc'[w] # "execute"
    BY DEF WorkerDone, TypeOK
  <1>2. \A v \in Workers \ {w} : workerPc'[v] = workerPc[v] /\ task'[v] = task[v]
    BY DEF WorkerDone, TypeOK
  <1>3. Taken(kind, s)' = Taken(kind, s) \ {w}
    BY <1>1, <1>2 DEF Taken, Executing
  <1>4. IsFiniteSet(Taken(kind, s)) /\ Cardinality(Taken(kind, s)) \in Nat
    BY Numbers, FS_CardinalityType
  <1>5. IsFiniteSet(Taken(kind, s) \ {w}) /\ Cardinality(Taken(kind, s) \ {w}) \in Nat
    BY <1>4, FS_RemoveElement, FS_CardinalityType
  <1>6. CASE task[w].kind = kind /\ task[w].socket = s
    <2>1. w \in Taken(kind, s)
      BY <1>6 DEF Taken, Executing
    <2>2. Cardinality(Taken(kind, s) \ {w}) = Cardinality(Taken(kind, s)) - 1
      BY <1>4, <2>1, FS_RemoveElement
    <2>3. QED
      BY <1>3, <1>4, <1>5, <1>6, <2>2 DEF TakenBy
  <1>7. CASE task[w].kind # kind \/ task[w].socket # s
    <2>1. w \notin Taken(kind, s)
      BY <1>7 DEF Taken, Executing
    <2>2. Taken(kind, s) \ {w} = Taken(kind, s)
      BY <2>1
    <2>3. QED
      BY <1>3, <1>4, <1>7, <2>2 DEF TakenBy
  <1>8. QED
    BY <1>6, <1>7

\* A worker takes a task: the token goes from the worker queue to the worker.
LEMMA WorkerTakesToken ==
    ASSUME TokenInv, NEW s \in Sockets, NEW w \in Workers, WorkerTakes(w)
    PROVE  Token(s)'
  <1> DEFINE e == Head(workerQueue)
  <1>1. Token(s) /\ TypeOK
    BY DEF TokenInv
  <1>2. /\ workerQueue # <<>> /\ workerQueue' = Tail(workerQueue)
        /\ UNCHANGED <<socketMap, socketList, mainQueue, ready, closed, client>>
    BY DEF WorkerTakes, maps, mainState, clients
  <1>3. /\ e.kind = "receive" /\ e.socket = s => Receives(s) = Receives(s)' + 1
        /\ e.kind # "receive" \/ e.socket # s => Receives(s) = Receives(s)'
        /\ e.kind = "shutdown" /\ e.socket = s => Shutdowns(s) = Shutdowns(s)' + 1
        /\ e.kind # "shutdown" \/ e.socket # s => Shutdowns(s) = Shutdowns(s)'
        /\ Receives(s)' \in Nat /\ Shutdowns(s)' \in Nat
    BY <1>1, <1>2, WorkerTake
  <1>4. /\ e.kind = "receive" /\ e.socket = s => Reading(s)' = Reading(s) + 1
        /\ e.kind # "receive" \/ e.socket # s => Reading(s)' = Reading(s)
        /\ e.kind = "shutdown" /\ e.socket = s => Closing(s)' = Closing(s) + 1
        /\ e.kind # "shutdown" \/ e.socket # s => Closing(s)' = Closing(s)
    BY <1>1, TakenAdd DEF Reading, Closing
  <1> HIDE DEF e
  <1>5. Reading(s) \in Nat /\ Closing(s) \in Nat
    BY <1>1, Numbers
  <1>6. Receives(s)' + Reading(s)' = Receives(s) + Reading(s)
    <2>1. CASE e.kind = "receive" /\ e.socket = s
      BY <1>3, <1>4, <1>5, <2>1
    <2>2. CASE e.kind # "receive" \/ e.socket # s
      BY <1>3, <1>4, <2>2
    <2>3. QED
      BY <2>1, <2>2
  <1>7. Shutdowns(s)' + Closing(s)' = Shutdowns(s) + Closing(s)
    <2>1. CASE e.kind = "shutdown" /\ e.socket = s
      BY <1>3, <1>4, <1>5, <2>1
    <2>2. CASE e.kind # "shutdown" \/ e.socket # s
      BY <1>3, <1>4, <2>2
    <2>3. QED
      BY <2>1, <2>2
  <1>8. MainCountsKept(s) /\ (Fresh(s)' <=> Fresh(s))
    BY <1>2, CountsKept DEF Fresh
  <1>9. Reading(s)' \in Nat
    BY <1>4, <1>5
  <1>10. Tokens(s)' = Tokens(s)
    <2>1. /\ Adds(s)' = Adds(s) /\ Watches(s)' = Watches(s) /\ socketList'[s] = socketList[s]
          /\ Adds(s) \in Nat /\ Watches(s) \in Nat /\ socketList[s] \in Nat /\ Receives(s) \in Nat
      BY <1>1, <1>2, <1>8, Numbers DEF MainCountsKept
    <2>2. CASE e.kind = "receive" /\ e.socket = s
      BY <1>3, <1>4, <1>5, <2>1, <2>2 DEF Tokens
    <2>3. CASE e.kind # "receive" \/ e.socket # s
      BY <1>3, <1>4, <2>1, <2>3 DEF Tokens
    <2>4. QED
      BY <2>2, <2>3
  <1>11. QED
    BY <1>1, <1>2, <1>7, <1>8, <1>10 DEF Token, MainCountsKept

\* What a worker posts to the main queue at the end of a task.
LEMMA WorkerPostings ==
    ASSUME TypeOK, NEW w \in Workers, WorkerExecutes(w)
    PROVE  /\ workerPc[w] = "execute" /\ \E posted : WorkerDone(w, posted)
           /\ \/ task[w].kind \in {"send", "shutdown"} /\ mainQueue' = mainQueue
              \/ /\ task[w].kind \in {"send", "receive"}
                 /\ \E c \in BOOLEAN :
                       mainQueue' = Append(mainQueue, RemoveSubscriber(task[w].socket, c))
              \/ /\ task[w].kind = "receive"
                 /\ mainQueue' = Append(mainQueue, WatchSocket(task[w].socket))
              \/ /\ task[w].kind = "receive"
                 /\ \E t \in MainTasks :
                       /\ t.kind \in {"subscribe", "unsubscribe", "notify"}
                       /\ mainQueue' = Append(Append(mainQueue, t), WatchSocket(task[w].socket))
           /\ workerQueue' = workerQueue \/ \E r \in Sockets :
                 workerQueue' = Append(workerQueue, Send(r, SystemPong, SystemPong))
           /\ \/ closed' = closed
              \/ task[w].kind = "shutdown" /\ closed' = [closed EXCEPT ![task[w].socket] = TRUE]
  <1> DEFINE s == task[w].socket
  <1>1. s \in Sockets
    BY WorkerTaskKinds DEF WorkerExecutes, SendDelivers, SendFails, ReceiveIgnored, ReceiveEnd,
       ReceiveRequest, ReceiveViolation, ReceiveFails, ShutdownCloses, ShutdownThrows,
       ReceivesFrame, Executing, TypeOK
  <1>2. /\ mainQueue \in Seq(MainTasks) /\ mainQueue \o <<>> = mainQueue
        /\ \A t : mainQueue \o <<t>> = Append(mainQueue, t)
        /\ \A t, u : mainQueue \o <<t, u>> = Append(Append(mainQueue, t), u)
    BY DEF TypeOK
  <1>3. \A posted : WorkerDone(w, posted) => mainQueue' = mainQueue \o posted
    BY DEF WorkerDone
  <1> HIDE DEF s
  <1>4. CASE SendDelivers(w) \/ ShutdownThrows(w) \/ ShutdownCloses(w)
    BY <1>2, <1>3, <1>4 DEF SendDelivers, ShutdownThrows, ShutdownCloses, Executing
  <1>5. CASE SendFails(w)
    BY <1>2, <1>3, <1>5 DEF SendFails, Executing
  <1>6. CASE ReceiveIgnored(w)
    BY <1>2, <1>3, <1>6 DEF ReceiveIgnored, ReceivesFrame, Executing
  <1>7. CASE ReceiveEnd(w) \/ ReceiveViolation(w) \/ ReceiveFails(w)
    BY <1>2, <1>3, <1>7 DEF ReceiveEnd, ReceiveViolation, ReceiveFails, ReceivesFrame, Executing
  <1>8. CASE ReceiveRequest(w)
    <2>1. PICK f \in ClientFrames :
            /\ ReceivesFrame(w, f)
            /\ \/ f.verb = "SUBSCRIBE" /\ WorkerDone(w, <<Subscribe(s, f.subject), WatchSocket(s)>>)
                  /\ UNCHANGED workerQueue
               \/ f.verb = "UNSUBSCRIBE" /\ WorkerDone(w, <<Unsubscribe(s, f.subject), WatchSocket(s)>>)
                  /\ UNCHANGED workerQueue
               \/ /\ f.verb = "NOTIFY" /\ f.subject # SystemPing
                  /\ WorkerDone(w, <<Notify(f.subject), WatchSocket(s)>>)
                  /\ UNCHANGED workerQueue
               \/ /\ workerQueue' = Append(workerQueue, Send(s, SystemPong, SystemPong))
                  /\ WorkerDone(w, <<WatchSocket(s)>>)
      BY <1>8 DEF ReceiveRequest, s
    <2>2. workerPc[w] = "execute" /\ task[w].kind = "receive" /\ closed' = closed
      BY <2>1 DEF ReceivesFrame, Executing
    <2>3. CASE \E t \in MainTasks : /\ t.kind \in {"subscribe", "unsubscribe", "notify"}
                                    /\ WorkerDone(w, <<t, WatchSocket(s)>>)
                                    /\ UNCHANGED workerQueue
      <3>1. PICK t \in MainTasks : /\ t.kind \in {"subscribe", "unsubscribe", "notify"}
                                   /\ WorkerDone(w, <<t, WatchSocket(s)>>)
                                   /\ UNCHANGED workerQueue
        BY <2>3
      <3>2. mainQueue' = Append(Append(mainQueue, t), WatchSocket(s))
        BY <1>2, <1>3, <3>1
      <3>3. QED
        BY <2>2, <3>1, <3>2 DEF s
    <2>4. CASE /\ workerQueue' = Append(workerQueue, Send(s, SystemPong, SystemPong))
               /\ WorkerDone(w, <<WatchSocket(s)>>)
      <3>1. mainQueue' = Append(mainQueue, WatchSocket(s))
        BY <1>2, <1>3, <2>4
      <3>2. QED
        BY <1>1, <2>2, <2>4, <3>1 DEF s
    <2>5. CASE f.verb = "SUBSCRIBE" /\ WorkerDone(w, <<Subscribe(s, f.subject), WatchSocket(s)>>)
               /\ UNCHANGED workerQueue
      <3>1. Subscribe(s, f.subject) \in MainTasks /\ Subscribe(s, f.subject).kind = "subscribe"
        BY <1>1, <2>5, FramesAssumption, TasksAreTyped DEF Subscribe
      <3>2. QED
        BY <2>3, <2>5, <3>1
    <2>6. CASE f.verb = "UNSUBSCRIBE" /\ WorkerDone(w, <<Unsubscribe(s, f.subject), WatchSocket(s)>>)
               /\ UNCHANGED workerQueue
      <3>1. Unsubscribe(s, f.subject) \in MainTasks /\ Unsubscribe(s, f.subject).kind = "unsubscribe"
        BY <1>1, <2>6, FramesAssumption, TasksAreTyped DEF Unsubscribe
      <3>2. QED
        BY <2>3, <2>6, <3>1
    <2>7. CASE /\ f.verb = "NOTIFY" /\ f.subject # SystemPing
               /\ WorkerDone(w, <<Notify(f.subject), WatchSocket(s)>>)
               /\ UNCHANGED workerQueue
      <3>1. Notify(f.subject) \in MainTasks /\ Notify(f.subject).kind = "notify"
        BY <2>7, FramesAssumption, TasksAreTyped DEF Notify
      <3>2. QED
        BY <2>3, <2>7, <3>1
    <2>8. QED
      BY <2>1, <2>4, <2>5, <2>6, <2>7
  <1>9. QED
    BY <1>4, <1>5, <1>6, <1>7, <1>8 DEF WorkerExecutes

\* A worker finishes a task: after a read it posts the token back to the main
\* queue, or it asks for the removal; after a shutdown the socket is closed.
LEMMA WorkerExecutesToken ==
    ASSUME TokenInv, NEW s \in Sockets, NEW w \in Workers, WorkerExecutes(w)
    PROVE  Token(s)'
  <1> DEFINE t == task[w]
  <1>1. Token(s) /\ TypeOK
    BY DEF TokenInv
  <1>2. PICK posted : WorkerDone(w, posted)
    BY <1>1, WorkerPostings
  <1>3. workerPc[w] = "execute" /\ t \in WorkerTasks
    BY <1>1, WorkerPostings DEF TypeOK
  <1>4. /\ t.kind = "receive" /\ t.socket = s => Reading(s) = Reading(s)' + 1
        /\ t.kind # "receive" \/ t.socket # s => Reading(s)' = Reading(s)
        /\ t.kind = "shutdown" /\ t.socket = s => Closing(s) = Closing(s)' + 1
        /\ t.kind # "shutdown" \/ t.socket # s => Closing(s)' = Closing(s)
        /\ Reading(s)' \in Nat /\ Closing(s)' \in Nat
    BY <1>1, <1>2, <1>3, TakenRemove DEF Reading, Closing
  <1>5. /\ \/ t.kind \in {"send", "shutdown"} /\ mainQueue' = mainQueue
           \/ /\ t.kind \in {"send", "receive"}
              /\ \E c \in BOOLEAN : mainQueue' = Append(mainQueue, RemoveSubscriber(t.socket, c))
           \/ t.kind = "receive" /\ mainQueue' = Append(mainQueue, WatchSocket(t.socket))
           \/ /\ t.kind = "receive"
              /\ \E u \in MainTasks :
                    /\ u.kind \in {"subscribe", "unsubscribe", "notify"}
                    /\ mainQueue' = Append(Append(mainQueue, u), WatchSocket(t.socket))
        /\ workerQueue' = workerQueue \/ \E r \in Sockets :
                 workerQueue' = Append(workerQueue, Send(r, SystemPong, SystemPong))
        /\ \/ closed' = closed
           \/ t.kind = "shutdown" /\ closed' = [closed EXCEPT ![t.socket] = TRUE]
    BY <1>1, WorkerPostings
  <1> HIDE DEF t
  <1>6. t.socket \in Sockets /\ t.kind \in {"receive", "send", "shutdown"}
    BY <1>3, WorkerTaskKinds
  <1>7. UNCHANGED <<socketMap, socketList, ready, client>>
    BY <1>1, <1>2, WorkerIO DEF WorkerDone, maps, mainState
  <1>8. WorkerCountsKept(s)
    <2>1. CASE workerQueue' = workerQueue
      BY <2>1, CountsKept
    <2>2. ASSUME NEW r \in Sockets, workerQueue' = Append(workerQueue, Send(r, SystemPong, SystemPong))
          PROVE  WorkerCountsKept(s)
      <3> DEFINE e == Send(r, SystemPong, SystemPong)
      <3>1. e \in WorkerTasks /\ e.kind = "send" /\ workerQueue' = Append(workerQueue, e)
        BY <2>2, TasksAreTyped DEF Send
      <3> HIDE DEF e
      <3>2. QED
        BY <1>1, <3>1, WorkerPost DEF WorkerCountsKept
    <2>3. QED
      BY <1>5, <2>1, <2>2
  <1>9. Fresh(s)' <=> Fresh(s)
    BY <1>7 DEF Fresh
  <1>10. /\ Adds(s)' = Adds(s)
         /\ \/ t.kind = "receive" /\ t.socket = s /\ Watches(s)' = Watches(s) + 1
               /\ Removals(s)' = Removals(s)
            \/ Watches(s)' = Watches(s) /\ Removals(s)' = Removals(s)
               /\ (t.kind # "receive" \/ t.socket # s)
            \/ Watches(s)' = Watches(s) /\ Removals(s)' = Removals(s) + 1
    <2>1. mainQueue \in Seq(MainTasks)
      BY <1>1 DEF TypeOK
    <2>2. CASE t.kind \in {"send", "shutdown"} /\ mainQueue' = mainQueue
      BY <2>2, CountsKept DEF MainCountsKept
    <2>3. ASSUME NEW c \in BOOLEAN, mainQueue' = Append(mainQueue, RemoveSubscriber(t.socket, c))
          PROVE  /\ Adds(s)' = Adds(s) /\ Watches(s)' = Watches(s)
                 /\ t.socket # s => Removals(s)' = Removals(s)
                 /\ t.socket = s => Removals(s)' = Removals(s) + 1
      <3> DEFINE e == RemoveSubscriber(t.socket, c)
      <3>1. /\ e \in MainTasks /\ e.kind = "remove" /\ e.socket = t.socket
            /\ mainQueue' = Append(mainQueue, e)
        BY <1>6, <2>3, TasksAreTyped DEF RemoveSubscriber
      <3> HIDE DEF e
      <3>2. QED
        BY <1>1, <3>1, MainPost
    <2>4. CASE t.kind = "receive" /\ mainQueue' = Append(mainQueue, WatchSocket(t.socket))
      <3> DEFINE e == WatchSocket(t.socket)
      <3>1. /\ e \in MainTasks /\ e.kind = "watch" /\ e.socket = t.socket
            /\ mainQueue' = Append(mainQueue, e)
        BY <1>6, <2>4, TasksAreTyped DEF WatchSocket
      <3> HIDE DEF e
      <3>2. /\ Adds(s)' = Adds(s) /\ Removals(s)' = Removals(s)
            /\ t.socket = s => Watches(s)' = Watches(s) + 1
            /\ t.socket # s => Watches(s)' = Watches(s)
        BY <1>1, <3>1, MainPost
      <3>3. QED
        BY <2>4, <3>2
    <2>5. ASSUME NEW u \in MainTasks, t.kind = "receive",
                 u.kind \in {"subscribe", "unsubscribe", "notify"},
                 mainQueue' = Append(Append(mainQueue, u), WatchSocket(t.socket))
          PROVE  /\ Adds(s)' = Adds(s) /\ Removals(s)' = Removals(s)
                 /\ t.socket = s => Watches(s)' = Watches(s) + 1
                 /\ t.socket # s => Watches(s)' = Watches(s)
      <3> DEFINE e == WatchSocket(t.socket)
                 q == Append(mainQueue, u)
      <3>1. e \in MainTasks /\ e.kind = "watch" /\ e.socket = t.socket /\ mainQueue' = Append(q, e)
        BY <1>6, <2>5, TasksAreTyped DEF WatchSocket
      <3>2. q \in Seq(MainTasks)
        BY <2>1
      <3>3. \A kind \in {"add", "watch", "remove"} :
                Count(q, kind, s) = Count(mainQueue, kind, s)
        BY <2>1, <2>5, CountAppend
      <3> HIDE DEF e, q
      <3>4. \A kind : /\ e.kind = kind /\ e.socket = s
                            => Count(Append(q, e), kind, s) = Count(q, kind, s) + 1
                      /\ e.kind # kind \/ e.socket # s
                            => Count(Append(q, e), kind, s) = Count(q, kind, s)
        BY <3>1, <3>2, CountAppend
      <3>5. QED
        BY <3>1, <3>3, <3>4 DEF Adds, Watches, Removals
    <2>6. QED
      BY <1>5, <2>2, <2>3, <2>4, <2>5
  <1>11. /\ Adds(s) \in Nat /\ Watches(s) \in Nat /\ Removals(s) \in Nat /\ Receives(s) \in Nat
         /\ socketList[s] \in Nat /\ Reading(s) \in Nat /\ Closing(s) \in Nat /\ Shutdowns(s) \in Nat
    BY <1>1, Numbers
  <1>12. /\ Receives(s)' = Receives(s) /\ Shutdowns(s)' = Shutdowns(s)
         /\ socketList'[s] = socketList[s]
    BY <1>7, <1>8 DEF WorkerCountsKept
  <1>13. CASE t.kind = "receive" /\ t.socket = s
    <2>1. Closing(s)' = Closing(s) /\ closed'[s] = closed[s]
      BY <1>4, <1>5, <1>13
    <2>2. Reading(s) = Reading(s)' + 1 /\ Reading(s)' \in Nat
      BY <1>4, <1>13
    <2>3. CASE Watches(s)' = Watches(s) + 1 /\ Removals(s)' = Removals(s)
      <3>1. Tokens(s)' = Tokens(s)
        BY <1>10, <1>11, <1>12, <2>2, <2>3 DEF Tokens
      <3>2. QED
        BY <1>1, <1>7, <1>9, <1>10, <1>12, <2>1, <2>3, <3>1 DEF Token
    <2>4. CASE Watches(s)' = Watches(s) /\ Removals(s)' = Removals(s) + 1
      <3>1. Tokens(s) = Tokens(s)' + 1 /\ Tokens(s)' \in Nat /\ Removals(s)' > 0
        BY <1>10, <1>11, <1>12, <2>2, <2>4 DEF Tokens
      <3>2. Tokens(s) <= 1 /\ ~Fresh(s)
        BY <1>1, <3>1 DEF Token
      <3>3. Tokens(s)' <= 1
        BY <3>1, <3>2
      <3>4. QED
        BY <1>1, <1>7, <1>9, <1>10, <1>12, <2>1, <3>1, <3>2, <3>3 DEF Token
    <2>5. QED
      BY <1>10, <1>13, <2>3, <2>4
  <1>14. CASE ~(t.kind = "receive" /\ t.socket = s)
    <2>1. /\ Reading(s)' = Reading(s) /\ Watches(s)' = Watches(s)
          /\ Removals(s)' = Removals(s) \/ Removals(s)' = Removals(s) + 1
      BY <1>4, <1>10, <1>14
    <2>2. Tokens(s)' = Tokens(s)
      BY <1>10, <1>12, <2>1 DEF Tokens
    <2>3. Removals(s) > 0 => Removals(s)' > 0
      BY <1>11, <2>1
    <2>4. CASE t.kind = "shutdown" /\ t.socket = s
      <3>1. Closing(s) = Closing(s)' + 1 /\ Closing(s)' \in Nat
        BY <1>4, <2>4
      <3>2. /\ s \notin socketMap /\ Adds(s) = 0 /\ ~Fresh(s)
            /\ Shutdowns(s) + Closing(s) <= 1
        BY <1>1, <1>11, <3>1 DEF Token
      <3>3. Shutdowns(s)' + Closing(s)' = 0
        BY <1>11, <1>12, <3>1, <3>2
      <3>4. Tokens(s) <= 1
        BY <1>1 DEF Token
      <3>5. s \in ready => socketList[s] > 0
        BY <1>1 DEF Token
      <3>6. QED
        BY <1>7, <1>9, <1>10, <1>12, <2>2, <3>2, <3>3, <3>4, <3>5 DEF Token
    <2>5. CASE ~(t.kind = "shutdown" /\ t.socket = s)
      <3>1. Closing(s)' = Closing(s)
        BY <1>4, <2>5
      <3>2. closed'[s] = closed[s]
        BY <1>1, <1>5, <1>6, <2>5 DEF TypeOK
      <3>3. QED
        BY <1>1, <1>7, <1>9, <1>10, <1>12, <2>2, <2>3, <3>1, <3>2 DEF Token
    <2>6. QED
      BY <2>4, <2>5
  <1>15. QED
    BY <1>13, <1>14

\* The destructor only wakes threads.
LEMMA DestructorToken ==
    ASSUME TokenInv, NEW s \in Sockets, DtorStops \/ Destructor \/ UNCHANGED vars
    PROVE  Token(s)'
  <1>1. Token(s) /\ TypeOK
    BY DEF TokenInv
  <1>2. UNCHANGED <<socketMap, socketList, mainQueue, workerQueue, ready, closed, client, task>>
    BY DEF DtorStops, Destructor, DtorWakesMain, DtorWakesWorkers, DtorJoins, vars, maps, mainState,
           workers, clients
  <1>3. \A w \in Workers : workerPc'[w] = "execute" <=> workerPc[w] = "execute"
    BY <1>1 DEF DtorStops, Destructor, DtorWakesMain, DtorWakesWorkers, DtorJoins, vars, workers
  <1>4. TakenKept(s)
    BY <1>2, <1>3 DEF TakenKept, Reading, Closing, TakenBy, Taken, Executing
  <1>5. Kept(s)
    BY <1>2, <1>4, CountsKept DEF Kept, Fresh
  <1>6. QED
    BY <1>1, <1>5, KeptToken

\* The main thread leaves the loop over readList when it is empty.
LEMMA ReadyNext == TypeOK /\ ReadyInProcess /\ [Next]_vars => ReadyInProcess'
  <1> SUFFICES ASSUME TypeOK, ReadyInProcess, [Next]_vars PROVE ReadyInProcess'
    OBVIOUS
  <1>1. CASE Main
    BY <1>1 DEF Main, Select, ProcessReady, ProcessBroken, MainTask, TakeMain, Drained, mainState,
                ReadyInProcess
  <1>2. ASSUME NEW w \in Workers, Worker(w)
        PROVE  ReadyInProcess'
    <2>1. UNCHANGED mainState
      <3>1. CASE WorkerTakes(w)
        BY <3>1 DEF WorkerTakes
      <3>2. CASE WorkerExecutes(w)
        BY <3>2, WorkerPostings DEF WorkerDone
      <3>3. QED
        BY <1>2, <3>1, <3>2 DEF Worker
    <2>2. QED
      BY <2>1 DEF mainState, ReadyInProcess
  <1>3. CASE DtorStops \/ Destructor \/ UNCHANGED vars
    BY <1>3 DEF DtorStops, Destructor, DtorWakesMain, DtorWakesWorkers, DtorJoins, MainMayWait, vars,
                mainState, ReadyInProcess
  <1>4. CASE \/ \E s \in Sockets : Preflight(s) \/ Connect(s) \/ ClientGoes(s)
             \/ \E s \in Sockets, f \in ClientFrames : ClientSends(s, f)
             \/ \E x \in Subjects : NotifyCall(x)
    BY <1>4 DEF Preflight, Connect, ClientGoes, ClientSends, NotifyCall, mainState, ReadyInProcess
  <1>5. QED
    BY <1>1, <1>2, <1>3, <1>4 DEF Next

LEMMA TokenNext == TokenInv /\ [Next]_vars => TokenInv'
  <1> SUFFICES ASSUME TokenInv, [Next]_vars PROVE TokenInv'
    OBVIOUS
  <1>1. TypeOK' /\ ReadyInProcess'
    BY TypeNext, ReadyNext DEF TokenInv
  <1>2. ASSUME NEW s \in Sockets
        PROVE  Token(s)'
    BY ClientToken, SelectToken, MainTaskToken, WorkerTakesToken, WorkerExecutesToken, DestructorToken
       DEF Next, Main, Worker
  <1>3. QED
    BY <1>1, <1>2 DEF TokenInv

LEMMA TokenInit == Init => TokenInv
  <1> SUFFICES ASSUME Init PROVE TokenInv
    OBVIOUS
  <1>1. TypeOK /\ ReadyInProcess
    BY InitInv DEF Init, ReadyInProcess
  <1>2. ASSUME NEW s \in Sockets
        PROVE  Token(s)
    <2>1. /\ Adds(s) = 0 /\ Watches(s) = 0 /\ Receives(s) = 0 /\ Shutdowns(s) = 0
      BY CountNone DEF Init, Adds, Watches, Receives, Shutdowns
    <2>2. Reading(s) = 0 /\ Closing(s) = 0
      <3>1. \A kind : Taken(kind, s) = {}
        BY DEF Init, Taken, Executing
      <3>2. QED
        BY <3>1, FS_EmptySet DEF Reading, Closing, TakenBy
    <2>3. QED
      BY <2>1, <2>2 DEF Init, Token, Tokens, Fresh
  <1>3. QED
    BY <1>1, <1>2 DEF TokenInv

-----------------------------------------------------------------------------
\* One thread at a time reads the frames of a subscriber, and its socket is not
\* watched meanwhile; after its removal a pending receive and the shutdown are
\* the only two that may read at once.  For any number of sockets and workers.
THEOREM OneReaderHolds == Spec => []OneReader
  <1>1. TokenInv => OneReader
    <2> SUFFICES ASSUME TokenInv, NEW s \in Sockets
                 PROVE  /\ Readers(s) <= 1 /\ ClosingReaders(s) <= 1
                        /\ s \in socketMap => ClosingReaders(s) = 0
      BY DEF OneReader
    <2>1. Tokens(s) <= 1 /\ Shutdowns(s) + Closing(s) <= 1
          /\ (s \in socketMap => Shutdowns(s) + Closing(s) = 0)
      BY DEF TokenInv, Token
    <2>2. Readers(s) = socketList[s] + Watches(s) + Receives(s) + Reading(s)
      BY DEF Readers, Watches, Receives, Reading, Count, TakenBy
    <2> DEFINE queued == {i \in Queued(workerQueue, "shutdown", s) : ~workerQueue[i].passive}
               taken == {w \in Taken("shutdown", s) : ~task[w].passive}
    <2>3. Cardinality(queued) \in Nat /\ Cardinality(queued) <= Shutdowns(s)
      <3>1. IsFiniteSet(Queued(workerQueue, "shutdown", s))
        BY CountType DEF TokenInv, TypeOK
      <3>2. queued \subseteq Queued(workerQueue, "shutdown", s)
        OBVIOUS
      <3>3. QED
        BY <3>1, <3>2, FS_Subset, FS_CardinalityType DEF Shutdowns, Count
    <2>4. Cardinality(taken) \in Nat /\ Cardinality(taken) <= Closing(s)
      <3>1. IsFiniteSet(Taken("shutdown", s))
        BY FiniteAssumption, FS_Subset DEF Taken
      <3>2. taken \subseteq Taken("shutdown", s)
        OBVIOUS
      <3>3. QED
        BY <3>1, <3>2, FS_Subset, FS_CardinalityType DEF Closing, TakenBy
    <2>5. ClosingReaders(s) = Cardinality(queued) + Cardinality(taken)
      BY DEF ClosingReaders
    <2>6. Shutdowns(s) \in Nat /\ Closing(s) \in Nat
      BY Numbers DEF TokenInv
    <2>7. Readers(s) <= 1
      BY <2>1, <2>2, Numbers DEF Tokens, TokenInv
    <2> HIDE DEF queued, taken
    <2>8. QED
      BY <2>1, <2>3, <2>4, <2>5, <2>6, <2>7
  <1>2. QED
    BY TokenInit, TokenNext, <1>1, PTL DEF Spec

\* Every subscriber's next frame will be read by somebody, or the subscriber is
\* about to be removed: no interleaving of reading, failing to send, breaking
\* and removing loses the right to read.
THEOREM NoDeafSubscriberHolds == Spec => []NoDeafSubscriber
  <1>1. TokenInv => NoDeafSubscriber
    <2> SUFFICES ASSUME TokenInv, NEW s \in socketMap
                 PROVE  Readers(s) = 1 \/ Queued(mainQueue, "remove", s) # {}
      BY DEF NoDeafSubscriber
    <2>1. s \in Sockets
      BY DEF TokenInv, TypeOK
    <2>2. Adds(s) = 0 /\ (Tokens(s) = 1 \/ Removals(s) > 0)
      BY <2>1 DEF TokenInv, Token
    <2>3. Readers(s) = socketList[s] + Watches(s) + Receives(s) + Reading(s)
      BY DEF Readers, Watches, Receives, Reading, Count, TakenBy
    <2>4. Removals(s) > 0 => Queued(mainQueue, "remove", s) # {}
      BY FS_EmptySet DEF Removals, Count
    <2>5. QED
      BY <2>1, <2>2, <2>3, <2>4, Numbers DEF Tokens, TokenInv
  <1>2. QED
    BY TokenInit, TokenNext, <1>1, PTL DEF Spec

\* A subscriber is shut down once, however often its removal was asked for, and
\* never while it is a subscriber or after it was closed.
THEOREM ShutdownOnceHolds == Spec => []ShutdownOnce
  <1>1. TokenInv => ShutdownOnce
    <2> SUFFICES ASSUME TokenInv, NEW s \in Sockets
                 PROVE  LET pending == Cardinality(Queued(workerQueue, "shutdown", s))
                                       + Cardinality(Taken("shutdown", s)) IN
                        /\ pending <= 1
                        /\ s \in socketMap \/ closed[s] => pending = 0
                        /\ s \in socketMap => ~closed[s]
      BY DEF ShutdownOnce
    <2>1. QED
      BY DEF TokenInv, Token, Shutdowns, Closing, Count, TakenBy
  <1>2. QED
    BY TokenInit, TokenNext, <1>1, PTL DEF Spec
=============================================================================
