------------------------ MODULE WebEventServiceProofs ------------------------
(***************************************************************************)
(* Proofs about WebEventService for any sets of sockets, workers, subjects *)
(* and client frames and any bounds: type correctness, and the agreement   *)
(* of the two maps of subscribers.  The agreement is not inductive alone:  *)
(* a second AddSubscriberNotification for a subscriber would replace its   *)
(* Subscriber and leave its pairs in _subjectMap.  JoinsOnce excludes it.  *)
(***************************************************************************)
EXTENDS WebEventService, SequenceTheorems, FiniteSetTheorems, TLAPS

\* A client joins once: while its AddSubscriberNotification is queued it is
\* not a subscriber and no second one is queued; none is queued, and it is no
\* subscriber, before its handshake is complete.
JoinsOnce ==
    /\ \A i, j \in DOMAIN mainQueue :
          mainQueue[i].kind = "add" /\ mainQueue[j].kind = "add"
              /\ mainQueue[i].socket = mainQueue[j].socket => i = j
    /\ \A i \in DOMAIN mainQueue :
          mainQueue[i].kind = "add" =>
              /\ mainQueue[i].socket \notin socketMap
              /\ client[mainQueue[i].socket] \notin {"none", "accepted"}
    /\ \A s \in socketMap : client[s] \notin {"none", "accepted"}

\* A task of the main queue, by its kind.
LEMMA MainTaskKinds ==
    ASSUME NEW t \in MainTasks
    PROVE  /\ t.kind \in {"add", "watch", "remove", "subscribe", "unsubscribe", "notify"}
           /\ t.kind # "notify" => t.socket \in Sockets
           /\ t.kind = "remove" => t.byClient \in BOOLEAN
           /\ t.kind = "subscribe" => t.subject \in Subjects
           /\ t.kind = "unsubscribe" => t.subject \in Subjects \cup {All}
           /\ t.kind = "notify" => t.subject \in Subjects
  BY DEF MainTasks, AddSubscriber, WatchSocket, RemoveSubscriber, Subscribe, Unsubscribe, Notify

\* A task of the worker queue, by its kind.
LEMMA WorkerTaskKinds ==
    ASSUME NEW t \in WorkerTasks
    PROVE  /\ t.kind \in {"receive", "send", "shutdown"}
           /\ t.socket \in Sockets
           /\ t.kind = "shutdown" => t.passive \in BOOLEAN
           /\ t # NoTask
  BY DEF WorkerTasks, SendTasks, Receive, Send, Shutdown, NoTask

\* The messages of one notification are queued as a sequence of send tasks.
LEMMA OrderIsSendTasks ==
    ASSUME TypeOK, NEW x \in Subjects, NEW order,
           order \in SetToSeqs({Send(e[2], x, e[1]) : e \in {d \in subjectMap : d[1] \in Levels(x)}})
    PROVE  order \in Seq(SendTasks)
  <1> DEFINE pairs == {d \in subjectMap : d[1] \in Levels(x)}
             matches == {Send(e[2], x, e[1]) : e \in pairs}
  <1>1. IsFiniteSet(Subjects \X Sockets)
    BY FiniteAssumption, FS_Product
  <1>2. IsFiniteSet(pairs)
    <2>1. pairs \subseteq Subjects \X Sockets
      BY DEF TypeOK
    <2>2. QED
      BY <1>1, <2>1, FS_Subset
  <1>3. IsFiniteSet(matches)
    <2> DEFINE f == [e \in pairs |-> Send(e[2], x, e[1])]
    <2>1. f \in Surjection(pairs, matches)
      BY DEF Surjection
    <2>2. QED
      BY <1>2, <2>1, FS_Surjection
  <1>4. matches \subseteq SendTasks
    BY DEF TypeOK, SendTasks
  <1>5. Cardinality(matches) \in Nat
    BY <1>3, FS_CardinalityType
  <1>6. order \in [1 .. Cardinality(matches) -> matches]
    BY DEF SetToSeqs
  <1> HIDE DEF matches
  <1>7. order \in [1 .. Cardinality(matches) -> SendTasks]
    BY <1>4, <1>6
  <1>8. QED
    BY <1>5, <1>7

\* The initial state satisfies the invariant.
LEMMA InitInv == Init => TypeOK /\ MapsAgree /\ JoinsOnce
  <1> SUFFICES ASSUME Init PROVE TypeOK /\ MapsAgree /\ JoinsOnce
    OBVIOUS
  <1>1. TypeOK
    <2>1. mainQueue \in Seq(MainTasks) /\ workerQueue \in Seq(WorkerTasks)
      BY DEF Init
    <2>2. frames \in [Sockets -> Seq(ClientFrames)]
      BY DEF Init
    <2>3. \A w \in Workers : workerPc[w] = "dequeue" /\ task[w] = NoTask
      BY DEF Init
    <2>4. task \in [Workers -> WorkerTasks \cup {NoTask}]
      BY DEF Init
    <2>5. subjectNames \in [Sockets -> SUBSET Subjects]
      BY DEF Init
    <2>6. QED
      BY <2>1, <2>2, <2>3, <2>4, <2>5 DEF Init, TypeOK
  <1>2. MapsAgree /\ JoinsOnce
    BY DEF Init, MapsAgree, JoinsOnce
  <1>3. QED
    BY <1>1, <1>2

\* Each constructor of a task yields a task of its queue.
LEMMA TasksAreTyped ==
    /\ NoTask \notin WorkerTasks
    /\ \A s \in Sockets :
          /\ AddSubscriber(s) \in MainTasks /\ WatchSocket(s) \in MainTasks
          /\ \A c \in BOOLEAN : RemoveSubscriber(s, c) \in MainTasks
          /\ \A x \in Subjects : Subscribe(s, x) \in MainTasks
          /\ \A x \in Subjects \cup {All} : Unsubscribe(s, x) \in MainTasks
          /\ Receive(s) \in WorkerTasks
          /\ Send(s, SystemPong, SystemPong) \in WorkerTasks
          /\ \A p \in BOOLEAN : Shutdown(s, p) \in WorkerTasks
    /\ \A x \in Subjects : Notify(x) \in MainTasks
  <1>1. NoTask \notin WorkerTasks
    BY WorkerTaskKinds
  <1>2. QED
    BY <1>1 DEF MainTasks, WorkerTasks, SendTasks

\* A step that leaves every variable alone but the clients' and one append to
\* the main queue.
LEMMA ClientTypes ==
    ASSUME TypeOK,
           \/ \E s \in Sockets : Preflight(s) \/ Connect(s) \/ ClientGoes(s)
           \/ \E s \in Sockets, f \in ClientFrames : ClientSends(s, f)
           \/ \E x \in Subjects : NotifyCall(x)
    PROVE  TypeOK'
  <1>1. ASSUME NEW s \in Sockets, Preflight(s) PROVE TypeOK'
    BY <1>1 DEF Preflight, TypeOK, maps, mainState, workers, dtor
  <1>2. ASSUME NEW s \in Sockets, Connect(s) PROVE TypeOK'
    <2>1. mainQueue' \in Seq(MainTasks)
      BY <1>2, TasksAreTyped DEF Connect, TypeOK
    <2>2. QED
      BY <1>2, <2>1 DEF Connect, TypeOK, maps, mainState, workers, dtor
  <1>3. ASSUME NEW s \in Sockets, ClientGoes(s) PROVE TypeOK'
    BY <1>3 DEF ClientGoes, TypeOK, maps, mainState, workers, dtor
  <1>4. ASSUME NEW s \in Sockets, NEW f \in ClientFrames, ClientSends(s, f) PROVE TypeOK'
    <2>1. frames' \in [Sockets -> Seq(ClientFrames)]
      BY <1>4 DEF ClientSends, TypeOK
    <2>2. client' \in [Sockets -> {"none", "accepted", "up", "closing", "gone"}]
      BY <1>4 DEF ClientSends, TypeOK
    <2>3. QED
      BY <1>4, <2>1, <2>2 DEF ClientSends, TypeOK, maps, mainState, workers, dtor
  <1>5. ASSUME NEW x \in Subjects, NotifyCall(x) PROVE TypeOK'
    <2>1. mainQueue' \in Seq(MainTasks)
      BY <1>5, TasksAreTyped DEF NotifyCall, TypeOK
    <2>2. QED
      BY <1>5, <2>1 DEF NotifyCall, TypeOK, maps, mainState, workers, dtor
  <1>6. QED
    BY <1>1, <1>2, <1>3, <1>4, <1>5

\* What removeSubscriberImpl() leaves behind is typed.
LEMMA RemovalTypes ==
    ASSUME TypeOK, NEW s \in Sockets, NEW c \in BOOLEAN, RemoveSubscriberImpl(s, c)
    PROVE  /\ socketMap' \in SUBSET Sockets
           /\ subjectNames' \in [Sockets -> SUBSET Subjects]
           /\ subjectMap' \in SUBSET (Subjects \X Sockets)
           /\ socketList' \in [Sockets -> Nat]
           /\ workerQueue' \in Seq(WorkerTasks)
  BY TasksAreTyped DEF RemoveSubscriberImpl, TypeOK, Unwatched

\* The main thread's steps over the sockets that select() returned.
LEMMA SelectTypes ==
    ASSUME TypeOK, Select \/ (\E s \in Sockets : ProcessReady(s) \/ ProcessBroken(s)) \/ Drained
    PROVE  TypeOK'
  <1>1. ASSUME Select PROVE TypeOK'
    BY <1>1 DEF Select, TypeOK, maps, workers, dtor, clients
  <1>2. ASSUME NEW s \in Sockets, ProcessReady(s) PROVE TypeOK'
    <2>1. CASE s \in socketMap
      <3>1. Receive(s) \in WorkerTasks
        BY TasksAreTyped
      <3>2. workerQueue' = Append(workerQueue, Receive(s)) /\ socketList' = Unwatched(s)
        BY <1>2, <2>1 DEF ProcessReady
      <3>3. workerQueue' \in Seq(WorkerTasks) /\ socketList' \in [Sockets -> Nat]
        BY <3>1, <3>2 DEF TypeOK, Unwatched
      <3>4. QED
        BY <1>2, <3>3 DEF ProcessReady, TypeOK, maps, workers, dtor, clients
    <2>2. CASE s \notin socketMap
      BY <1>2, <2>2 DEF ProcessReady, TypeOK, maps, workers, dtor, clients
    <2>3. QED
      BY <2>1, <2>2
  <1>3. ASSUME NEW s \in Sockets, ProcessBroken(s) PROVE TypeOK'
    <2>1. /\ socketMap' \in SUBSET Sockets
          /\ subjectNames' \in [Sockets -> SUBSET Subjects]
          /\ subjectMap' \in SUBSET (Subjects \X Sockets)
          /\ socketList' \in [Sockets -> Nat]
          /\ workerQueue' \in Seq(WorkerTasks)
      <3>1. CASE RemoveSubscriberImpl(s, FALSE)
        BY <3>1, RemovalTypes
      <3>2. CASE UNCHANGED <<maps, socketList, workerQueue>>
        BY <3>2 DEF maps, TypeOK
      <3>3. QED
        BY <1>3, <3>1, <3>2 DEF ProcessBroken
    <2>2. broken' \in SUBSET Sockets /\ mainPc' \in {"process", "drain"}
      BY <1>3 DEF ProcessBroken, TypeOK
    <2>3. QED
      BY <1>3, <2>1, <2>2 DEF ProcessBroken, TypeOK, workers, dtor, clients
  <1>4. ASSUME Drained PROVE TypeOK'
    BY <1>4 DEF Drained, TypeOK, maps, workers, dtor, clients
  <1>5. QED
    BY <1>1, <1>2, <1>3, <1>4

\* A task of the main queue, taken and executed.
LEMMA MainTaskTypes ==
    ASSUME TypeOK, MainTask
    PROVE  TypeOK'
  <1> DEFINE t == Head(mainQueue)
  <1>1. t \in MainTasks /\ mainQueue' \in Seq(MainTasks)
    BY DEF MainTask, TakeMain, TypeOK
  <1>2. /\ t.kind # "notify" => t.socket \in Sockets
        /\ t.kind = "remove" => t.byClient \in BOOLEAN
        /\ t.kind = "subscribe" => t.subject \in Subjects
        /\ t.kind = "notify" => t.subject \in Subjects
    BY <1>1, MainTaskKinds
  <1>3. /\ ExecuteAdd(t) \/ ExecuteRemove(t) \/ ExecuteSubscribe(t)
           \/ ExecuteUnsubscribe(t) \/ ExecuteWatch(t) \/ ExecuteNotify(t)
        /\ UNCHANGED <<mainState, workers, dtor, closed, clients>>
    BY DEF MainTask, TakeMain
  <1> HIDE DEF t
  <1>4. /\ socketMap' \in SUBSET Sockets
        /\ subjectNames' \in [Sockets -> SUBSET Subjects]
        /\ subjectMap' \in SUBSET (Subjects \X Sockets)
        /\ socketList' \in [Sockets -> Nat]
        /\ workerQueue' \in Seq(WorkerTasks)
    <2>1. CASE ExecuteAdd(t)
      BY <1>2, <2>1 DEF ExecuteAdd, TypeOK
    <2>2. CASE ExecuteRemove(t)
      <3>1. CASE t.socket \in socketMap
        BY <1>2, <2>2, <3>1, RemovalTypes DEF ExecuteRemove
      <3>2. CASE t.socket \notin socketMap
        BY <2>2, <3>2 DEF ExecuteRemove, TypeOK, maps
      <3>3. QED
        BY <3>1, <3>2
    <2>3. CASE ExecuteSubscribe(t)
      <3>1. CASE t.socket \in socketMap
        <4>1. subjectNames' \in [Sockets -> SUBSET Subjects]
          <5> DEFINE names == subjectNames[t.socket] \cup {t.subject}
          <5>1. names \in SUBSET Subjects
            BY <1>2, <2>3, <3>1 DEF ExecuteSubscribe, TypeOK
          <5>2. subjectNames' = [subjectNames EXCEPT ![t.socket] = names]
            BY <2>3, <3>1 DEF ExecuteSubscribe
          <5> HIDE DEF names
          <5>3. QED
            BY <5>1, <5>2 DEF TypeOK
        <4>2. subjectMap' \in SUBSET (Subjects \X Sockets)
          BY <1>2, <2>3, <3>1 DEF ExecuteSubscribe, TypeOK
        <4>3. QED
          BY <2>3, <4>1, <4>2 DEF ExecuteSubscribe, TypeOK
      <3>2. CASE t.socket \notin socketMap
        BY <2>3, <3>2 DEF ExecuteSubscribe, TypeOK
      <3>3. QED
        BY <3>1, <3>2
    <2>4. CASE ExecuteUnsubscribe(t)
      <3>1. CASE t.socket \in socketMap
        <4>1. subjectNames' \in [Sockets -> SUBSET Subjects]
          <5>1. PICK names \in SUBSET subjectNames[t.socket] :
                    subjectNames' = [subjectNames EXCEPT ![t.socket] = @ \ names]
            BY <1>2, <2>4, <3>1 DEF ExecuteUnsubscribe, TypeOK
          <5> DEFINE left == subjectNames[t.socket] \ names
          <5>2. left \in SUBSET Subjects
            BY <3>1 DEF TypeOK
          <5>3. subjectNames' = [subjectNames EXCEPT ![t.socket] = left]
            BY <5>1
          <5> HIDE DEF left
          <5>4. QED
            BY <5>2, <5>3 DEF TypeOK
        <4>2. subjectMap' \subseteq subjectMap
          BY <2>4, <3>1 DEF ExecuteUnsubscribe
        <4>3. QED
          BY <2>4, <4>1, <4>2 DEF ExecuteUnsubscribe, TypeOK
      <3>2. CASE t.socket \notin socketMap
        BY <2>4, <3>2 DEF ExecuteUnsubscribe, TypeOK
      <3>3. QED
        BY <3>1, <3>2
    <2>5. CASE ExecuteWatch(t)
      BY <1>2, <2>5 DEF ExecuteWatch, TypeOK, maps
    <2>6. CASE ExecuteNotify(t)
      <3>1. PICK order \in SetToSeqs({Send(e[2], t.subject, e[1]) :
                            e \in {d \in subjectMap : d[1] \in Levels(t.subject)}}) :
              workerQueue' = workerQueue \o order
        BY <2>6 DEF ExecuteNotify
      <3>2. order \in Seq(SendTasks)
        BY <1>2, <2>6, <3>1, OrderIsSendTasks DEF ExecuteNotify
      <3>3. order \in Seq(WorkerTasks)
        BY <3>2 DEF WorkerTasks
      <3>4. workerQueue' \in Seq(WorkerTasks)
        BY <3>1, <3>3 DEF TypeOK
      <3>5. QED
        BY <2>6, <3>4 DEF ExecuteNotify, TypeOK, maps
    <2>7. QED
      BY <1>3, <2>1, <2>2, <2>3, <2>4, <2>5, <2>6
  <1>5. QED
    BY <1>1, <1>3, <1>4 DEF TypeOK, mainState, workers, dtor, clients

\* What a worker may post at the end of a task.
LEMMA WorkerPosts ==
    ASSUME TypeOK, NEW w \in Workers, WorkerExecutes(w)
    PROVE  \E posted \in Seq(MainTasks) :
              /\ WorkerDone(w, posted)
              /\ \A i \in DOMAIN posted : posted[i].kind # "add"
  <1> DEFINE s == task[w].socket
             post(q) == WorkerDone(w, q) /\ \A i \in DOMAIN q : q[i].kind # "add"
  <1>1. s \in Sockets
    BY WorkerTaskKinds DEF WorkerExecutes, SendDelivers, SendFails, ReceiveIgnored, ReceiveEnd,
       ReceiveRequest, ReceiveViolation, ReceiveFails, ShutdownCloses, ShutdownThrows,
       ReceivesFrame, Executing, TypeOK
  <1> HIDE DEF s
  <1>2. /\ \A c \in BOOLEAN : RemoveSubscriber(s, c) \in MainTasks
                              /\ RemoveSubscriber(s, c).kind # "add"
        /\ WatchSocket(s) \in MainTasks /\ WatchSocket(s).kind # "add"
    BY <1>1, TasksAreTyped DEF RemoveSubscriber, WatchSocket
  <1>3. CASE WorkerDone(w, <<>>)
    <2>1. <<>> \in Seq(MainTasks) /\ \A i \in DOMAIN <<>> : <<>>[i].kind # "add"
      OBVIOUS
    <2>2. WITNESS <<>> \in Seq(MainTasks)
    <2>3. QED
      BY <1>3, <2>1
  <1>4. CASE \E t \in MainTasks : t.kind # "add" /\ WorkerDone(w, <<t>>)
    <2>1. PICK t \in MainTasks : t.kind # "add" /\ WorkerDone(w, <<t>>)
      BY <1>4
    <2>2. <<t>> \in Seq(MainTasks) /\ \A i \in DOMAIN <<t>> : <<t>>[i].kind # "add"
      BY <2>1
    <2>3. WITNESS <<t>> \in Seq(MainTasks)
    <2>4. QED
      BY <2>1, <2>2
  <1>5. CASE \E t \in MainTasks :
                t.kind # "add" /\ WorkerDone(w, <<t, WatchSocket(s)>>)
    <2>1. PICK t \in MainTasks : t.kind # "add" /\ WorkerDone(w, <<t, WatchSocket(s)>>)
      BY <1>5
    <2> DEFINE q == <<t, WatchSocket(s)>>
    <2>2. q \in Seq(MainTasks) /\ \A i \in DOMAIN q : q[i].kind # "add"
      BY <1>2, <2>1
    <2>3. WorkerDone(w, q)
      BY <2>1
    <2> HIDE DEF q
    <2>4. QED
      BY <2>2, <2>3
  <1>6. CASE SendFails(w) \/ ReceiveIgnored(w) \/ ReceiveEnd(w) \/ ReceiveViolation(w)
             \/ ReceiveFails(w)
    BY <1>2, <1>4, <1>6 DEF SendFails, ReceiveIgnored, ReceiveEnd, ReceiveViolation,
       ReceiveFails, s
  <1>7. CASE SendDelivers(w) \/ ShutdownCloses(w) \/ ShutdownThrows(w)
    BY <1>3, <1>7 DEF SendDelivers, ShutdownCloses, ShutdownThrows
  <1>8. CASE ReceiveRequest(w)
    <2>1. PICK f \in ClientFrames :
            \/ f.verb = "SUBSCRIBE" /\ WorkerDone(w, <<Subscribe(s, f.subject), WatchSocket(s)>>)
            \/ f.verb = "UNSUBSCRIBE" /\ WorkerDone(w, <<Unsubscribe(s, f.subject), WatchSocket(s)>>)
            \/ /\ f.verb = "NOTIFY" /\ f.subject # SystemPing
               /\ WorkerDone(w, <<Notify(f.subject), WatchSocket(s)>>)
            \/ WorkerDone(w, <<WatchSocket(s)>>)
      BY <1>8 DEF ReceiveRequest, s
    <2>2. CASE f.verb = "SUBSCRIBE" /\ WorkerDone(w, <<Subscribe(s, f.subject), WatchSocket(s)>>)
      <3>1. Subscribe(s, f.subject) \in MainTasks /\ Subscribe(s, f.subject).kind # "add"
        BY <1>1, <2>2, FramesAssumption, TasksAreTyped DEF Subscribe
      <3>2. QED
        BY <1>5, <2>2, <3>1
    <2>3. CASE f.verb = "UNSUBSCRIBE" /\ WorkerDone(w, <<Unsubscribe(s, f.subject), WatchSocket(s)>>)
      <3>1. Unsubscribe(s, f.subject) \in MainTasks /\ Unsubscribe(s, f.subject).kind # "add"
        BY <1>1, <2>3, FramesAssumption, TasksAreTyped DEF Unsubscribe
      <3>2. QED
        BY <1>5, <2>3, <3>1
    <2>4. CASE /\ f.verb = "NOTIFY" /\ f.subject # SystemPing
               /\ WorkerDone(w, <<Notify(f.subject), WatchSocket(s)>>)
      <3>1. Notify(f.subject) \in MainTasks /\ Notify(f.subject).kind # "add"
        BY <2>4, FramesAssumption, TasksAreTyped DEF Notify
      <3>2. QED
        BY <1>5, <2>4, <3>1
    <2>5. CASE WorkerDone(w, <<WatchSocket(s)>>)
      BY <1>2, <1>4, <2>5
    <2>6. QED
      BY <2>1, <2>2, <2>3, <2>4, <2>5
  <1>9. QED
    BY <1>6, <1>7, <1>8 DEF WorkerExecutes

\* What executing a task changes besides its end.
LEMMA WorkerIO ==
    ASSUME TypeOK, NEW w \in Workers, WorkerExecutes(w)
    PROVE  /\ workerQueue' \in Seq(WorkerTasks)
           /\ frames' \in [Sockets -> Seq(ClientFrames)]
           /\ closed' \in [Sockets -> BOOLEAN]
           /\ UNCHANGED client
  <1> DEFINE s == task[w].socket
  <1>1. s \in Sockets
    BY WorkerTaskKinds DEF WorkerExecutes, SendDelivers, SendFails, ReceiveIgnored, ReceiveEnd,
       ReceiveRequest, ReceiveViolation, ReceiveFails, ShutdownCloses, ShutdownThrows,
       ReceivesFrame, Executing, TypeOK
  <1> HIDE DEF s
  <1>2. frames[s] # <<>> => [frames EXCEPT ![s] = Tail(@)] \in [Sockets -> Seq(ClientFrames)]
    BY <1>1 DEF TypeOK
  <1>3. ASSUME NEW f, ReceivesFrame(w, f)
        PROVE  /\ frames' \in [Sockets -> Seq(ClientFrames)]
               /\ UNCHANGED <<closed, client>>
    BY <1>2, <1>3 DEF ReceivesFrame, TypeOK, s
  <1>4. CASE SendDelivers(w) \/ SendFails(w) \/ ReceiveFails(w)
    BY <1>4 DEF SendDelivers, SendFails, ReceiveFails, WorkerDone, clients, TypeOK
  <1>5. CASE ReceiveIgnored(w) \/ ReceiveEnd(w) \/ ReceiveViolation(w)
    BY <1>3, <1>5 DEF ReceiveIgnored, ReceiveEnd, ReceiveViolation, TypeOK
  <1>6. CASE ReceiveRequest(w)
    <2>1. /\ frames' \in [Sockets -> Seq(ClientFrames)]
          /\ UNCHANGED <<closed, client>>
      BY <1>3, <1>6 DEF ReceiveRequest
    <2>2. \/ UNCHANGED workerQueue
          \/ workerQueue' = Append(workerQueue, Send(s, SystemPong, SystemPong))
      BY <1>6 DEF ReceiveRequest, s
    <2> DEFINE pong == Send(s, SystemPong, SystemPong)
    <2>3. pong \in WorkerTasks
      BY <1>1, TasksAreTyped
    <2> HIDE DEF pong
    <2>4. workerQueue' \in Seq(WorkerTasks)
      <3>1. workerQueue \in Seq(WorkerTasks)
        BY DEF TypeOK
      <3>2. Append(workerQueue, pong) \in Seq(WorkerTasks)
        BY <2>3, <3>1
      <3>3. QED
        BY <2>2, <3>1, <3>2 DEF pong
    <2>5. QED
      BY <2>1, <2>4 DEF TypeOK
  <1>7. CASE ShutdownCloses(w) \/ ShutdownThrows(w)
    <2>1. frames' \in [Sockets -> Seq(ClientFrames)]
      BY <1>2, <1>7 DEF ShutdownCloses, ShutdownThrows, TypeOK, s
    <2>2. closed' \in [Sockets -> BOOLEAN]
      BY <1>7 DEF ShutdownCloses, ShutdownThrows, TypeOK
    <2>3. QED
      BY <1>7, <2>1, <2>2 DEF ShutdownCloses, ShutdownThrows, TypeOK
  <1>8. QED
    BY <1>4, <1>5, <1>6, <1>7 DEF WorkerExecutes

\* The workers' steps.
LEMMA WorkerTypes ==
    ASSUME TypeOK, NEW w \in Workers, Worker(w)
    PROVE  TypeOK'
  <1>1. CASE WorkerTakes(w)
    <2>1. Head(workerQueue) \in WorkerTasks /\ workerQueue' \in Seq(WorkerTasks)
      BY <1>1 DEF WorkerTakes, TypeOK
    <2>2. task' = [task EXCEPT ![w] = Head(workerQueue)] /\ Head(workerQueue) # NoTask
      BY <1>1, <2>1, TasksAreTyped DEF WorkerTakes
    <2>3. task' \in [Workers -> WorkerTasks \cup {NoTask}]
      BY <2>1, <2>2 DEF TypeOK
    <2>4. /\ workerPc' \in [Workers -> {"dequeue", "execute", "done"}]
          /\ workerPc' = [workerPc EXCEPT ![w] = "execute"]
      BY <1>1 DEF WorkerTakes, TypeOK
    <2>5. \A v \in Workers : workerPc'[v] = "execute" <=> task'[v] # NoTask
      BY <2>2, <2>4 DEF TypeOK
    <2>6. QED
      BY <1>1, <2>1, <2>3, <2>4, <2>5
      DEF WorkerTakes, TypeOK, maps, mainState, dtor, clients
  <1>2. CASE WorkerExecutes(w)
    <2>1. PICK posted \in Seq(MainTasks) : WorkerDone(w, posted)
      BY <1>2, WorkerPosts
    <2>2. mainQueue' \in Seq(MainTasks)
      BY <2>1 DEF WorkerDone, TypeOK
    <2>3. task' \in [Workers -> WorkerTasks \cup {NoTask}]
      BY <2>1 DEF WorkerDone, TypeOK
    <2>4. workerPc' \in [Workers -> {"dequeue", "execute", "done"}]
      BY <2>1 DEF WorkerDone, TypeOK
    <2>5. \A v \in Workers : workerPc'[v] = "execute" <=> task'[v] # NoTask
      BY <2>1 DEF WorkerDone, TypeOK
    <2>6. UNCHANGED <<maps, socketList, mainState, dtor>>
      BY <2>1 DEF WorkerDone
    <2>7. QED
      BY <1>2, <2>2, <2>3, <2>4, <2>5, <2>6, WorkerIO DEF TypeOK, maps, mainState, dtor
  <1>3. QED
    BY <1>1, <1>2 DEF Worker

\* The destructor's steps.
LEMMA DestructorTypes ==
    ASSUME TypeOK, DtorStops \/ Destructor
    PROVE  TypeOK'
  <1>1. CASE DtorStops
    BY <1>1 DEF DtorStops, TypeOK, maps, mainState, workers, clients
  <1>2. CASE DtorWakesMain
    BY <1>2 DEF DtorWakesMain, TypeOK, maps, workers, clients
  <1>3. CASE DtorWakesWorkers
    <2>1. PICK W \in SUBSET {w \in Workers : workerPc[w] = "dequeue"} :
              workerPc' = [w \in Workers |-> IF w \in W THEN "done" ELSE workerPc[w]]
      BY <1>3 DEF DtorWakesWorkers
    <2>2. \A w \in Workers : w \in W => task[w] = NoTask
      BY DEF TypeOK
    <2>3. \A w \in Workers : workerPc'[w] = "execute" <=> task[w] # NoTask
      BY <2>1, <2>2 DEF TypeOK
    <2>4. workerPc' \in [Workers -> {"dequeue", "execute", "done"}]
      BY <2>1 DEF TypeOK
    <2>5. QED
      BY <1>3, <2>3, <2>4 DEF DtorWakesWorkers, TypeOK, maps, mainState, clients
  <1>4. CASE DtorJoins
    BY <1>4 DEF DtorJoins, TypeOK, maps, mainState, workers, clients
  <1>5. QED
    BY <1>1, <1>2, <1>3, <1>4 DEF Destructor

\* Every step preserves the types.
LEMMA TypeNext == TypeOK /\ [Next]_vars => TypeOK'
  <1> SUFFICES ASSUME TypeOK, [Next]_vars PROVE TypeOK'
    OBVIOUS
  <1>1. CASE \/ \E s \in Sockets : Preflight(s) \/ Connect(s) \/ ClientGoes(s)
             \/ \E s \in Sockets, f \in ClientFrames : ClientSends(s, f)
             \/ \E x \in Subjects : NotifyCall(x)
    BY <1>1, ClientTypes
  <1>2. CASE Main
    BY <1>2, SelectTypes, MainTaskTypes DEF Main
  <1>3. CASE \E w \in Workers : Worker(w)
    BY <1>3, WorkerTypes
  <1>4. CASE DtorStops \/ Destructor
    BY <1>4, DestructorTypes
  <1>5. CASE UNCHANGED vars
    BY <1>5 DEF vars, TypeOK
  <1>6. QED
    BY <1>1, <1>2, <1>3, <1>4, <1>5 DEF Next

\* Type correctness of the service: TypeOK is an invariant, for any numbers of
\* sockets and workers and any frames.
THEOREM WebEventTypeCorrect == Spec => []TypeOK
  <1>1. Init => TypeOK
    BY InitInv
  <1>2. TypeOK /\ [Next]_vars => TypeOK'
    BY TypeNext
  <1>3. QED
    BY <1>1, <1>2, PTL DEF Spec

-----------------------------------------------------------------------------
\* A step that removes or keeps the AddSubscriberNotifications that are queued,
\* adds no subscriber and takes no client back preserves JoinsOnce.
LEMMA JoinsKept ==
    ASSUME TypeOK, JoinsOnce,
           socketMap' \subseteq socketMap,
           \A s \in Sockets : client'[s] \in {"none", "accepted"}
                                  => client[s] \in {"none", "accepted"},
           NEW posted \in Seq(MainTasks),
           \A i \in DOMAIN posted : posted[i].kind # "add",
           mainQueue' = mainQueue \o posted
    PROVE  JoinsOnce'
  <1>1. \A i \in DOMAIN mainQueue' :
            mainQueue'[i].kind = "add" =>
                i \in DOMAIN mainQueue /\ mainQueue'[i] = mainQueue[i]
    BY DEF TypeOK
  <1>2. \A i \in DOMAIN mainQueue : mainQueue[i] \in MainTasks
    BY DEF TypeOK
  <1>3. \A i \in DOMAIN mainQueue :
            mainQueue[i].kind = "add" => mainQueue[i].socket \in Sockets
    BY <1>2, MainTaskKinds
  <1>4. \A s \in socketMap : s \in Sockets
    BY DEF TypeOK
  <1>5. \A i, j \in DOMAIN mainQueue' :
            mainQueue'[i].kind = "add" /\ mainQueue'[j].kind = "add"
                /\ mainQueue'[i].socket = mainQueue'[j].socket => i = j
    BY <1>1 DEF JoinsOnce
  <1>6. \A i \in DOMAIN mainQueue' :
            mainQueue'[i].kind = "add" =>
                /\ mainQueue'[i].socket \notin socketMap'
                /\ client'[mainQueue'[i].socket] \notin {"none", "accepted"}
    BY <1>1, <1>3 DEF JoinsOnce
  <1>7. \A s \in socketMap' : client'[s] \notin {"none", "accepted"}
    BY <1>4 DEF JoinsOnce
  <1>8. QED
    BY <1>5, <1>6, <1>7 DEF JoinsOnce

\* The handshake of a client queues its only AddSubscriberNotification.
LEMMA ConnectJoins ==
    ASSUME TypeOK, JoinsOnce, NEW s \in Sockets, Connect(s)
    PROVE  JoinsOnce'
  <1> DEFINE n == Len(mainQueue) + 1
  <1>1. /\ mainQueue' = Append(mainQueue, AddSubscriber(s))
        /\ client[s] = "accepted"
        /\ client' = [client EXCEPT ![s] = "up"]
        /\ socketMap' = socketMap
    BY DEF Connect, maps
  <1>2. \A i \in DOMAIN mainQueue' :
            \/ i \in DOMAIN mainQueue /\ mainQueue'[i] = mainQueue[i] /\ i # n
            \/ i = n /\ mainQueue'[i] = AddSubscriber(s)
    BY <1>1 DEF TypeOK
  <1>3. AddSubscriber(s).socket = s
    BY DEF AddSubscriber
  <1>4. \A i \in DOMAIN mainQueue :
            mainQueue[i].kind = "add" => mainQueue[i].socket \in Sockets /\ mainQueue[i].socket # s
    <2>1. \A i \in DOMAIN mainQueue : mainQueue[i] \in MainTasks
      BY DEF TypeOK
    <2>2. QED
      BY <1>1, <2>1, MainTaskKinds DEF JoinsOnce
  <1>5. s \notin socketMap /\ socketMap \subseteq Sockets
    BY <1>1 DEF JoinsOnce, TypeOK
  <1>6. client'[s] = "up" /\ \A r \in Sockets : r # s => client'[r] = client[r]
    BY <1>1 DEF TypeOK
  <1> HIDE DEF n
  <1>7. \A i, j \in DOMAIN mainQueue' :
            mainQueue'[i].kind = "add" /\ mainQueue'[j].kind = "add"
                /\ mainQueue'[i].socket = mainQueue'[j].socket => i = j
    BY <1>2, <1>3, <1>4 DEF JoinsOnce
  <1>8. \A i \in DOMAIN mainQueue' :
            mainQueue'[i].kind = "add" =>
                /\ mainQueue'[i].socket \notin socketMap'
                /\ client'[mainQueue'[i].socket] \notin {"none", "accepted"}
    BY <1>1, <1>2, <1>3, <1>4, <1>5, <1>6 DEF JoinsOnce
  <1>9. \A r \in socketMap' : client'[r] \notin {"none", "accepted"}
    BY <1>1, <1>5, <1>6 DEF JoinsOnce
  <1>10. QED
    BY <1>7, <1>8, <1>9 DEF JoinsOnce

\* A task of the main queue: only AddSubscriberNotification adds a subscriber,
\* and it is the one its client joins with.
LEMMA MainTaskJoins ==
    ASSUME TypeOK, JoinsOnce, MainTask
    PROVE  JoinsOnce'
  <1> DEFINE t == Head(mainQueue)
  <1>1. /\ mainQueue # <<>> /\ mainQueue' = Tail(mainQueue)
        /\ client' = client
        /\ ExecuteAdd(t) \/ ExecuteRemove(t) \/ ExecuteSubscribe(t)
           \/ ExecuteUnsubscribe(t) \/ ExecuteWatch(t) \/ ExecuteNotify(t)
    BY DEF MainTask, TakeMain, clients
  <1>2. mainQueue \in Seq(MainTasks)
    BY DEF TypeOK
  <1>3. \A i \in DOMAIN mainQueue' :
            /\ i + 1 \in DOMAIN mainQueue /\ mainQueue'[i] = mainQueue[i + 1]
            /\ i \in Nat /\ i + 1 # 1
    BY <1>1, <1>2
  <1>4. 1 \in DOMAIN mainQueue /\ mainQueue[1] = t
    BY <1>1, <1>2
  <1>5. \A i, j \in DOMAIN mainQueue' :
            mainQueue'[i].kind = "add" /\ mainQueue'[j].kind = "add"
                /\ mainQueue'[i].socket = mainQueue'[j].socket => i = j
    BY <1>3 DEF JoinsOnce
  <1>6. \/ socketMap' \subseteq socketMap
        \/ t.kind = "add" /\ socketMap' = socketMap \cup {t.socket}
    BY <1>1 DEF ExecuteAdd, ExecuteRemove, ExecuteSubscribe, ExecuteUnsubscribe, ExecuteWatch,
       ExecuteNotify, RemoveSubscriberImpl, maps
  <1> HIDE DEF t
  <1>7. \A i \in DOMAIN mainQueue' :
            mainQueue'[i].kind = "add" =>
                /\ mainQueue'[i].socket \notin socketMap'
                /\ client'[mainQueue'[i].socket] \notin {"none", "accepted"}
    BY <1>1, <1>3, <1>4, <1>6 DEF JoinsOnce
  <1>8. \A s \in socketMap' : client'[s] \notin {"none", "accepted"}
    BY <1>1, <1>4, <1>6 DEF JoinsOnce
  <1>9. QED
    BY <1>5, <1>7, <1>8 DEF JoinsOnce

\* Every step preserves JoinsOnce.
LEMMA JoinsNext == TypeOK /\ JoinsOnce /\ [Next]_vars => JoinsOnce'
  <1> SUFFICES ASSUME TypeOK, JoinsOnce, [Next]_vars PROVE JoinsOnce'
    OBVIOUS
  <1>1. mainQueue \o <<>> = mainQueue
    BY DEF TypeOK
  <1>2. ASSUME socketMap' \subseteq socketMap, mainQueue' = mainQueue,
               \A s \in Sockets : client'[s] \in {"none", "accepted"}
                                      => client[s] \in {"none", "accepted"}
        PROVE  JoinsOnce'
    <2>1. <<>> \in Seq(MainTasks) /\ \A i \in DOMAIN <<>> : <<>>[i].kind # "add"
      OBVIOUS
    <2>2. QED
      BY <1>1, <1>2, <2>1, JoinsKept
  <1>3. ASSUME NEW s \in Sockets, Preflight(s) \/ ClientGoes(s) PROVE JoinsOnce'
    BY <1>2, <1>3 DEF Preflight, ClientGoes, maps, TypeOK
  <1>4. ASSUME NEW s \in Sockets, Connect(s) PROVE JoinsOnce'
    BY <1>4, ConnectJoins
  <1>5. ASSUME NEW s \in Sockets, NEW f \in ClientFrames, ClientSends(s, f) PROVE JoinsOnce'
    BY <1>2, <1>5 DEF ClientSends, maps, TypeOK
  <1>6. ASSUME NEW x \in Subjects, NotifyCall(x) PROVE JoinsOnce'
    <2>1. Notify(x) \in MainTasks /\ Notify(x).kind # "add"
      BY TasksAreTyped DEF Notify
    <2> DEFINE n == Notify(x)
    <2>2. mainQueue' = mainQueue \o <<n>>
      BY <1>6, <2>1 DEF NotifyCall, TypeOK
    <2> HIDE DEF n
    <2>3. <<n>> \in Seq(MainTasks) /\ \A i \in DOMAIN <<n>> : <<n>>[i].kind # "add"
      BY <2>1 DEF n
    <2>4. socketMap' = socketMap /\ client' = client
      BY <1>6 DEF NotifyCall, maps
    <2>5. QED
      BY <2>2, <2>3, <2>4, JoinsKept
  <1>7. CASE Select \/ Drained
    BY <1>2, <1>7 DEF Select, Drained, maps, clients
  <1>8. ASSUME NEW s \in Sockets, ProcessReady(s) \/ ProcessBroken(s) PROVE JoinsOnce'
    BY <1>2, <1>8 DEF ProcessReady, ProcessBroken, RemoveSubscriberImpl, maps, clients
  <1>9. CASE MainTask
    BY <1>9, MainTaskJoins
  <1>10. ASSUME NEW w \in Workers, WorkerTakes(w) PROVE JoinsOnce'
    BY <1>2, <1>10 DEF WorkerTakes, maps, clients
  <1>11. ASSUME NEW w \in Workers, WorkerExecutes(w) PROVE JoinsOnce'
    <2>1. PICK posted \in Seq(MainTasks) :
              WorkerDone(w, posted) /\ \A i \in DOMAIN posted : posted[i].kind # "add"
      BY <1>11, WorkerPosts
    <2>2. socketMap' = socketMap /\ mainQueue' = mainQueue \o posted /\ client' = client
      BY <1>11, <2>1, WorkerIO DEF WorkerDone, maps
    <2>3. QED
      BY <2>1, <2>2, JoinsKept
  <1>12. CASE DtorStops \/ Destructor
    BY <1>2, <1>12 DEF DtorStops, Destructor, DtorWakesMain, DtorWakesWorkers, DtorJoins,
       maps, clients
  <1>13. CASE UNCHANGED vars
    BY <1>2, <1>13 DEF vars
  <1>14. QED
    BY <1>3, <1>4, <1>5, <1>6, <1>7, <1>8, <1>9, <1>10, <1>11, <1>12, <1>13
    DEF Next, Main, Worker

-----------------------------------------------------------------------------
\* Removing a subscriber removes exactly its pairs.
LEMMA RemovalAgrees ==
    ASSUME TypeOK, MapsAgree, NEW s \in Sockets, NEW c \in BOOLEAN, RemoveSubscriberImpl(s, c)
    PROVE  MapsAgree'
  <1> SUFFICES ASSUME NEW x \in Subjects, NEW r \in Sockets
               PROVE  <<x, r>> \in subjectMap' <=> r \in socketMap' /\ x \in subjectNames'[r]
    BY DEF MapsAgree
  <1>1. <<x, r>> \in subjectMap' <=> <<x, r>> \in subjectMap /\ r # s
    BY DEF RemoveSubscriberImpl
  <1>2. r \in socketMap' <=> r \in socketMap /\ r # s
    BY DEF RemoveSubscriberImpl
  <1>3. r # s => subjectNames'[r] = subjectNames[r]
    BY DEF RemoveSubscriberImpl, TypeOK
  <1>4. QED
    BY <1>1, <1>2, <1>3 DEF MapsAgree

\* Every task of the main queue preserves the agreement of the maps.
LEMMA MainTaskAgrees ==
    ASSUME TypeOK, MapsAgree, JoinsOnce, MainTask
    PROVE  MapsAgree'
  <1> DEFINE t == Head(mainQueue)
  <1>1. /\ ExecuteAdd(t) \/ ExecuteRemove(t) \/ ExecuteSubscribe(t)
           \/ ExecuteUnsubscribe(t) \/ ExecuteWatch(t) \/ ExecuteNotify(t)
        /\ t \in MainTasks /\ 1 \in DOMAIN mainQueue /\ t = mainQueue[1]
    BY DEF MainTask, TakeMain, TypeOK
  <1> HIDE DEF t
  <1>2. CASE ExecuteAdd(t)
    <2> DEFINE s == t.socket
    <2>1. s \in Sockets
      BY <1>1, <1>2, MainTaskKinds DEF ExecuteAdd
    <2>2. s \notin socketMap
      BY <1>1, <1>2 DEF ExecuteAdd, JoinsOnce
    <2>3. \A x \in Subjects : <<x, s>> \notin subjectMap
      BY <2>1, <2>2 DEF MapsAgree
    <2>4. /\ socketMap' = socketMap \cup {s}
          /\ subjectNames' = [subjectNames EXCEPT ![s] = {}]
          /\ subjectMap' = subjectMap
      BY <1>2 DEF ExecuteAdd
    <2> HIDE DEF s
    <2>5. subjectNames'[s] = {} /\ \A r \in Sockets \ {s} : subjectNames'[r] = subjectNames[r]
      BY <2>1, <2>4 DEF TypeOK
    <2>6. QED
      BY <2>3, <2>4, <2>5 DEF MapsAgree
  <1>3. CASE ExecuteRemove(t)
    <2>1. t.socket \in Sockets /\ t.byClient \in BOOLEAN
      BY <1>1, <1>3, MainTaskKinds DEF ExecuteRemove
    <2>2. QED
      BY <1>3, <2>1, RemovalAgrees DEF ExecuteRemove, MapsAgree, maps
  <1>4. CASE ExecuteSubscribe(t)
    <2> DEFINE s == t.socket
               y == t.subject
    <2>1. s \in Sockets
      BY <1>1, <1>4, MainTaskKinds DEF ExecuteSubscribe
    <2>2. CASE s \in socketMap
      <3>1. /\ subjectNames' = [subjectNames EXCEPT ![s] = @ \cup {y}]
            /\ subjectMap' = subjectMap \cup {<<y, s>>}
            /\ socketMap' = socketMap
        BY <1>4, <2>2 DEF ExecuteSubscribe
      <3> HIDE DEF s, y
      <3>2. /\ subjectNames'[s] = subjectNames[s] \cup {y}
            /\ \A r \in Sockets \ {s} : subjectNames'[r] = subjectNames[r]
        BY <2>1, <3>1 DEF TypeOK
      <3>3. QED
        BY <2>2, <3>1, <3>2 DEF MapsAgree
    <2>3. CASE s \notin socketMap
      BY <1>4, <2>3 DEF ExecuteSubscribe, MapsAgree
    <2>4. QED
      BY <2>2, <2>3
  <1>5. CASE ExecuteUnsubscribe(t)
    <2> DEFINE s == t.socket
    <2>1. s \in Sockets
      BY <1>1, <1>5, MainTaskKinds DEF ExecuteUnsubscribe
    <2>2. CASE s \in socketMap
      <3>1. PICK names \in SUBSET subjectNames[s] :
                /\ subjectNames' = [subjectNames EXCEPT ![s] = @ \ names]
                /\ subjectMap' = subjectMap \ {<<x, s>> : x \in names}
                /\ socketMap' = socketMap
        BY <1>5, <2>2 DEF ExecuteUnsubscribe
      <3> HIDE DEF s
      <3>2. /\ subjectNames'[s] = subjectNames[s] \ names
            /\ \A r \in Sockets \ {s} : subjectNames'[r] = subjectNames[r]
        BY <2>1, <3>1 DEF TypeOK
      <3>3. \A x \in Subjects, r \in Sockets :
                <<x, r>> \in subjectMap' <=>
                    <<x, r>> \in subjectMap /\ ~(r = s /\ x \in names)
        BY <3>1
      <3>4. QED
        BY <3>1, <3>2, <3>3 DEF MapsAgree
    <2>3. CASE s \notin socketMap
      BY <1>5, <2>3 DEF ExecuteUnsubscribe, MapsAgree
    <2>4. QED
      BY <2>2, <2>3
  <1>6. CASE ExecuteWatch(t) \/ ExecuteNotify(t)
    BY <1>6 DEF ExecuteWatch, ExecuteNotify, maps, MapsAgree
  <1>7. QED
    BY <1>1, <1>2, <1>3, <1>4, <1>5, <1>6

\* Every step preserves the agreement of the maps: only the main thread, in its
\* tasks and when select() reports a broken socket, changes them.
LEMMA MapsNext == TypeOK /\ MapsAgree /\ JoinsOnce /\ [Next]_vars => MapsAgree'
  <1> SUFFICES ASSUME TypeOK, MapsAgree, JoinsOnce, [Next]_vars PROVE MapsAgree'
    OBVIOUS
  <1>1. CASE UNCHANGED maps
    BY <1>1 DEF maps, MapsAgree
  <1>2. ASSUME NEW s \in Sockets, ProcessBroken(s) PROVE MapsAgree'
    <2>1. CASE RemoveSubscriberImpl(s, FALSE)
      BY <2>1, RemovalAgrees
    <2>2. QED
      BY <1>1, <1>2, <2>1 DEF ProcessBroken, maps
  <1>3. CASE MainTask
    BY <1>3, MainTaskAgrees
  <1>4. ASSUME NEW w \in Workers, Worker(w) PROVE UNCHANGED maps
    <2>1. CASE WorkerTakes(w)
      BY <2>1 DEF WorkerTakes
    <2>2. CASE WorkerExecutes(w)
      BY <2>2, WorkerPosts DEF WorkerDone
    <2>3. QED
      BY <1>4, <2>1, <2>2 DEF Worker
  <1>5. CASE \/ \E s \in Sockets : Preflight(s) \/ Connect(s) \/ ClientGoes(s)
             \/ \E s \in Sockets, f \in ClientFrames : ClientSends(s, f)
             \/ \E x \in Subjects : NotifyCall(x)
    BY <1>1, <1>5 DEF Preflight, Connect, ClientGoes, ClientSends, NotifyCall
  <1>6. CASE Select \/ (\E s \in Sockets : ProcessReady(s)) \/ Drained
    BY <1>1, <1>6 DEF Select, ProcessReady, Drained
  <1>7. CASE DtorStops \/ Destructor
    BY <1>1, <1>7 DEF DtorStops, Destructor, DtorWakesMain, DtorWakesWorkers, DtorJoins
  <1>8. CASE UNCHANGED vars
    BY <1>1, <1>8 DEF vars, maps
  <1>9. QED
    BY <1>1, <1>2, <1>3, <1>4, <1>5, <1>6, <1>7, <1>8 DEF Next, Main

\* The subscribers' own names and the map from subjects to subscribers agree in
\* every reachable state, whatever clients, workers and the destructor do.
THEOREM MapsAgreeHolds == Spec => []MapsAgree
  <1> DEFINE Inv == TypeOK /\ MapsAgree /\ JoinsOnce
  <1>1. Init => Inv
    BY InitInv
  <1>2. Inv /\ [Next]_vars => Inv'
    BY TypeNext, MapsNext, JoinsNext
  <1>3. Inv => MapsAgree
    OBVIOUS
  <1>4. QED
    BY <1>1, <1>2, <1>3, PTL DEF Spec
=============================================================================
