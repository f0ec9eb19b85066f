--------------------------- MODULE WebEventService ---------------------------
(***************************************************************************)
(* The WebEventService (osp/OSP/WebEvent/src/WebEventServiceImpl.cpp and   *)
(* WebEventRequestHandler.cpp): browsers open WebSockets, subscribe to     *)
(* hierarchical subjects, and are sent every notification for them.        *)
(*                                                                         *)
(* The main thread owns the maps and the list of watched sockets and takes *)
(* its tasks from _mainQueue; the worker threads do the socket I/O and     *)
(* take theirs from _workerQueue; HTTP threads do the handshakes; one more *)
(* thread runs the destructor.  Each task's execute() is one action: it    *)
(* shares with the other threads the two queues only.                      *)
(*                                                                         *)
(* Both queues are NotificationQueues.  By Mailbox (see that module) a     *)
(* waiter that has been handed a notification is here one that has not yet *)
(* taken it.  The test of _stopped at the head of both loops is part of    *)
(* the step that ends the previous iteration: a thread that tests later is *)
(* one that ends it later.                                                 *)
(***************************************************************************)
EXTENDS Integers, Sequences, FiniteSets, SequencesExt

CONSTANTS
    Sockets,      \* the WebSockets clients may open, each once
    Workers,      \* the worker threads (2 * processorCount() in the code)
    Subjects,     \* subject names, as non-empty sequences of their parts
    ClientFrames, \* what clients may send, see Frame
    MaxSockets,   \* osp.web.event.maxWebSockets; 0 is no limit
    MayStop,      \* bound: whether the service is destroyed in this instance
    MaxFrames,    \* bound: frames all clients together may send
    MaxNotifies   \* bound: calls of notify() on the server

ASSUME FiniteAssumption == IsFiniteSet(Sockets) /\ IsFiniteSet(Subjects) /\ IsFiniteSet(Workers)

\* SYSTEM_PING and SYSTEM_PONG are subjects like any other but for receiveImpl.
SystemPing == <<"system", "ping">>
SystemPong == <<"system", "pong">>

\* FrameOpcodes of WebSocket.h, each as the set of the bits set in it.
OpText == {0}
OpBinary == {1}
OpClose == {3}
OpPing == {0, 3}
OpPong == {1, 3}

Text(verb, subject) == [op |-> OpText, verb |-> verb, subject |-> subject]
Control(op) == [op |-> op, verb |-> "none", subject |-> <<>>]
\* A frame at which WebSocket::receiveFrame throws.
Malformed == [op |-> {}, verb |-> "malformed", subject |-> <<>>]
\* What receiveFrame returns when the connection has ended: no bytes, no flags.
EndOfStream == [op |-> {}, verb |-> "end", subject |-> <<>>]
\* UNSUBSCRIBE * stands for every subject of the subscriber.
All == <<"*">>

\* What a frame holds is a request about known subjects, or no request.
ASSUME FramesAssumption ==
    \A f \in ClientFrames :
        /\ f.verb \in {"SUBSCRIBE", "UNSUBSCRIBE", "NOTIFY", "none", "malformed"}
        /\ f.verb = "SUBSCRIBE" => f.subject \in Subjects
        /\ f.verb = "UNSUBSCRIBE" => f.subject \in Subjects \cup {All}
        /\ f.verb = "NOTIFY" => f.subject \in Subjects \cup {SystemPing}


\* What the two queues hold: a TaskNotification of each class.
AddSubscriber(s) == [kind |-> "add", socket |-> s]
RemoveSubscriber(s, byClient) == [kind |-> "remove", socket |-> s, byClient |-> byClient]
Subscribe(s, x) == [kind |-> "subscribe", socket |-> s, subject |-> x]
Unsubscribe(s, x) == [kind |-> "unsubscribe", socket |-> s, subject |-> x]
WatchSocket(s) == [kind |-> "watch", socket |-> s]
Notify(x) == [kind |-> "notify", subject |-> x]
Receive(s) == [kind |-> "receive", socket |-> s]
\* match is the subscription the message is sent for.
Send(s, x, match) == [kind |-> "send", socket |-> s, subject |-> x, match |-> match]
Shutdown(s, passive) == [kind |-> "shutdown", socket |-> s, passive |-> passive]

MainTasks ==
    {AddSubscriber(s) : s \in Sockets} \cup {WatchSocket(s) : s \in Sockets}
    \cup {RemoveSubscriber(s, c) : s \in Sockets, c \in BOOLEAN}
    \cup {Subscribe(s, x) : s \in Sockets, x \in Subjects}
    \cup {Unsubscribe(s, x) : s \in Sockets, x \in Subjects \cup {All}}
    \cup {Notify(x) : x \in Subjects}

SendTasks == {Send(s, x, m) : s \in Sockets, x \in Subjects \cup {SystemPong},
                              m \in Subjects \cup {SystemPong}}

WorkerTasks ==
    {Receive(s) : s \in Sockets} \cup SendTasks
    \cup {Shutdown(s, p) : s \in Sockets, p \in BOOLEAN}

NoTask == [kind |-> "none"]

VARIABLES
    socketMap,    \* _socketMap: the sockets of the current subscribers
    subjectNames, \* Subscriber::subjectNames
    subjectMap,   \* _subjectMap: pairs of a subject and a subscriber
    socketList,   \* _socketList: how often each socket is in it
    mainQueue,    \* _mainQueue
    workerQueue,  \* _workerQueue
    mainPc,       \* where the main thread is in runMain
    ready,        \* what is left to process of readList
    broken,       \* what is left to process of exceptList
    workerPc,     \* where each worker is in runWorker
    task,         \* the task a worker has taken and not finished
    stopped,      \* _stopped
    dtorPc,       \* where ~WebEventServiceImpl is
    closed,       \* the sockets the service has closed
    (* The clients. *)
    client,       \* none, accepted (upgrade accepted), up, closing (sent CLOSE), gone
    frames,       \* what each client has sent and the service has not received
    inbox,        \* what each client has received: subject and matching subscription
    budget        \* frames and notifications still to be sent

maps == <<socketMap, subjectNames, subjectMap>>
clients == <<client, frames, inbox, budget>>
mainState == <<mainPc, ready, broken>>
workers == <<workerPc, task>>
dtor == <<stopped, dtorPc>>
vars == <<socketMap, subjectNames, subjectMap, socketList, mainQueue, workerQueue,
          mainPc, ready, broken, workerPc, task, stopped, dtorPc, closed,
          client, frames, inbox, budget>>

Init ==
    /\ socketMap = {} /\ subjectMap = {}
    /\ subjectNames = [s \in Sockets |-> {}]
    /\ socketList = [s \in Sockets |-> 0]
    /\ mainQueue = <<>> /\ workerQueue = <<>>
    /\ mainPc = "select" /\ ready = {} /\ broken = {}
    /\ workerPc = [w \in Workers |-> "dequeue"]
    /\ task = [w \in Workers |-> NoTask]
    /\ stopped = FALSE /\ dtorPc = "alive"
    /\ closed = [s \in Sockets |-> FALSE]
    /\ client = [s \in Sockets |-> "none"]
    /\ frames = [s \in Sockets |-> <<>>]
    /\ inbox = [s \in Sockets |-> {}]
    /\ budget = [frames |-> MaxFrames, notifies |-> MaxNotifies]

-----------------------------------------------------------------------------
(* Clients, HTTP threads, and callers of notify(). *)

\* preflightRequest() on an HTTP thread, which reads the size of a map that
\* belongs to the main thread.
Preflight(s) ==
    /\ dtorPc = "alive"
    /\ client[s] = "none"
    /\ MaxSockets = 0 \/ Cardinality(socketMap) < MaxSockets
    /\ client' = [client EXCEPT ![s] = "accepted"]
    /\ UNCHANGED <<maps, socketList, mainQueue, workerQueue, mainState, workers,
                   dtor, closed, frames, inbox, budget>>

\* The rest of handleRequest(): the WebSocket is created, addSubscriber().
Connect(s) ==
    /\ dtorPc = "alive"
    /\ client[s] = "accepted"
    /\ client' = [client EXCEPT ![s] = "up"]
    /\ mainQueue' = Append(mainQueue, AddSubscriber(s))
    /\ UNCHANGED <<maps, socketList, workerQueue, mainState, workers, dtor, closed,
                   frames, inbox, budget>>

ClientSends(s, f) ==
    /\ client[s] = "up"
    /\ budget.frames > 0
    /\ budget' = [budget EXCEPT !.frames = @ - 1]
    /\ frames' = [frames EXCEPT ![s] = Append(@, f)]
    /\ client' = [client EXCEPT ![s] = IF f.op = OpClose THEN "closing" ELSE @]
    /\ UNCHANGED <<maps, socketList, mainQueue, workerQueue, mainState, workers,
                   dtor, closed, inbox>>

\* The TCP connection ends, after a CLOSE frame or without.
ClientGoes(s) ==
    /\ client[s] \in {"up", "closing"}
    /\ client' = [client EXCEPT ![s] = "gone"]
    /\ UNCHANGED <<maps, socketList, mainQueue, workerQueue, mainState, workers,
                   dtor, closed, frames, inbox, budget>>

\* notify() on any thread of the server.
NotifyCall(x) ==
    /\ dtorPc = "alive"
    /\ budget.notifies > 0
    /\ budget' = [budget EXCEPT !.notifies = @ - 1]
    /\ mainQueue' = Append(mainQueue, Notify(x))
    /\ UNCHANGED <<maps, socketList, workerQueue, mainState, workers, dtor, closed,
                   client, frames, inbox>>

-----------------------------------------------------------------------------
(* The main thread. *)

\* std::find and erase of one occurrence, if there is one.
Unwatched(s) == [socketList EXCEPT ![s] = IF @ > 0 THEN @ - 1 ELSE 0]

\* removeSubscriberImpl() with a socket of the map; unsubscribeImpl() of all
\* its subjects included.
RemoveSubscriberImpl(s, byClient) ==
    /\ subjectMap' = {e \in subjectMap : e[2] # s}
    /\ subjectNames' = [subjectNames EXCEPT ![s] = {}]
    /\ socketMap' = socketMap \ {s}
    /\ socketList' = Unwatched(s)
    /\ workerQueue' = Append(workerQueue, Shutdown(s, byClient))

Readable(s) == ~closed[s] /\ (frames[s] # <<>> \/ client[s] = "gone")

\* select() on the copies of _socketList.  A closed socket is not polled.
Select ==
    /\ mainPc = "select"
    /\ LET watched == {s \in Sockets : socketList[s] > 0} IN
       /\ ready' = {s \in watched : Readable(s)}
       /\ \E B \in SUBSET {s \in watched : client[s] = "gone" /\ ~closed[s]} : broken' = B
       /\ mainPc' = IF ready' \cup broken' = {} THEN "drain" ELSE "process"
    /\ UNCHANGED <<maps, socketList, mainQueue, workerQueue, workers, dtor, closed, clients>>

\* Variant: the socket stays watched while a worker reads from it.
ProcessReady_StillWatched(s) ==
    /\ mainPc = "process"
    /\ s \in ready
    /\ ready' = ready \ {s}
    /\ mainPc' = IF ready' \cup broken = {} THEN "drain" ELSE "process"
    /\ workerQueue' = IF s \in socketMap THEN Append(workerQueue, Receive(s)) ELSE workerQueue
    /\ UNCHANGED <<maps, socketList, mainQueue, broken, workers, dtor, closed, clients>>

\* One iteration of the loop over readList.  The socket of a subscriber is
\* given to a worker, and not watched until the worker has read from it.
ProcessReady(s) ==
    /\ mainPc = "process"
    /\ s \in ready
    /\ ready' = ready \ {s}
    /\ mainPc' = IF ready' \cup broken = {} THEN "drain" ELSE "process"
    /\ \/ /\ s \in socketMap
          /\ workerQueue' = Append(workerQueue, Receive(s))
          /\ socketList' = Unwatched(s)
       \/ /\ s \notin socketMap
          /\ UNCHANGED <<workerQueue, socketList>>
    /\ UNCHANGED <<maps, mainQueue, broken, workers, dtor, closed, clients>>

\* One iteration of the loop over exceptList.
ProcessBroken(s) ==
    /\ mainPc = "process"
    /\ ready = {}
    /\ s \in broken
    /\ broken' = broken \ {s}
    /\ mainPc' = IF broken' = {} THEN "drain" ELSE "process"
    /\ \/ /\ s \in socketMap
          /\ RemoveSubscriberImpl(s, FALSE)
       \/ /\ s \notin socketMap
          /\ UNCHANGED <<maps, socketList, workerQueue>>
    /\ UNCHANGED <<mainQueue, ready, workers, dtor, closed, clients>>

\* A task is taken off _mainQueue, by dequeueNotification() or by
\* waitDequeueNotification(), and executed.
TakeMain ==
    /\ mainPc = "drain"
    /\ mainQueue # <<>>
    /\ mainQueue' = Tail(mainQueue)
    /\ UNCHANGED <<mainState, workers, dtor, closed, clients>>

ExecuteAdd(t) ==
    /\ t.kind = "add"
    /\ socketMap' = socketMap \cup {t.socket}
    /\ subjectNames' = [subjectNames EXCEPT ![t.socket] = {}]
    /\ socketList' = [socketList EXCEPT ![t.socket] = @ + 1]
    /\ UNCHANGED <<subjectMap, workerQueue>>

\* Variant: removal without looking the socket up in the map.
ExecuteRemove_Unchecked(t) ==
    /\ t.kind = "remove"
    /\ RemoveSubscriberImpl(t.socket, t.byClient)

ExecuteRemove(t) ==
    /\ t.kind = "remove"
    /\ \/ /\ t.socket \in socketMap
          /\ RemoveSubscriberImpl(t.socket, t.byClient)
       \/ /\ t.socket \notin socketMap
          /\ UNCHANGED <<maps, socketList, workerQueue>>

\* Variant: subscribing without looking the socket up in the map.
ExecuteSubscribe_Unchecked(t) ==
    /\ t.kind = "subscribe"
    /\ subjectNames' = [subjectNames EXCEPT ![t.socket] = @ \cup {t.subject}]
    /\ subjectMap' = subjectMap \cup {<<t.subject, t.socket>>}
    /\ UNCHANGED <<socketMap, socketList, workerQueue>>

ExecuteSubscribe(t) ==
    /\ t.kind = "subscribe"
    /\ \/ /\ t.socket \in socketMap
          /\ subjectNames' = [subjectNames EXCEPT ![t.socket] = @ \cup {t.subject}]
          /\ subjectMap' = subjectMap \cup {<<t.subject, t.socket>>}
       \/ /\ t.socket \notin socketMap
          /\ UNCHANGED <<subjectNames, subjectMap>>
    /\ UNCHANGED <<socketMap, socketList, workerQueue>>

ExecuteUnsubscribe(t) ==
    /\ t.kind = "unsubscribe"
    /\ LET s == t.socket
           names == IF t.subject = All THEN subjectNames[s]
                    ELSE {t.subject} \cap subjectNames[s] IN
       \/ /\ s \in socketMap
          /\ subjectNames' = [subjectNames EXCEPT ![s] = @ \ names]
          /\ subjectMap' = subjectMap \ {<<x, s>> : x \in names}
       \/ /\ s \notin socketMap
          /\ UNCHANGED <<subjectNames, subjectMap>>
    /\ UNCHANGED <<socketMap, socketList, workerQueue>>

ExecuteWatch(t) ==
    /\ t.kind = "watch"
    /\ socketList' = [socketList EXCEPT ![t.socket] = @ + 1]
    /\ UNCHANGED <<maps, workerQueue>>

\* Variant: the subject only.
Levels_Exact(x) == {x}

\* The names notifyImpl looks up: the subject, then what is left of it each
\* time its last part is cut off (find_last_of('.'), resize).
Levels(x) == {SubSeq(x, 1, n) : n \in 1 .. Len(x)}

\* notifyImpl(): a message is queued for every match at every level; a client
\* that subscribed to two levels gets two.
ExecuteNotify(t) ==
    /\ t.kind = "notify"
    /\ LET matches == {Send(e[2], t.subject, e[1]) :
                            e \in {d \in subjectMap : d[1] \in Levels(t.subject)}} IN
       \E order \in SetToSeqs(matches) : workerQueue' = workerQueue \o order
    /\ UNCHANGED <<maps, socketList>>

MainTask ==
    LET t == Head(mainQueue) IN
    /\ TakeMain
    /\ \/ ExecuteAdd(t)
       \/ ExecuteRemove(t)
       \/ ExecuteSubscribe(t)
       \/ ExecuteUnsubscribe(t)
       \/ ExecuteWatch(t)
       \/ ExecuteNotify(t)

\* The loop over the main queue ends when dequeueNotification() finds it
\* empty, which is tried only while some socket is watched.
Drained ==
    /\ mainPc = "drain"
    /\ mainQueue = <<>>
    /\ \E s \in Sockets : socketList[s] > 0
    /\ mainPc' = IF stopped THEN "done" ELSE "select"
    /\ UNCHANGED <<maps, socketList, mainQueue, workerQueue, ready, broken, workers,
                   dtor, closed, clients>>

Main == Select \/ (\E s \in Sockets : ProcessReady(s) \/ ProcessBroken(s)) \/ MainTask \/ Drained

-----------------------------------------------------------------------------
(* The workers. *)

WorkerTakes(w) ==
    /\ workerPc[w] = "dequeue"
    /\ workerQueue # <<>>
    /\ workerQueue' = Tail(workerQueue)
    /\ task' = [task EXCEPT ![w] = Head(workerQueue)]
    /\ workerPc' = [workerPc EXCEPT ![w] = "execute"]
    /\ UNCHANGED <<maps, socketList, mainQueue, mainState, dtor, closed, clients>>

\* Variant: the finished task is kept.
WorkerDone_KeepsTask(w, posted) ==
    /\ workerPc' = [workerPc EXCEPT ![w] = IF stopped THEN "done" ELSE "dequeue"]
    /\ mainQueue' = mainQueue \o posted
    /\ UNCHANGED <<maps, socketList, mainState, task, dtor>>

\* The end of an iteration of runWorker; tasks are posted to the main queue.
WorkerDone(w, posted) ==
    /\ task' = [task EXCEPT ![w] = NoTask]
    /\ workerPc' = [workerPc EXCEPT ![w] = IF stopped THEN "done" ELSE "dequeue"]
    /\ mainQueue' = mainQueue \o posted
    /\ UNCHANGED <<maps, socketList, mainState, dtor>>

Executing(w, kind) == workerPc[w] = "execute" /\ task[w].kind = kind

\* sendImpl().  Sending can fail at any time: the peer is gone or too slow.
SendDelivers(w) ==
    LET t == task[w] IN
    /\ Executing(w, "send")
    /\ ~closed[t.socket] /\ client[t.socket] # "gone"
    /\ inbox' = [inbox EXCEPT ![t.socket] = @ \cup {<<t.subject, t.match>>}]
    /\ WorkerDone(w, <<>>)
    /\ UNCHANGED <<workerQueue, closed, client, frames, budget>>

SendFails(w) ==
    /\ Executing(w, "send")
    /\ WorkerDone(w, <<RemoveSubscriber(task[w].socket, FALSE)>>)
    /\ UNCHANGED <<workerQueue, closed, clients>>

\* receiveImpl() up to the return of receiveFrame().
ReceivesFrame(w, f) ==
    LET s == task[w].socket IN
    /\ Executing(w, "receive")
    /\ ~closed[s]
    /\ \/ /\ frames[s] # <<>>
          /\ f = Head(frames[s])
          /\ frames' = [frames EXCEPT ![s] = Tail(@)]
       \/ /\ frames[s] = <<>> /\ client[s] = "gone"
          /\ f = EndOfStream
          /\ UNCHANGED frames
    /\ UNCHANGED <<closed, client, inbox, budget>>

HasBitOf(f, op) == f.op \cap op # {}

\* Variant: the socket is not watched again.
ReceiveIgnored_NoWatch(w) ==
    \E f \in ClientFrames :
        /\ ReceivesFrame(w, f)
        /\ HasBitOf(f, OpPong)
        /\ WorkerDone(w, <<>>)
        /\ UNCHANGED workerQueue

\* flags & FRAME_OP_PONG: nothing but watching the socket again.
ReceiveIgnored(w) ==
    \E f \in ClientFrames :
        /\ ReceivesFrame(w, f)
        /\ HasBitOf(f, OpPong)
        /\ WorkerDone(w, <<WatchSocket(task[w].socket)>>)
        /\ UNCHANGED workerQueue

\* flags & FRAME_OP_CLOSE, or no bytes.
ReceiveEnd(w) ==
    \E f \in ClientFrames \cup {EndOfStream} :
        /\ ReceivesFrame(w, f)
        /\ ~HasBitOf(f, OpPong)
        /\ HasBitOf(f, OpClose) \/ f = EndOfStream
        /\ WorkerDone(w, <<RemoveSubscriber(task[w].socket, TRUE)>>)
        /\ UNCHANGED workerQueue

\* A well-formed request: what is posted for it, then the socket is watched.
ReceiveRequest(w) ==
    LET s == task[w].socket IN
    \E f \in ClientFrames :
        /\ ReceivesFrame(w, f)
        /\ f.op = OpText
        /\ \/ /\ f.verb = "SUBSCRIBE"
              /\ WorkerDone(w, <<Subscribe(s, f.subject), WatchSocket(s)>>)
              /\ UNCHANGED workerQueue
           \/ /\ f.verb = "UNSUBSCRIBE"
              /\ WorkerDone(w, <<Unsubscribe(s, f.subject), WatchSocket(s)>>)
              /\ UNCHANGED workerQueue
           \/ /\ f.verb = "NOTIFY"
              /\ f.subject # SystemPing
              /\ WorkerDone(w, <<Notify(f.subject), WatchSocket(s)>>)
              /\ UNCHANGED workerQueue
           \/ /\ f.verb = "NOTIFY"
              /\ f.subject = SystemPing
              /\ workerQueue' = Append(workerQueue, Send(s, SystemPong, SystemPong))
              /\ WorkerDone(w, <<WatchSocket(s)>>)

\* "Client protocol violation", or receiveFrame() throws on what it reads.
ReceiveViolation(w) ==
    \E f \in ClientFrames :
        /\ ReceivesFrame(w, f)
        /\ f = Malformed
        /\ WorkerDone(w, <<RemoveSubscriber(task[w].socket, FALSE)>>)
        /\ UNCHANGED workerQueue

\* Variant: the exception is logged and the subscriber left as it is.
ReceiveFails_LogOnly(w) ==
    LET s == task[w].socket IN
    /\ Executing(w, "receive")
    /\ closed[s] \/ frames[s] = <<>>
    /\ WorkerDone(w, <<>>)
    /\ UNCHANGED <<workerQueue, closed, clients>>

\* receiveFrame() throws: nothing came in time, the connection was reset, or
\* the socket has been closed meanwhile.
ReceiveFails(w) ==
    LET s == task[w].socket IN
    /\ Executing(w, "receive")
    /\ closed[s] \/ frames[s] = <<>>
    /\ WorkerDone(w, <<RemoveSubscriber(s, FALSE)>>)
    /\ UNCHANGED <<workerQueue, closed, clients>>

\* shutdownImpl(): sends CLOSE; unless passive, waits for a frame and reads
\* it, whatever it is; closes.
ShutdownCloses(w) ==
    LET t == task[w] IN
    /\ Executing(w, "shutdown")
    /\ closed' = [closed EXCEPT ![t.socket] = TRUE]
    /\ \/ UNCHANGED frames
       \/ /\ ~t.passive /\ frames[t.socket] # <<>>
          /\ frames' = [frames EXCEPT ![t.socket] = Tail(@)]
    /\ WorkerDone(w, <<>>)
    /\ UNCHANGED <<workerQueue, client, inbox, budget>>

\* receiveFrame(), called outside the try block, throws: close() is skipped
\* and the exception ends in runWorker.
ShutdownThrows(w) ==
    LET t == task[w] IN
    /\ Executing(w, "shutdown")
    /\ ~t.passive
    /\ \/ /\ client[t.socket] = "gone"
          /\ UNCHANGED frames
       \/ /\ frames[t.socket] # <<>> /\ Head(frames[t.socket]) = Malformed
          /\ frames' = [frames EXCEPT ![t.socket] = Tail(@)]
    /\ WorkerDone(w, <<>>)
    /\ UNCHANGED <<workerQueue, closed, client, inbox, budget>>

WorkerExecutes(w) ==
    \/ SendDelivers(w) \/ SendFails(w)
    \/ ReceiveIgnored(w) \/ ReceiveEnd(w) \/ ReceiveRequest(w)
    \/ ReceiveViolation(w) \/ ReceiveFails(w)
    \/ ShutdownCloses(w) \/ ShutdownThrows(w)

Worker(w) == WorkerTakes(w) \/ WorkerExecutes(w)

-----------------------------------------------------------------------------
(* The destructor. *)

DtorStops ==
    /\ MayStop
    /\ dtorPc = "alive"
    /\ stopped' = TRUE
    /\ dtorPc' = "wakeMain"
    /\ UNCHANGED <<maps, socketList, mainQueue, workerQueue, mainState, workers,
                   closed, clients>>

\* The main thread is in waitDequeueNotification() on an empty queue; it may
\* or may not have entered the wait list yet.
MainMayWait == mainPc = "drain" /\ mainQueue = <<>> /\ \A s \in Sockets : socketList[s] = 0

\* _mainQueue.wakeUpAll(), once what was handed to the main thread is taken.
\* If the main thread is in the wait list it returns null and tests _stopped.
DtorWakesMain ==
    /\ dtorPc = "wakeMain"
    /\ dtorPc' = "wakeWorkers"
    /\ \/ /\ MainMayWait
          /\ mainPc' = "done"
       \/ UNCHANGED mainPc
    /\ UNCHANGED <<maps, socketList, mainQueue, workerQueue, ready, broken, workers,
                   stopped, closed, clients>>

\* _workerQueue.wakeUpAll(): any of the workers that found the queue empty
\* may be in the wait list, but for those that were handed a task.
DtorWakesWorkers ==
    /\ dtorPc = "wakeWorkers"
    /\ dtorPc' = "join"
    /\ LET idle == {w \in Workers : workerPc[w] = "dequeue"} IN \E W \in SUBSET idle :
          /\ W = {} \/ Cardinality(W) + Len(workerQueue) <= Cardinality(idle)
          /\ workerPc' = [w \in Workers |-> IF w \in W THEN "done" ELSE workerPc[w]]
    /\ UNCHANGED <<maps, socketList, mainQueue, workerQueue, mainState, task,
                   stopped, closed, clients>>

DtorJoins ==
    /\ dtorPc = "join"
    /\ mainPc = "done" /\ \A w \in Workers : workerPc[w] = "done"
    /\ dtorPc' = "destroyed"
    /\ UNCHANGED <<maps, socketList, mainQueue, workerQueue, mainState, workers,
                   stopped, closed, clients>>

Destructor == DtorWakesMain \/ DtorWakesWorkers \/ DtorJoins

Next ==
    \/ \E s \in Sockets : Preflight(s) \/ Connect(s) \/ ClientGoes(s)
    \/ \E s \in Sockets, f \in ClientFrames : ClientSends(s, f)
    \/ \E x \in Subjects : NotifyCall(x)
    \/ Main
    \/ \E w \in Workers : Worker(w)
    \/ DtorStops
    \/ Destructor

Spec == Init /\ [][Next]_vars

\* Every thread of the service is scheduled, and the destructor once begun.
\* Clients, HTTP threads and callers owe nothing.
Fairness ==
    /\ WF_vars(Main)
    /\ \A w \in Workers : WF_vars(WorkerTakes(w)) /\ WF_vars(WorkerExecutes(w))
    /\ WF_vars(Destructor)

FairSpec == Spec /\ Fairness

-----------------------------------------------------------------------------
\* Types of the variables of the service and of its clients.
TypeOK ==
    /\ socketMap \in SUBSET Sockets
    /\ subjectNames \in [Sockets -> SUBSET Subjects]
    /\ subjectMap \in SUBSET (Subjects \X Sockets)
    /\ socketList \in [Sockets -> Nat]
    /\ mainQueue \in Seq(MainTasks)
    /\ workerQueue \in Seq(WorkerTasks)
    /\ mainPc \in {"select", "process", "drain", "done"}
    /\ ready \in SUBSET Sockets /\ broken \in SUBSET Sockets
    /\ workerPc \in [Workers -> {"dequeue", "execute", "done"}]
    /\ task \in [Workers -> WorkerTasks \cup {NoTask}]
    /\ \A w \in Workers : workerPc[w] = "execute" <=> task[w] # NoTask
    /\ stopped \in BOOLEAN
    /\ dtorPc \in {"alive", "wakeMain", "wakeWorkers", "join", "destroyed"}
    /\ closed \in [Sockets -> BOOLEAN]
    /\ client \in [Sockets -> {"none", "accepted", "up", "closing", "gone"}]
    /\ frames \in [Sockets -> Seq(ClientFrames)]

\* The two maps agree: a subject leads to a socket exactly when that socket is
\* a subscriber's and the subscriber has the subject among its names.  A pair
\* left behind by a removal would be sent to for ever.
MapsAgree ==
    \A x \in Subjects, s \in Sockets :
        <<x, s>> \in subjectMap <=> s \in socketMap /\ x \in subjectNames[s]

\* The tasks of one kind about a socket, queued or being executed.
Queued(queue, kind, s) ==
    {i \in DOMAIN queue : queue[i].kind = kind /\ queue[i].socket = s}
Taken(kind, s) == {w \in Workers : Executing(w, kind) /\ task[w].socket = s}

\* How many parties are entitled to read the next frame from a socket for
\* receiveImpl(): the select of the main thread, a worker, or the select it is
\* about to return to.
Readers(s) ==
    socketList[s] + Cardinality(Queued(mainQueue, "watch", s))
    + Cardinality(Queued(workerQueue, "receive", s)) + Cardinality(Taken("receive", s))

\* How many workers read a frame from it in shutdownImpl(), or will.
ClosingReaders(s) ==
    Cardinality({i \in Queued(workerQueue, "shutdown", s) : ~workerQueue[i].passive})
    + Cardinality({w \in Taken("shutdown", s) : ~task[w].passive})

\* The frames of a subscriber are read by one thread at a time, and its socket
\* is not watched meanwhile.  Once it is removed, shutdownImpl() may read beside
\* a receive that was pending: these are the only two that can meet.
OneReader ==
    \A s \in Sockets :
        /\ Readers(s) <= 1 /\ ClosingReaders(s) <= 1
        /\ s \in socketMap => ClosingReaders(s) = 0

\* No subscriber is deaf: somebody will read the next frame of every
\* subscriber, or it is about to be removed.
NoDeafSubscriber ==
    \A s \in socketMap : Readers(s) = 1 \/ Queued(mainQueue, "remove", s) # {}

\* A removed subscriber is shut down once, however many times its removal was
\* asked for (by the client, by failed sends, by select), and a subscriber's
\* socket is neither closed nor about to be.
ShutdownOnce ==
    \A s \in Sockets :
        LET pending == Cardinality(Queued(workerQueue, "shutdown", s))
                       + Cardinality(Taken("shutdown", s)) IN
        /\ pending <= 1
        /\ s \in socketMap \/ closed[s] => pending = 0
        /\ s \in socketMap => ~closed[s]

\* A subscriber whose connection has ended is removed.
GoneIsRemoved ==
    \A s \in Sockets :
        (client[s] = "gone" /\ s \in socketMap) ~> (s \notin socketMap \/ stopped)

\* When the main thread comes to a notification, every subscriber to its
\* subject or to a parent of it receives it, unless it is removed (as one to
\* which sending fails is).
SubscribersAreNotified ==
    \A s \in Sockets, x, y \in Subjects :
        (/\ mainQueue # <<>> /\ Head(mainQueue) = Notify(y)
         /\ IsPrefix(x, y) /\ s \in socketMap /\ x \in subjectNames[s])
            ~> (<<y, x>> \in inbox[s] \/ s \notin socketMap \/ stopped)

-----------------------------------------------------------------------------
(* What the repository says of this code and the code does not do. *)

\* The destructor terminates.  NotificationQueue.h recommends its sequence:
\* set a termination flag, call wakeUpAll(), join each worker thread.
DestructorReturns == (dtorPc = "wakeMain") ~> (dtorPc = "destroyed")
=============================================================================
