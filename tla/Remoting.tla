------------------------------- MODULE Remoting -------------------------------
(***************************************************************************)
(* Poco::RemotingNG::TCP (osp/RemotingNG/TCP/src): threads that send        *)
(* requests to one server through the ConnectionManager of their process,  *)
(* the Connection objects at both ends of each TCP connection with their   *)
(* threads, and the threads of the server that answer.                     *)
(*                                                                         *)
(* A connection's own thread writes _state without the mutex, close() and  *)
(* sendFrame() take it: every read, test or write of _state that another   *)
(* thread's step can come between is a step of its own, and while close()  *)
(* is between its test and its write, all who need the mutex wait.  A       *)
(* frame is sent into the peer's receive buffer in one step.               *)
(***************************************************************************)
EXTENDS Naturals, FiniteSets, Sequences

CONSTANTS
    Users,           \* threads that call a remote object, each with its Transport
    MaxConnections,  \* bound: TCP connections made
    MaxRequests,     \* bound: requests begun
    Unreliable       \* bound: connections that may break, stall or bring a bad frame

ASSUME RemotingAssumption ==
    MaxConnections \in Nat /\ MaxRequests \in Nat /\ Unreliable \subseteq 1..MaxConnections

Connections == 1..MaxConnections
NoConnection == 0
NoRequest == 0
Ends == {"client", "server"} \X Connections

Client(c) == <<"client", c>>
Server(c) == <<"server", c>>
Peer(e) == IF e[1] = "client" THEN Server(e[2]) ELSE Client(e[2])

\* A request of one frame, and its reply, which carries what it is the reply to;
\* the reply to a request the server has refused is empty.
HELO == [type |-> "HELO", channel |-> 0, request |-> NoRequest]
BYE == [type |-> "BYE", channel |-> 0, request |-> NoRequest]
REQU(ch, r) == [type |-> "REQU", channel |-> ch, request |-> r]
REPL(ch, r) == [type |-> "REPL", channel |-> ch, request |-> r]
Frames == [type : {"HELO", "BYE", "REQU", "REPL"}, channel : Nat, request : 0..MaxRequests]

VARIABLES
    (* Connection, one at each end *)
    state,        \* _state
    thread,       \* where the thread in runImpl() is
    input,        \* what has arrived at the socket and was not received yet
    nextChannel,  \* _nextChannel, at the client
    (* ConnectionManager *)
    connection,   \* _connections at the client, for the server's address
    pending,      \* the address is in _pendingConnections
    closing,      \* connections whose close() has found them established
    (* The users and their Transports *)
    user,         \* where each is in a remote call
    conn,         \* its Connection::Ptr
    channel,      \* _channel
    request,      \* the call it is in
    reply,        \* the request whose reply is in its FrameQueue
    leftover,     \* the _pRequestStreams with an unsent frame that an exception has left
    (* The server's requests *)
    serving,      \* what the ServerTransports execute
    (* Bounds and history *)
    created, requests, broken, stalled, timedOut, refused

ends == <<state, thread, input>>
manager == <<connection, pending, closing>>
users == <<user, conn, channel, request, reply, nextChannel, leftover>>
history == <<created, requests, broken, stalled, timedOut, refused>>
vars == <<ends, manager, users, serving, history>>

Init ==
    /\ state = [e \in Ends |-> "PRE_HANDSHAKE"]
    /\ thread = [e \in Ends |-> "new"]
    /\ input = [e \in Ends |-> <<>>]
    /\ nextChannel = [c \in Connections |-> 1]
    /\ connection = NoConnection /\ pending = FALSE /\ closing = {}
    /\ user = [u \in Users |-> "idle"]
    /\ conn = [u \in Users |-> NoConnection]
    /\ channel = [u \in Users |-> 0]
    /\ request = [u \in Users |-> NoRequest]
    /\ reply = [u \in Users |-> NoRequest]
    /\ leftover = {} /\ serving = {}
    /\ created = 0 /\ requests = 0 /\ broken = {} /\ stalled = {} /\ timedOut = {} /\ refused = {}

-----------------------------------------------------------------------------
(* The socket *)

\* Somebody else than its own thread has the Connection at this end.
Referenced(e) ==
    IF e[1] = "client"
      THEN connection = e[2] \/ (\E u \in Users : conn[u] = e[2]) \/ \E s \in leftover : s.conn = e[2]
      ELSE \E s \in serving : s.conn = e[2]

\* runImpl() closes the socket at its end, and the last reference does after an
\* exception.
Closed(e) == thread[e] = "done" \/ (thread[e] = "failed" /\ ~Referenced(e))

\* What is sent does not arrive.
Lost(e) == e[2] \in broken \/ Closed(Peer(e))

\* send() may throw: nothing of the frame is sent.
SendThrows(e) == Lost(e) \/ e[2] \in stalled

\* input after e has sent f, where before is the input without that.
Sent(before, e, f) ==
    IF Lost(e) THEN before ELSE [before EXCEPT ![Peer(e)] = Append(@, f)]

\* The network fails.
Break(c) ==
    /\ c \in Unreliable \ broken /\ c <= created
    /\ broken' = broken \cup {c}
    /\ input' = [input EXCEPT ![Client(c)] = <<>>, ![Server(c)] = <<>>]
    /\ UNCHANGED <<state, thread, manager, users, serving, created, requests, stalled, timedOut, refused>>

\* The buffers of the two sockets are full from time to time, for longer than
\* the time-out for sending.
Stall(c) ==
    /\ c \in Unreliable \ stalled /\ c <= created
    /\ stalled' = stalled \cup {c}
    /\ UNCHANGED <<ends, manager, users, serving, created, requests, broken, timedOut, refused>>

-----------------------------------------------------------------------------
(* Connection::runImpl() at the end e *)

\* close() of another thread has the mutex.
Locked(e) == e[1] = "client" /\ e[2] \in closing

ThreadGoes(e, from, to) == thread[e] = from /\ thread' = [thread EXCEPT ![e] = to]

\* The handshake begins: the client sends its HELO.
Start(e) ==
    /\ e[2] <= created
    /\ state' = [state EXCEPT ![e] = "HANDSHAKE"]
    /\ \/ ThreadGoes(e, "new", "HELO")
          /\ input' = IF e[1] = "client" THEN Sent(input, e, HELO) ELSE input
       \/ e[1] = "client" /\ SendThrows(e) /\ ThreadGoes(e, "new", "failed") /\ UNCHANGED input
    /\ UNCHANGED <<manager, users, serving, history>>

\* receiveHELO(), and the server's sendHELO(); then the connection is established
\* and _ready is set.
Establish(e) ==
    /\ input[e] # <<>> /\ Head(input[e]).type = "HELO"
    /\ LET received == [input EXCEPT ![e] = Tail(@)]
       IN  input' = IF e[1] = "client" THEN received ELSE Sent(received, e, HELO)
    /\ ThreadGoes(e, "HELO", "polling")
    /\ state' = [state EXCEPT ![e] = "ESTABLISHED"]
    /\ UNCHANGED <<manager, users, serving, history>>

\* The peer's HELO does not come in time, or a call of the socket throws: the
\* exception leaves runImpl() with _state as it is.
HandshakeFails(e) ==
    /\ ThreadGoes(e, "HELO", "failed")
    /\ UNCHANGED <<state, input, manager, users, serving, history>>

\* The end of the loop's body: its condition is tested again, and the thread is
\* in the poll of receiveFrame() or behind the loop.
NextRound(e) ==
    ThreadGoes(e, "polling", IF state'[e] = "ESTABLISHED" THEN "polling" ELSE "leaving")

Serve(c, f) ==
    serving' = IF f.type = "REQU"
                 THEN serving \cup {[conn |-> c, channel |-> f.channel, request |-> f.request]}
                 ELSE serving

\* The users whose FrameQueue on connection c takes the frame.
Takers(c, f) == {u \in Users : /\ f.type = "REPL" /\ user[u] = "replying"
                               /\ conn[u] = c /\ channel[u] = f.channel}

Give(f, takers) ==
    reply' = [u \in Users |-> IF u \in takers /\ reply[u] = NoRequest THEN f.request ELSE reply[u]]

\* Variant: only the handler pushed last is asked.
HandleFrame_LastOnly(c, f) ==
    /\ Serve(c, f)
    /\ Give(f, {u \in Takers(c, f) : \A v \in Users : conn[v] = c => channel[v] <= channel[u]})

\* What processFrame() does with a frame: the server's RequestFrameHandler
\* starts a ServerTransport (see Refuse), the client's FrameQueue for the channel
\* takes the reply; nobody takes a reply that comes too late.
HandleFrame(c, f) == Serve(c, f) /\ Give(f, Takers(c, f))

\* receiveFrame() returns a frame and processFrame() handles it.  A BYE counts
\* only if close() was not called since the condition was tested.
ReceiveFrame(e) ==
    /\ input[e] # <<>> /\ ~Locked(e)
    /\ input' = [input EXCEPT ![e] = Tail(@)]
    /\ state' = IF Head(input[e]) = BYE /\ state[e] = "ESTABLISHED"
                  THEN [state EXCEPT ![e] = "CLOSING_PASSIVE"] ELSE state
    /\ NextRound(e)
    /\ HandleFrame(e[2], Head(input[e]))
    /\ UNCHANGED <<manager, user, conn, channel, request, nextChannel, leftover, history>>

\* The same when the server has no thread left: start() throws, the request is
\* not executed, and the destructor of the reply stream, whose frame was never
\* sent, sends it empty, or fails to.
Refuse(c) ==
    LET e == Server(c)
        f == Head(input[e])
        received == [input EXCEPT ![e] = Tail(@)]
    IN  /\ input[e] # <<>> /\ f.type = "REQU"
        /\ \/ state[e] = "ESTABLISHED" /\ input' = Sent(received, e, REPL(f.channel, f.request))
           \/ SendThrows(e) /\ input' = received
        /\ refused' = refused \cup {f.request}
        /\ UNCHANGED state /\ NextRound(e)
        /\ UNCHANGED <<manager, users, serving, created, requests, broken, stalled, timedOut>>

\* receiveFrame() throws, because the connection is gone: _state is overwritten,
\* whatever it is, also that of a close() of another thread.
ReceiveThrows(e) ==
    /\ input[e] = <<>> /\ Lost(e)
    /\ state' = [state EXCEPT ![e] = "ABORTED"]
    /\ NextRound(e)
    /\ UNCHANGED <<input, manager, users, serving, history>>

\* The same because the frame is bad, or there is no memory for it.
FrameFails(e) ==
    /\ e[2] \in Unreliable /\ input[e] # <<>>
    /\ input' = [input EXCEPT ![e] = Tail(@)]
    /\ state' = [state EXCEPT ![e] = "ABORTED"]
    /\ NextRound(e)
    /\ UNCHANGED <<manager, users, serving, history>>

\* Nothing had come when the poll ended and the idle time-out has passed: the same.
IdleTimesOut(e) ==
    /\ state' = [state EXCEPT ![e] = "CLOSING_ACTIVE"]
    /\ NextRound(e)
    /\ UNCHANGED <<input, manager, users, serving, history>>

\* The poll times out, and close() was called in the meantime; otherwise it is
\* repeated.
PollTimesOut(e) ==
    /\ state[e] # "ESTABLISHED"
    /\ UNCHANGED state
    /\ NextRound(e)
    /\ UNCHANGED <<input, manager, users, serving, history>>

\* The loop is left and sendBYE() called, which may throw out of runImpl().
SendBYE(e) ==
    /\ state[e] \in {"CLOSING_ACTIVE", "CLOSING_PASSIVE"} /\ ~Locked(e)
    /\ \/ ThreadGoes(e, "leaving", "BYE") /\ input' = Sent(input, e, BYE)
       \/ SendThrows(e) /\ ThreadGoes(e, "leaving", "failed") /\ UNCHANGED input
    /\ UNCHANGED <<state, manager, users, serving, history>>

\* An aborted connection sends none, whatever close() makes of _state next.
SkipBYE(e) ==
    /\ state[e] = "ABORTED" /\ ThreadGoes(e, "leaving", "BYE")
    /\ UNCHANGED <<state, input, manager, users, serving, history>>

SocketCloses(e) ==
    /\ ThreadGoes(e, "BYE", "done")
    /\ input' = [input EXCEPT ![e] = <<>>]
    /\ UNCHANGED <<manager, users, serving, history>>

\* Variant: the end that closes waits for the BYE of its peer, however long.
FinishClose_Waits(e) ==
    /\ state[e] \in {"CLOSING_ACTIVE", "CLOSING_PASSIVE"}
    /\ state[e] = "CLOSING_ACTIVE" => BYE \in {input[e][i] : i \in DOMAIN input[e]}
    /\ SocketCloses(e)
    /\ state' = [state EXCEPT ![e] = "CLOSED"]

\* receiveBYE() takes one frame, whatever it is, throws or times out; a passive
\* close polls once.
FinishClose(e) ==
    /\ state[e] \in {"CLOSING_ACTIVE", "CLOSING_PASSIVE"}
    /\ SocketCloses(e)
    /\ state' = [state EXCEPT ![e] = "CLOSED"]

\* Nothing is waited for on an aborted connection.
FinishAbort(e) ==
    /\ state[e] = "ABORTED"
    /\ SocketCloses(e)
    /\ UNCHANGED state

\* The server's half of a request: the service object's answer is sent, or
\* sendFrame() throws.
Answer(s) ==
    LET e == Server(s.conn)
    IN  /\ serving' = serving \ {s}
        /\ \/ state[e] = "ESTABLISHED" /\ input' = Sent(input, e, REPL(s.channel, s.request))
           \/ (state[e] # "ESTABLISHED" \/ SendThrows(e)) /\ UNCHANGED input
        /\ UNCHANGED <<state, thread, manager, users, history>>

-----------------------------------------------------------------------------
(* ConnectionManager at the client, and the Transports *)

\* close() takes the connection's mutex and tests _state.
CloseTests(c) ==
    /\ state[Client(c)] = "ESTABLISHED"
    /\ closing' = closing \cup {c}

\* It sets _state, whatever the connection's thread has made of it since.
CloseSets(c) ==
    /\ c \in closing
    /\ closing' = closing \ {c}
    /\ state' = [state EXCEPT ![Client(c)] = "CLOSING_ACTIVE"]

Usable == connection # NoConnection /\ state[Client(connection)] = "ESTABLISHED"

\* The manager's mutex is not that of shutdown(), and nobody creates a connection.
Free == ~pending /\ connection \notin closing

\* Variant: releaseChannel() makes the channel available at once.
AllocChannel_Lowest(u, c) ==
    LET taken == {channel[v] : v \in {w \in Users : conn[w] = c}}
        free == CHOOSE ch \in 1..(Cardinality(Users) + 1) :
                    ch \notin taken /\ \A d \in 1..(ch - 1) : d \in taken
    IN  /\ channel' = [channel EXCEPT ![u] = free]
        /\ UNCHANGED nextChannel

\* allocChannel() of connection c; 2^32 channels are as good as infinitely many.
AllocChannel(u, c) ==
    /\ channel' = [channel EXCEPT ![u] = nextChannel[c]]
    /\ nextChannel' = [nextChannel EXCEPT ![c] = @ + 1]

\* beginRequest() has got connection c.
Begin(u, c) ==
    /\ user' = [user EXCEPT ![u] = "connected"]
    /\ conn' = [conn EXCEPT ![u] = c]
    /\ AllocChannel(u, c)

\* A call begins, in beginRequest() at getConnection().
Call(u) ==
    /\ user[u] = "idle" /\ requests < MaxRequests
    /\ requests' = requests + 1
    /\ request' = [request EXCEPT ![u] = requests']

\* There is an established connection.
GetConnection(u) ==
    /\ Call(u)
    /\ Free /\ Usable
    /\ Begin(u, connection)
    /\ UNCHANGED <<ends, manager, reply, leftover, serving, created, broken, stalled, timedOut, refused>>

\* createConnection() connects a socket, and the server accepts it.
NewConnection(u) ==
    /\ created < MaxConnections
    /\ created' = created + 1
    /\ connection' = NoConnection
    /\ pending' = TRUE
    /\ Call(u)
    /\ user' = [user EXCEPT ![u] = "waiting"]
    /\ conn' = [conn EXCEPT ![u] = created']
    /\ UNCHANGED <<ends, closing, channel, reply, nextChannel, leftover, serving>>
    /\ UNCHANGED <<broken, stalled, timedOut, refused>>

\* Variant: _pendingConnections is not looked at.
CreateConnection_Twice(u) == connection \notin closing /\ ~Usable /\ NewConnection(u)

\* There is none, and nobody is creating one.
CreateConnection(u) == Free /\ ~Usable /\ NewConnection(u)

\* The same when createConnection() throws.
CreateConnectionThrows(u) ==
    /\ user[u] = "idle"
    /\ Free /\ connection # NoConnection /\ ~Usable
    /\ connection' = NoConnection
    /\ UNCHANGED <<ends, pending, closing, users, serving, history>>

\* Variant: the Transport keeps its connection.
Ended_Keeps(u) ==
    /\ user' = [user EXCEPT ![u] = "idle"]
    /\ channel' = [channel EXCEPT ![u] = 0]
    /\ request' = [request EXCEPT ![u] = NoRequest]
    /\ reply' = [reply EXCEPT ![u] = NoRequest]
    /\ UNCHANGED <<conn, nextChannel>>

\* A Transport is done with its connection.
Ended(u) ==
    /\ user' = [user EXCEPT ![u] = "idle"]
    /\ conn' = [conn EXCEPT ![u] = NoConnection]
    /\ channel' = [channel EXCEPT ![u] = 0]
    /\ request' = [request EXCEPT ![u] = NoRequest]
    /\ reply' = [reply EXCEPT ![u] = NoRequest]
    /\ UNCHANGED nextChannel

Ready(c) == state[Client(c)] \notin {"PRE_HANDSHAKE", "HANDSHAKE"}

\* waitReady() returns true, and getConnection() stores the connection.
Connected(u) ==
    /\ user[u] = "waiting" /\ Ready(conn[u])
    /\ pending' = FALSE
    /\ connection' = conn[u]
    /\ Begin(u, conn[u])
    /\ UNCHANGED <<ends, closing, request, reply, leftover, serving, history>>

\* waitReady() times out, and close() finds the connection not established.  The
\* thread has begun to run in the four seconds this takes; otherwise it would
\* find the Connection destroyed.
ConnectTimesOut(u) ==
    /\ user[u] = "waiting"
    /\ thread[Client(conn[u])] # "new" /\ state[Client(conn[u])] # "ESTABLISHED"
    /\ timedOut' = IF Ready(conn[u]) THEN timedOut ELSE timedOut \cup {conn[u]}
    /\ pending' = FALSE
    /\ Ended(u)
    /\ UNCHANGED <<ends, connection, closing, leftover, serving, created, requests, broken, stalled, refused>>

\* close() finds it established by now, ...
ConnectClosing(u) ==
    /\ user[u] = "waiting" /\ CloseTests(conn[u])
    /\ user' = [user EXCEPT ![u] = "closing"]
    /\ UNCHANGED <<ends, connection, pending, conn, channel, request, reply, nextChannel, leftover, serving, history>>

\* ... and closes it.
ConnectClosed(u) ==
    /\ user[u] = "closing" /\ CloseSets(conn[u])
    /\ pending' = FALSE
    /\ Ended(u)
    /\ UNCHANGED <<thread, input, connection, leftover, serving, history>>

SendFrame(u) ==
    /\ input' = Sent(input, Client(conn[u]), REQU(channel[u], request[u]))
    /\ user' = [user EXCEPT ![u] = "replying"]
    /\ UNCHANGED <<conn, channel, request, reply, nextChannel>>

\* The Transport u has no stream of an earlier call any more.
Clean(u) == \A s \in leftover : s.user # u

\* Variant: the frame is sent whatever the state of the connection.
SendRequest_Unchecked(u) ==
    /\ user[u] = "connected"
    /\ SendFrame(u)
    /\ UNCHANGED <<state, thread, manager, leftover, serving, history>>

\* An exception leaves the Transport with its request stream and all it holds on
\* to; everything else is replaced by the next call and makes no difference.
Leave(u) ==
    /\ leftover' = leftover \cup
          {[user |-> u, conn |-> conn[u], channel |-> channel[u], request |-> request[u]]}
    /\ Ended(u)
    /\ UNCHANGED input

\* sendRequest(): the handler for the reply is there before the frame is sent;
\* sendFrame() throws if the connection is not established, or the socket does.
SendRequest(u) ==
    LET e == Client(conn[u])
    IN  /\ user[u] = "connected" /\ Clean(u) /\ ~Locked(e)
        /\ \/ state[e] = "ESTABLISHED" /\ SendFrame(u) /\ UNCHANGED leftover
           \/ (state[e] # "ESTABLISHED" \/ SendThrows(e)) /\ Leave(u)
        /\ UNCHANGED <<state, thread, manager, serving, history>>

\* The call is given up before, by an exception in the serialization.
Abandon(u) ==
    /\ user[u] = "connected" /\ Clean(u)
    /\ Leave(u)
    /\ UNCHANGED <<state, thread, manager, serving, history>>

\* The stream a Transport was left with is destroyed, when beginRequest() of the
\* next call replaces it or with the Transport: its destructor sends the frame
\* now, on its old connection, or swallows the exception.
Discard(s) ==
    LET e == Client(s.conn)
    IN  /\ user[s.user] \in {"idle", "connected"} /\ ~Locked(e)
        /\ leftover' = leftover \ {s}
        /\ \/ state[e] = "ESTABLISHED" /\ input' = Sent(input, e, REQU(s.channel, s.request))
           \/ (state[e] # "ESTABLISHED" \/ SendThrows(e)) /\ UNCHANGED input
        /\ UNCHANGED <<state, thread, manager, serving, history>>
        /\ UNCHANGED <<user, conn, channel, request, reply, nextChannel>>

\* endRequest(), with the reply or after dequeueFrame() has timed out.
EndRequest(u) ==
    /\ user[u] = "replying"
    /\ Ended(u)
    /\ UNCHANGED <<ends, manager, leftover, serving, history>>

\* ConnectionManager::shutdown() at the client, with the manager's mutex: close()
\* finds the connection not established, ...
Shutdown ==
    /\ Free /\ connection # NoConnection /\ ~Usable
    /\ connection' = NoConnection
    /\ UNCHANGED <<ends, pending, closing, users, serving, history>>

\* ... or established, ...
ShutdownClosing ==
    /\ Free /\ connection # NoConnection /\ CloseTests(connection)
    /\ UNCHANGED <<ends, connection, pending, users, serving, history>>

\* ... and closes it.
ShutdownClosed ==
    /\ CloseSets(connection)
    /\ connection' = NoConnection
    /\ UNCHANGED <<thread, input, pending, users, serving, history>>

\* What a thread of the program does when it is scheduled, or after a time-out.
Thread(e) ==
    \/ Start(e) \/ Establish(e) \/ HandshakeFails(e)
    \/ ReceiveFrame(e) \/ ReceiveThrows(e) \/ PollTimesOut(e) \/ SendBYE(e) \/ SkipBYE(e)
    \/ FinishClose(e) \/ FinishAbort(e)

Getting(u) == Connected(u) \/ ConnectTimesOut(u) \/ ConnectClosing(u) \/ ConnectClosed(u)

\* The steps of the threads of the connections, and those that are not assumed
\* to happen.
EndStep(e) == Thread(e) \/ IdleTimesOut(e) \/ FrameFails(e)

UserStep(u) ==
    \/ GetConnection(u) \/ CreateConnection(u) \/ CreateConnectionThrows(u)
    \/ Getting(u) \/ SendRequest(u) \/ Abandon(u) \/ EndRequest(u)

ShutdownStep == Shutdown \/ ShutdownClosing \/ ShutdownClosed

Next ==
    \/ \E e \in Ends : EndStep(e)
    \/ \E c \in Connections : Break(c) \/ Stall(c) \/ Refuse(c)
    \/ \E s \in serving : Answer(s)
    \/ \E s \in leftover : Discard(s)
    \/ \E u \in Users : UserStep(u)
    \/ ShutdownStep

Spec == Init /\ [][Next]_vars

\* The threads of the connections are scheduled, waitReady() ends and close() goes
\* on.  That one of them moves as long as one can is enough here, because their
\* numbers are bounded.  No time-out for idle connections, no exception on a sound
\* one, no answer of a service and no request is assumed.
Fairness ==
    WF_vars((\E e \in Ends : Thread(e)) \/ (\E u \in Users : Getting(u)) \/ ShutdownClosed)

FairSpec == Spec /\ Fairness

-----------------------------------------------------------------------------
\* Types of the variables of the connections, the manager and the users; only
\* what has been created takes part, the manager keeps no connection whose
\* handshake has not ended, and a user has one just while it is in a call.
TypeOK ==
    /\ state \in [Ends -> {"PRE_HANDSHAKE", "HANDSHAKE", "ESTABLISHED", "CLOSING_ACTIVE",
                           "CLOSING_PASSIVE", "ABORTED", "CLOSED"}]
    /\ thread \in [Ends -> {"new", "HELO", "polling", "leaving", "BYE", "done", "failed"}]
    /\ input \in [Ends -> Seq(Frames)]
    /\ nextChannel \in [Connections -> Nat \ {0}] /\ channel \in [Users -> Nat]
    /\ request \in [Users -> 0..requests] /\ reply \in [Users -> 0..MaxRequests]
    /\ connection \in 0..created /\ (connection # NoConnection => Ready(connection))
    /\ pending \in BOOLEAN /\ closing \subseteq 1..created
    /\ user \in [Users -> {"idle", "waiting", "closing", "connected", "replying"}]
    /\ conn \in [Users -> 0..created] /\ \A u \in Users : conn[u] = NoConnection <=> user[u] = "idle"
    /\ serving \subseteq [conn : 1..created, channel : Nat, request : 0..MaxRequests]
    /\ leftover \subseteq [user : Users, conn : 1..created, channel : Nat, request : 0..MaxRequests]
    /\ created \in 0..MaxConnections /\ requests \in 0..MaxRequests

\* A BYE is the last frame of its sender, and an end that has taken one has
\* handled all the peer ever sent: sendFrame() cannot come after the BYE of the
\* connection's thread, though that thread writes _state without the mutex.
NothingAfterBye ==
    \A e \in Ends :
        /\ \A i \in DOMAIN input[e] : input[e][i] = BYE => i = Len(input[e])
        /\ state[e] = "CLOSING_PASSIVE" => input[e] = <<>>

\* The user is in createConnection().
Creates(u) == user[u] \in {"waiting", "closing"}

\* A connection to the server that is established is the manager's, or on the
\* way to it; only when waitReady() has timed out can one be left to itself.
NoStray ==
    \A c \in Connections :
        state[Client(c)] = "ESTABLISHED" =>
            \/ connection = c \/ c \in timedOut
            \/ \E u \in Users : Creates(u) /\ conn[u] = c

\* The reply a request gets is its own, not a late one to a request of the same
\* Connection that has timed out before.
ReplyMatches == \A u \in Users : reply[u] # NoRequest => reply[u] = request[u]

\* While a connection is up at both ends and sending does not time out, every
\* request on it that somebody waits for is in one place: on its way, served, on
\* its way back, be it with an empty reply, or answered.
NoLostRequest ==
    \A u \in Users :
        LET c == conn[u]
            arriving(e, type) == {i \in DOMAIN input[e] :
                                    input[e][i].type = type /\ input[e][i].request = request[u]}
        IN  /\ user[u] = "replying" /\ c \notin broken \cup stalled
            /\ state[Client(c)] = "ESTABLISHED" /\ state[Server(c)] = "ESTABLISHED"
            => Cardinality(arriving(Server(c), "REQU")) + Cardinality(arriving(Client(c), "REPL"))
                 + Cardinality({s \in serving : s.request = request[u]})
                 + (IF reply[u] = NoRequest THEN 0 ELSE 1) = 1

\* An end that closes, aborts or fails takes the other end with it: the threads
\* at both ends leave runImpl(), unless the BYE of the one could not be sent on a
\* connection that is there still.
Leaving(e) == thread[e] = "failed" \/ state[e] \in {"CLOSING_ACTIVE", "CLOSING_PASSIVE", "ABORTED", "CLOSED"}
BothEndsEnd ==
    <>[](\A e \in Ends :
            Leaving(e) /\ e[2] \notin stalled => {thread[e], thread[Peer(e)]} \subseteq {"done", "failed"})
=============================================================================
