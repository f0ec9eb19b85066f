---------------------------- MODULE RemotingProofs ----------------------------
(***************************************************************************)
(* Proofs about Remoting, for any users, bounds and failing connections.   *)
(***************************************************************************)
EXTENDS RemotingCalls, SequenceTheorems, FiniteSetTheorems, TLAPS

\* The frames of a buffer.
Elements(q) == {q[i] : i \in DOMAIN q}

\* No frame of a buffer comes after a BYE.
ByeLast(q) == \A i \in DOMAIN q : q[i] = BYE => i = Len(q)

\* What appending a frame does to a buffer.
LEMMA AppendFacts ==
    ASSUME NEW S, NEW q \in Seq(S), NEW f \in S
    PROVE  /\ Append(q, f) \in Seq(S)
           /\ Elements(Append(q, f)) = Elements(q) \cup {f}
           /\ BYE \notin Elements(q) => ByeLast(Append(q, f))
  <1> DEFINE r == Append(q, f)
  <1>1. /\ r \in Seq(S) /\ Len(q) \in Nat /\ Len(r) = Len(q) + 1
        /\ \A i \in 1..Len(q) : r[i] = q[i]
        /\ r[Len(q) + 1] = f
    OBVIOUS
  <1>2. DOMAIN q = 1..Len(q) /\ DOMAIN r = 1..(Len(q) + 1)
    BY <1>1, LenProperties
  <1> HIDE DEF r
  <1>3. 1..(Len(q) + 1) = 1..Len(q) \cup {Len(q) + 1}
    BY <1>1
  <1>4. Elements(r) = Elements(q) \cup {f}
    BY <1>1, <1>2, <1>3 DEF Elements
  <1>5. BYE \notin Elements(q) => ByeLast(r)
    BY <1>1, <1>2, <1>3 DEF Elements, ByeLast
  <1>6. QED
    BY <1>1, <1>4, <1>5 DEF r

\* What taking the first frame does.
LEMMA TailFacts ==
    ASSUME NEW S, NEW q \in Seq(S), q # <<>>
    PROVE  /\ Tail(q) \in Seq(S) /\ Head(q) \in S /\ Head(q) \in Elements(q)
           /\ Elements(Tail(q)) \subseteq Elements(q)
           /\ ByeLast(q) => ByeLast(Tail(q))
           /\ ByeLast(q) /\ Head(q) = BYE => Tail(q) = <<>>
  <1> DEFINE r == Tail(q)
  <1>1. /\ r \in Seq(S) /\ Len(q) \in Nat \ {0} /\ Len(r) = Len(q) - 1
        /\ \A i \in 1..(Len(q) - 1) : r[i] = q[i + 1]
        /\ Head(q) = q[1] /\ Head(q) \in S
    OBVIOUS
  <1>2. DOMAIN q = 1..Len(q) /\ DOMAIN r = 1..(Len(q) - 1)
    BY <1>1, LenProperties
  <1> HIDE DEF r
  <1>3. Len(r) = 0 => r = <<>>
    BY <1>1, EmptySeq
  <1>4. \A i \in 1..(Len(q) - 1) : i + 1 \in 1..Len(q)
    BY <1>1
  <1>5. Elements(r) \subseteq Elements(q) /\ Head(q) \in Elements(q)
    BY <1>1, <1>2, <1>4 DEF Elements
  <1>6. ByeLast(q) => ByeLast(r)
    <2> SUFFICES ASSUME ByeLast(q), NEW i \in 1..(Len(q) - 1), r[i] = BYE PROVE i = Len(q) - 1
      BY <1>1, <1>2 DEF ByeLast
    <2>1. i + 1 \in DOMAIN q /\ q[i + 1] = BYE
      BY <1>1, <1>2, <1>4
    <2>2. i + 1 = Len(q)
      BY <2>1 DEF ByeLast
    <2>3. QED
      BY <1>1, <2>2
  <1>7. ByeLast(q) /\ Head(q) = BYE => r = <<>>
    <2> SUFFICES ASSUME ByeLast(q), Head(q) = BYE PROVE r = <<>>
      OBVIOUS
    <2>1. 1 \in DOMAIN q /\ q[1] = BYE
      BY <1>1, <1>2
    <2>2. Len(q) = 1
      BY <2>1 DEF ByeLast
    <2>3. QED
      BY <1>1, <1>3, <2>2
  <1>8. QED
    BY <1>1, <1>5, <1>6, <1>7 DEF r

\* Nothing is in an empty buffer.
LEMMA EmptyFacts == Elements(<<>>) = {} /\ ByeLast(<<>>)
  BY DEF Elements, ByeLast

\* The two ends of a connection.
LEMMA EndFacts ==
    /\ \A c \in Connections : Client(c) \in Ends /\ Server(c) \in Ends
    /\ \A e \in Ends :
          /\ Peer(e) \in Ends /\ Peer(e) # e /\ Peer(Peer(e)) = e
          /\ e[2] \in Connections /\ e[1] \in {"client", "server"}
          /\ e = IF e[1] = "client" THEN Client(e[2]) ELSE Server(e[2])
    /\ \A c, d \in Connections : (Client(c) = Client(d) <=> c = d) /\ Client(c) # Server(d)
    /\ \A c \in Connections : Peer(Client(c)) = Server(c) /\ Peer(Server(c)) = Client(c)
  BY DEF Ends, Client, Server, Peer

\* The frames of the protocol.
LEMMA FrameFacts ==
    /\ HELO \in Frames /\ BYE \in Frames /\ HELO # BYE
    /\ \A ch \in Nat, r \in 0..MaxRequests : REQU(ch, r) \in Frames /\ REPL(ch, r) \in Frames
    /\ \A ch, r : REQU(ch, r) # BYE /\ REPL(ch, r) # BYE
  <1>1. 0 \in 0..MaxRequests
    BY RemotingAssumption
  <1>2. HELO.type = "HELO" /\ BYE.type = "BYE"
    BY DEF HELO, BYE
  <1>3. \A ch, r : REQU(ch, r).type = "REQU" /\ REPL(ch, r).type = "REPL"
    BY DEF REQU, REPL
  <1>4. QED
    BY <1>1, <1>2, <1>3 DEF HELO, BYE, REQU, REPL, Frames, NoRequest

\* Sending a frame appends it at the peer, or loses it.
LEMMA SentFacts ==
    ASSUME NEW before \in [Ends -> Seq(Frames)], NEW e \in Ends, NEW f \in Frames
    PROVE  /\ Sent(before, e, f) \in [Ends -> Seq(Frames)]
           /\ \A d \in Ends : \/ Sent(before, e, f)[d] = before[d]
                              \/ d = Peer(e) /\ Sent(before, e, f)[d] = Append(before[d], f)
  BY EndFacts, AppendFacts DEF Sent

-----------------------------------------------------------------------------
(* The inductive invariant. *)

\* What the state tells of the thread, and that close() closes only what has been
\* established.
Placed ==
    /\ \A e \in Ends :
          /\ thread[e] = "new" => state[e] = "PRE_HANDSHAKE"
          /\ thread[e] = "HELO" => state[e] = "HANDSHAKE"
          /\ state[e] = "ESTABLISHED" => thread[e] = "polling"
          /\ e[2] > created => thread[e] = "new"
    /\ \A c \in closing : thread[Client(c)] \notin {"new", "HELO"}

\* Only an end that has sent its BYE has one on its way or taken by its peer.
Byes ==
    \A e \in Ends :
        /\ BYE \in Elements(input[e]) \/ state[e] = "CLOSING_PASSIVE"
              => thread[Peer(e)] \in {"BYE", "done"}
        /\ state[e] = "CLOSING_PASSIVE" => input[e] = <<>>
        /\ ByeLast(input[e])

\* Who creates a connection.
Creating ==
    /\ \A u \in Users : Creates(u) => pending
    /\ \A u, v \in Users : Creates(u) /\ Creates(v) => u = v
    /\ pending => connection = NoConnection
    /\ \A c \in Connections :
          thread[Client(c)] \in {"new", "HELO"} /\ c <= created
              => c \in timedOut \/ \E u \in Users : Creates(u) /\ conn[u] = c

\* A request or a reply on its way, or a request that is served, or was left in
\* its stream.
Flying(c, ch, r) ==
    \/ \E e \in Ends : \E f \in Elements(input[e]) :
          e[2] = c /\ f.type \in {"REQU", "REPL"} /\ f.channel = ch /\ f.request = r
    \/ \E s \in serving \cup leftover : s.conn = c /\ s.channel = ch /\ s.request = r

Talking(u, c) == user[u] \in {"connected", "replying"} /\ conn[u] = c

\* A channel of a connection belongs to one request for good.
Tagged ==
    /\ \A u \in Users, c \in Connections : Talking(u, c) => channel[u] < nextChannel[c]
    /\ \A c \in Connections : \A u, v \in Users :
          Talking(u, c) /\ Talking(v, c) /\ channel[u] = channel[v] => u = v
    /\ \A c \in Connections, ch \in Nat, r \in 0..MaxRequests :
          Flying(c, ch, r) => /\ ch < nextChannel[c]
                              /\ \A u \in Users : Talking(u, c) /\ channel[u] = ch => request[u] = r
    /\ \A u \in Users : reply[u] # NoRequest => user[u] = "replying" /\ reply[u] = request[u]

Inv == TypeOK /\ Placed /\ Byes /\ Creating /\ NoStray /\ Tagged

LEMMA InitInv == Init => Inv
  <1> SUFFICES ASSUME Init PROVE Inv
    OBVIOUS
  <1>1. MaxConnections \in Nat /\ MaxRequests \in Nat
    BY RemotingAssumption
  <1>2. <<>> \in Seq(Frames)
    OBVIOUS
  <1>3. TypeOK
    <2>1. /\ state \in [Ends -> {"PRE_HANDSHAKE"}] /\ thread \in [Ends -> {"new"}]
          /\ input \in [Ends -> Seq(Frames)]
          /\ nextChannel \in [Connections -> Nat \ {0}] /\ channel \in [Users -> Nat]
      BY <1>2 DEF Init
    <2>2. /\ created \in 0..MaxConnections /\ requests \in 0..MaxRequests
          /\ 0 \in 0..created /\ 0 \in 0..requests /\ 0 \in 0..MaxRequests
      BY <1>1 DEF Init
    <2>3. request \in [Users -> 0..requests] /\ reply \in [Users -> 0..MaxRequests]
      BY <2>2 DEF Init, NoRequest
    <2>4. user \in [Users -> {"idle"}] /\ conn \in [Users -> 0..created]
      BY <2>2 DEF Init, NoConnection
    <2>5. QED
      BY <2>1, <2>2, <2>3, <2>4 DEF Init, TypeOK, NoConnection, NoRequest
  <1>4. Placed /\ NoStray
    BY <1>1, EndFacts DEF Init, Placed, NoStray
  <1>5. Byes
    BY <1>1, EmptyFacts DEF Init, Byes
  <1>6. Creating
    BY <1>1 DEF Init, Creating, Creates, Connections
  <1>7. Tagged
    BY EmptyFacts, EndFacts DEF Init, Tagged, Talking, Flying, NoRequest
  <1>8. QED
    BY <1>3, <1>4, <1>5, <1>6, <1>7 DEF Inv

-----------------------------------------------------------------------------
(* What the steps leave alone. *)

\* The steps of the threads of the connections.
LEMMA EndKeeps ==
    ASSUME NEW e, EndStep(e)
    PROVE  /\ UNCHANGED <<manager, user, conn, channel, request, nextChannel, leftover, history>>
           /\ ReceiveFrame(e) \/ UNCHANGED <<reply, serving>>
  BY DEF EndStep, Thread, Start, Establish, HandshakeFails, ReceiveFrame, ReceiveThrows, PollTimesOut,
         IdleTimesOut, FrameFails, SendBYE, SkipBYE, FinishClose, FinishAbort, SocketCloses, users

\* The steps of the network, of the server's requests and of streams that are
\* destroyed.
Elsewhere ==
    \/ \E c \in Connections : Break(c) \/ Stall(c) \/ Refuse(c)
    \/ \E s \in serving : Answer(s)
    \/ \E s \in leftover : Discard(s)

LEMMA ElsewhereKeeps ==
    ASSUME Elsewhere
    PROVE  /\ UNCHANGED <<state, manager, user, conn, channel, request, reply, nextChannel>>
           /\ UNCHANGED <<created, requests, timedOut>>
           /\ serving' \subseteq serving /\ leftover' \subseteq leftover
  BY DEF Elsewhere, Break, Stall, Refuse, Answer, Discard, ends, users, history

LEMMA ShutdownKeeps ==
    ASSUME ShutdownStep
    PROVE  UNCHANGED <<thread, input, pending, users, serving, history>>
  BY DEF ShutdownStep, Shutdown, ShutdownClosing, ShutdownClosed, ends

\* The steps of a user that neither send nor leave a request behind.
LEMMA UserKeeps ==
    ASSUME NEW u, UserStep(u)
    PROVE  \/ (SendRequest(u) \/ Abandon(u)) /\ UNCHANGED <<state, thread, manager, serving, history>>
           \/ UNCHANGED <<thread, input, leftover, serving, broken, stalled, refused>>
  BY DEF UserStep, GetConnection, CreateConnection, NewConnection, CreateConnectionThrows, Getting,
         Connected, ConnectTimesOut, ConnectClosing, ConnectClosed, SendRequest, Abandon, EndRequest,
         ends, users, history

\* The kinds of steps.
LEMMA Steps ==
    Next => \/ \E e \in Ends : EndStep(e)
            \/ Elsewhere
            \/ \E u \in Users : UserStep(u)
            \/ ShutdownStep
  BY DEF Next, Elsewhere

\* A call that fails leaves its request in the stream.
Keeps(u) ==
    /\ user[u] = "connected" /\ Leave(u)
    /\ UNCHANGED <<state, thread, manager, serving, history>>

LEMMA Fails ==
    ASSUME NEW u, SendRequest(u) \/ Abandon(u)
    PROVE  (SendRequest(u) /\ SendFrame(u) /\ UNCHANGED leftover) \/ Keeps(u)
  BY DEF SendRequest, Abandon, Keeps

-----------------------------------------------------------------------------
(* What a step may do to the buffers. *)

\* The request of a Transport is sent.
Requests(u) == SendRequest(u) /\ SendFrame(u) /\ UNCHANGED leftover

\* The sender of frame f at the other end of e, and its step.
Origin(e, f) ==
    \/ /\ f = HELO /\ thread[Peer(e)] \in {"new", "HELO"}
       /\ e[1] = "client" => thread'[Peer(e)] = "polling"
    \/ f = BYE /\ thread[Peer(e)] = "leaving" /\ thread'[Peer(e)] = "BYE"
    \/ /\ state[Peer(e)] = "ESTABLISHED"
       /\ \/ \E u \in Users : /\ Requests(u) /\ conn[u] \in Connections
                               /\ e = Server(conn[u]) /\ f = REQU(channel[u], request[u])
          \/ \E s \in leftover : /\ Discard(s) /\ s.conn \in Connections
                                  /\ e = Server(s.conn) /\ f = REQU(s.channel, s.request)
          \/ \E s \in serving : /\ Answer(s) /\ s.conn \in Connections
                                 /\ e = Client(s.conn) /\ f = REPL(s.channel, s.request)
          \/ \E c \in Connections, g \in Frames :
                /\ Refuse(c) /\ input[Server(c)] # <<>> /\ g = Head(input[Server(c)])
                /\ e = Client(c) /\ f = REPL(g.channel, g.request)

Changed(e) ==
    \/ input'[e] = input[e]
    \/ input'[e] = <<>>
    \/ input[e] # <<>> /\ input'[e] = Tail(input[e])
    \/ \E f \in Frames : Origin(e, f) /\ input'[e] = Append(input[e], f)

\* A frame sent by an end.
LEMMA SentChanges ==
    ASSUME input \in [Ends -> Seq(Frames)], NEW e \in Ends, NEW f \in Frames,
           Origin(Peer(e), f), input' = Sent(input, e, f)
    PROVE  input' \in [Ends -> Seq(Frames)] /\ \A d \in Ends : Changed(d)
  <1> DEFINE after == Sent(input, e, f)
  <1>0. /\ after \in [Ends -> Seq(Frames)]
        /\ \A d \in Ends : \/ after[d] = input[d]
                           \/ d = Peer(e) /\ after[d] = Append(input[d], f)
    BY SentFacts, Zenon
  <1> HIDE DEF after
  <1>1. /\ input' \in [Ends -> Seq(Frames)]
        /\ \A d \in Ends : \/ input'[d] = input[d]
                           \/ d = Peer(e) /\ input'[d] = Append(input[d], f)
    BY <1>0 DEF after
  <1>2. ASSUME NEW d \in Ends
        PROVE  Changed(d)
    <2>1. CASE input'[d] = input[d]
      BY <2>1 DEF Changed
    <2>2. CASE d = Peer(e) /\ input'[d] = Append(input[d], f)
      BY <2>2 DEF Changed
    <2>3. QED
      BY <1>1, <2>1, <2>2
  <1>3. QED
    BY <1>1, <1>2

\* A frame that is taken, and answered at once or not.
LEMMA TakenChanges ==
    ASSUME input \in [Ends -> Seq(Frames)], NEW e \in Ends, NEW f \in Frames, input[e] # <<>>,
           NEW received, received \in [Ends -> Seq(Frames)], received[e] = Tail(input[e]),
           \A d \in Ends : d # e => received[d] = input[d],
           input' = received \/ (input' = Sent(received, e, f) /\ Origin(Peer(e), f))
    PROVE  input' \in [Ends -> Seq(Frames)] /\ \A d \in Ends : Changed(d)
  <1>3. CASE input' = received
    BY <1>3 DEF Changed
  <1>4. CASE input' = Sent(received, e, f) /\ Origin(Peer(e), f)
    <2>0. /\ Sent(received, e, f) \in [Ends -> Seq(Frames)]
          /\ \A d \in Ends : \/ Sent(received, e, f)[d] = received[d]
                             \/ d = Peer(e) /\ Sent(received, e, f)[d] = Append(received[d], f)
      BY SentFacts, Zenon
    <2>1. /\ input' \in [Ends -> Seq(Frames)]
          /\ \A d \in Ends : \/ input'[d] = received[d]
                             \/ d = Peer(e) /\ input'[d] = Append(received[d], f)
      BY <1>4, <2>0, Zenon
    <2>2. ASSUME NEW d \in Ends PROVE Changed(d)
      <3>1. CASE d = e
        BY <2>1, <3>1, EndFacts DEF Changed
      <3>2. CASE d # e
        BY <1>4, <2>1, <3>2 DEF Changed
      <3>3. QED
        BY <3>1, <3>2
    <2>3. QED
      BY <2>1, <2>2
  <1>5. QED
    BY <1>3, <1>4

LEMMA InputChanges ==
    ASSUME TypeOK, Next
    PROVE  input' \in [Ends -> Seq(Frames)] /\ \A d \in Ends : Changed(d)
  <1> DEFINE Goal == input' \in [Ends -> Seq(Frames)] /\ \A d \in Ends : Changed(d)
  <1>0. input \in [Ends -> Seq(Frames)] /\ thread \in [Ends -> {"new", "HELO", "polling", "leaving", "BYE", "done", "failed"}]
    BY DEF TypeOK
  <1>1. ASSUME UNCHANGED input PROVE Goal
    BY <1>0, <1>1 DEF Changed
  <1>2. ASSUME NEW e \in Ends, input' = [input EXCEPT ![e] = <<>>] PROVE Goal
    BY <1>0, <1>2 DEF Changed
  <1>3. ASSUME NEW e \in Ends, input[e] # <<>>, input' = [input EXCEPT ![e] = Tail(@)] PROVE Goal
    <2>1. Tail(input[e]) \in Seq(Frames)
      BY <1>0, <1>3, TailFacts
    <2>2. QED
      BY <1>0, <1>3, <2>1 DEF Changed
  <1>4. ASSUME NEW e \in Ends, Start(e) PROVE Goal
    <2>1. CASE UNCHANGED input
      BY <1>1, <2>1
    <2>2. CASE thread[e] = "new" /\ e[1] = "client" /\ input' = Sent(input, e, HELO)
      <3>0. Peer(e)[1] # "client"
        BY <2>2 DEF Peer, Server
      <3>1. Origin(Peer(e), HELO)
        BY <2>2, <3>0, EndFacts DEF Origin
      <3>2. QED
        BY <1>0, <2>2, <3>1, SentChanges, FrameFacts
    <2>3. QED
      BY <1>4, <2>1, <2>2 DEF Start, ThreadGoes
  <1>5. ASSUME NEW e \in Ends, Establish(e) PROVE Goal
    <2> DEFINE received == [input EXCEPT ![e] = Tail(@)]
    <2>1. input[e] # <<>> /\ thread[e] = "HELO" /\ thread'[e] = "polling"
      BY <1>0, <1>5 DEF Establish, ThreadGoes
    <2>2. Origin(Peer(e), HELO)
      BY <2>1, EndFacts DEF Origin
    <2>3. input' = received \/ input' = Sent(received, e, HELO)
      BY <1>5 DEF Establish
    <2>4. /\ received \in [Ends -> Seq(Frames)] /\ received[e] = Tail(input[e])
          /\ \A d \in Ends : d # e => received[d] = input[d]
      BY <1>0, <2>1, TailFacts
    <2> HIDE DEF received
    <2>5. QED
      BY <1>0, <2>1, <2>2, <2>3, <2>4, TakenChanges, FrameFacts
  <1>6. ASSUME NEW e \in Ends, SendBYE(e) PROVE Goal
    <2>1. CASE UNCHANGED input
      BY <1>1, <2>1
    <2>2. CASE ThreadGoes(e, "leaving", "BYE") /\ input' = Sent(input, e, BYE)
      <3>1. Origin(Peer(e), BYE)
        BY <1>0, <2>2, EndFacts DEF Origin, ThreadGoes
      <3>2. QED
        BY <1>0, <2>2, <3>1, SentChanges, FrameFacts
    <2>3. QED
      BY <1>6, <2>1, <2>2 DEF SendBYE
  <1>7. ASSUME NEW s \in serving, Answer(s) PROVE Goal
    <2>1. CASE UNCHANGED input
      BY <1>1, <2>1
    <2>2. CASE state[Server(s.conn)] = "ESTABLISHED" /\ input' = Sent(input, Server(s.conn), REPL(s.channel, s.request))
      <3>1. s.conn \in Connections /\ s.channel \in Nat /\ s.request \in 0..MaxRequests
        BY RemotingAssumption DEF TypeOK, Connections
      <3>2. Server(s.conn) \in Ends /\ Peer(Server(s.conn)) = Client(s.conn) /\ Peer(Client(s.conn)) = Server(s.conn)
        BY <3>1, EndFacts
      <3>3. Origin(Peer(Server(s.conn)), REPL(s.channel, s.request))
        BY <1>7, <2>2, <3>1, <3>2 DEF Origin
      <3>4. QED
        BY <1>0, <2>2, <3>1, <3>2, <3>3, SentChanges, FrameFacts
    <2>3. QED
      BY <1>7, <2>1, <2>2 DEF Answer
  <1>8. ASSUME NEW s \in leftover, Discard(s) PROVE Goal
    <2>1. CASE UNCHANGED input
      BY <1>1, <2>1
    <2>2. CASE state[Client(s.conn)] = "ESTABLISHED" /\ input' = Sent(input, Client(s.conn), REQU(s.channel, s.request))
      <3>1. s.conn \in Connections /\ s.channel \in Nat /\ s.request \in 0..MaxRequests
        BY RemotingAssumption DEF TypeOK, Connections
      <3>2. Client(s.conn) \in Ends /\ Peer(Client(s.conn)) = Server(s.conn) /\ Peer(Server(s.conn)) = Client(s.conn)
        BY <3>1, EndFacts
      <3>3. Origin(Peer(Client(s.conn)), REQU(s.channel, s.request))
        BY <1>8, <2>2, <3>1, <3>2 DEF Origin
      <3>4. QED
        BY <1>0, <2>2, <3>1, <3>2, <3>3, SentChanges, FrameFacts
    <2>3. QED
      BY <1>8, <2>1, <2>2 DEF Discard
  <1>9. ASSUME NEW u \in Users, Requests(u) PROVE Goal
    <2>1. CASE state[Client(conn[u])] # "ESTABLISHED"
      BY <1>1, <1>9, <2>1 DEF Requests, SendRequest, Leave
    <2>2. CASE state[Client(conn[u])] = "ESTABLISHED"
      <3>0. input' = Sent(input, Client(conn[u]), REQU(channel[u], request[u]))
        BY <1>9 DEF Requests, SendFrame
      <3>1. conn[u] \in Connections /\ channel[u] \in Nat /\ request[u] \in 0..MaxRequests /\ user[u] = "connected"
        BY <1>9, RemotingAssumption DEF TypeOK, Connections, Requests, SendRequest, NoConnection
      <3>2. Client(conn[u]) \in Ends /\ Peer(Client(conn[u])) = Server(conn[u]) /\ Peer(Server(conn[u])) = Client(conn[u])
        BY <3>1, EndFacts
      <3>3. Origin(Peer(Client(conn[u])), REQU(channel[u], request[u]))
        BY <1>9, <2>2, <3>1, <3>2 DEF Origin
      <3>4. QED
        BY <1>0, <3>0, <3>1, <3>2, <3>3, SentChanges, FrameFacts
    <2>3. QED
      BY <2>1, <2>2
  <1>10. ASSUME NEW u \in Users, UserStep(u) PROVE Goal
    <2>1. UNCHANGED input \/ Requests(u)
      BY <1>10, UserKeeps, Fails DEF Keeps, Leave, Requests
    <2>2. QED
      BY <1>1, <1>9, <2>1
  <1>11. ASSUME NEW c \in Connections, Break(c) \/ Stall(c) PROVE Goal
    <2>1. Client(c) \in Ends /\ Server(c) \in Ends /\ <<>> \in Seq(Frames)
      BY EndFacts
    <2>2. UNCHANGED input \/ input' = [input EXCEPT ![Client(c)] = <<>>, ![Server(c)] = <<>>]
      BY <1>11 DEF Break, Stall, ends
    <2>3. UNCHANGED input \/ \A d \in Ends : input'[d] = IF d \in {Client(c), Server(c)} THEN <<>> ELSE input[d]
      BY <1>0, <2>1, <2>2
    <2>4. input' \in [Ends -> Seq(Frames)]
      BY <1>0, <2>1, <2>2
    <2>5. QED
      BY <2>3, <2>4 DEF Changed
  <1>12. ASSUME NEW c \in Connections, Refuse(c) PROVE Goal
    <2>1. PICK e, g : e = Server(c) /\ g = Head(input[e])
      OBVIOUS
    <2>2. /\ e \in Ends /\ Peer(e) = Client(c) /\ Peer(Client(c)) = e
          /\ input[e] # <<>> /\ input[e] \in Seq(Frames)
      BY <1>0, <1>12, <2>1, EndFacts DEF Refuse
    <2>0. PICK f : f = REPL(g.channel, g.request)
      OBVIOUS
    <2>3. g \in Frames /\ f \in Frames
      <3>1. g \in Frames
        BY <2>1, <2>2, TailFacts
      <3>2. QED
        BY <2>0, <3>1, FrameFacts DEF Frames
    <2>4. PICK received : received = [input EXCEPT ![e] = Tail(@)]
      OBVIOUS
    <2>8. /\ received \in [Ends -> Seq(Frames)] /\ received[e] = Tail(input[e])
          /\ \A d \in Ends : d # e => received[d] = input[d]
      BY <1>0, <2>2, <2>4, TailFacts
    <2>5. \/ state[e] = "ESTABLISHED" /\ input' = Sent(received, e, f)
          \/ input' = received
      BY <1>12, <2>0, <2>1, <2>4 DEF Refuse
    <2>6. state[e] = "ESTABLISHED" => Origin(Peer(e), f)
      BY <1>12, <2>0, <2>1, <2>2, <2>3 DEF Origin
    <2>7. QED
      <3>1. input' = received \/ (input' = Sent(received, e, f) /\ Origin(Peer(e), f))
        BY <2>5, <2>6
      <3>2. e \in Ends /\ input[e] # <<>>
        BY <2>2
      <3>3. QED
        BY <1>0, <2>3, <2>8, <3>1, <3>2, TakenChanges
  <1>13. ASSUME NEW e \in Ends, EndStep(e) PROVE Goal
    BY <1>1, <1>2, <1>3, <1>4, <1>5, <1>6, <1>13
       DEF EndStep, Thread, HandshakeFails, ReceiveFrame, ReceiveThrows, IdleTimesOut, FrameFails,
           PollTimesOut, SkipBYE, FinishClose, FinishAbort, SocketCloses
  <1>14. QED
    BY <1>1, <1>7, <1>8, <1>10, <1>11, <1>12, <1>13, Steps, ShutdownKeeps DEF Elsewhere

-----------------------------------------------------------------------------
(* Every step preserves each part of the invariant. *)

\* The types of the ends.
LEMMA EndTypes ==
    ASSUME TypeOK, Placed, NEW e \in Ends, EndStep(e)
    PROVE  /\ state' \in [Ends -> {"PRE_HANDSHAKE", "HANDSHAKE", "ESTABLISHED", "CLOSING_ACTIVE",
                                   "CLOSING_PASSIVE", "ABORTED", "CLOSED"}]
           /\ thread' \in [Ends -> {"new", "HELO", "polling", "leaving", "BYE", "done", "failed"}]
           /\ \A c \in Connections : Ready(c) => Ready(c)'
  <1> USE DEF ThreadGoes
  <1>1. state' \in [Ends -> {"PRE_HANDSHAKE", "HANDSHAKE", "ESTABLISHED", "CLOSING_ACTIVE",
                             "CLOSING_PASSIVE", "ABORTED", "CLOSED"}]
    BY DEF EndStep, Thread, Start, Establish, HandshakeFails, ReceiveFrame, ReceiveThrows, PollTimesOut,
           IdleTimesOut, FrameFails, SendBYE, SkipBYE, FinishClose, FinishAbort, SocketCloses, TypeOK
  <1>2. thread' \in [Ends -> {"new", "HELO", "polling", "leaving", "BYE", "done", "failed"}]
    BY DEF EndStep, Thread, Start, Establish, HandshakeFails, ReceiveFrame, ReceiveThrows, PollTimesOut,
           IdleTimesOut, FrameFails, SendBYE, SkipBYE, FinishClose, FinishAbort, SocketCloses, NextRound, TypeOK
  <1>3. ASSUME NEW d \in Ends, state[d] \notin {"PRE_HANDSHAKE", "HANDSHAKE"}
        PROVE  state'[d] \notin {"PRE_HANDSHAKE", "HANDSHAKE"}
    <2>1. CASE Start(e) \/ Establish(e)
      BY <1>3, <2>1 DEF Start, Establish, TypeOK, Placed
    <2>2. CASE ReceiveFrame(e) \/ PollTimesOut(e) \/ ReceiveThrows(e) \/ IdleTimesOut(e) \/ FrameFails(e)
      BY <1>3, <2>2 DEF ReceiveFrame, PollTimesOut, ReceiveThrows, IdleTimesOut, FrameFails, TypeOK
    <2>3. CASE HandshakeFails(e) \/ SendBYE(e) \/ SkipBYE(e) \/ FinishClose(e) \/ FinishAbort(e)
      BY <1>3, <2>3 DEF HandshakeFails, SendBYE, SkipBYE, FinishClose, FinishAbort, TypeOK
    <2>4. QED
      BY <2>1, <2>2, <2>3 DEF EndStep, Thread
  <1>4. QED
    BY <1>1, <1>2, <1>3, EndFacts DEF Ready

\* The types of the users whose calls end.
LEMMA EndedTypes ==
    ASSUME TypeOK, NEW u \in Users, Ended(u)
    PROVE  /\ user' \in [Users -> {"idle", "waiting", "closing", "connected", "replying"}]
           /\ conn' \in [Users -> 0..created]
           /\ \A v \in Users : conn'[v] = NoConnection <=> user'[v] = "idle"
           /\ request' \in [Users -> 0..requests] /\ reply' \in [Users -> 0..MaxRequests]
           /\ channel' \in [Users -> Nat] /\ UNCHANGED nextChannel
  <1>1. 0 \in 0..created /\ 0 \in 0..requests /\ 0 \in 0..MaxRequests
    BY RemotingAssumption DEF TypeOK
  <1>2. QED
    BY <1>1 DEF Ended, TypeOK, NoConnection, NoRequest

\* Types.
LEMMA TypeNext ==
    ASSUME TypeOK, Placed, Next
    PROVE  TypeOK'
  <1> USE DEF manager, users, history, ends
  <1>0. /\ MaxConnections \in Nat /\ MaxRequests \in Nat /\ input' \in [Ends -> Seq(Frames)]
        /\ connection # NoConnection => connection \in Connections
        /\ created \in 0..MaxConnections /\ requests \in 0..MaxRequests /\ NoConnection \in 0..created
    <2>1. input' \in [Ends -> Seq(Frames)]
      BY InputChanges
    <2>2. /\ created \in 0..MaxConnections /\ requests \in 0..MaxRequests
          /\ connection \in 0..created
      BY DEF TypeOK
    <2>3. QED
      BY <2>1, <2>2, RemotingAssumption DEF Connections, NoConnection
  <1>1. ASSUME NEW e \in Ends, EndStep(e) PROVE TypeOK'
    <2>1. UNCHANGED <<manager, user, conn, channel, request, nextChannel, leftover, history>>
      BY <1>1, EndKeeps
    <2>2. reply' \in [Users -> 0..MaxRequests] /\ serving' \subseteq [conn : 1..created, channel : Nat, request : 0..MaxRequests]
      <3>1. CASE ReceiveFrame(e)
        <4> DEFINE f == Head(input[e])
        <4>1. f \in Frames
          BY <3>1, TailFacts DEF ReceiveFrame, TypeOK
        <4> HIDE DEF f
        <4>2. reply' \in [Users -> 0..MaxRequests]
          BY <3>1, <4>1 DEF ReceiveFrame, HandleFrame, Give, Frames, TypeOK, f
        <4>3. e[2] \in 1..created
          <5>1. thread[e] = "polling"
            BY <3>1 DEF ReceiveFrame, NextRound, ThreadGoes
          <5>2. ~(e[2] > created)
            BY <5>1 DEF Placed
          <5>3. e[2] \in 1..MaxConnections /\ created \in Nat
            BY <1>0, EndFacts DEF Connections
          <5>4. QED
            BY <1>0, <5>2, <5>3
        <4>4. serving' \subseteq [conn : 1..created, channel : Nat, request : 0..MaxRequests]
          BY <3>1, <4>1, <4>3 DEF ReceiveFrame, HandleFrame, Serve, Frames, TypeOK, f
        <4>5. QED
          BY <4>2, <4>4
      <3>2. CASE UNCHANGED <<reply, serving>>
        BY <3>2 DEF TypeOK
      <3>3. QED
        BY <1>1, <3>1, <3>2, EndKeeps
    <2>3. QED
      BY <1>0, <1>1, <2>1, <2>2, EndTypes DEF TypeOK
  <1>2. ASSUME Elsewhere PROVE TypeOK'
    <2>1. thread' \in [Ends -> {"new", "HELO", "polling", "leaving", "BYE", "done", "failed"}]
      BY <1>2 DEF Elsewhere, Break, Stall, Refuse, NextRound, ThreadGoes, Answer, Discard, TypeOK
    <2>2. QED
      BY <1>0, <1>2, <2>1, ElsewhereKeeps DEF TypeOK, Ready
  <1>3. ASSUME NEW u \in Users, GetConnection(u) PROVE TypeOK'
    <2>1. connection \in Connections /\ connection # NoConnection /\ requests < MaxRequests
      BY <1>0, <1>3 DEF GetConnection, Call, Usable
    <2>2. /\ requests' = requests + 1 /\ requests' \in 0..MaxRequests
          /\ request' \in [Users -> 0..requests']
      BY <1>0, <1>3, <2>1 DEF GetConnection, Call, TypeOK
    <2>3. channel' \in [Users -> Nat] /\ nextChannel' \in [Connections -> Nat \ {0}]
      BY <1>3, <2>1 DEF GetConnection, Begin, AllocChannel, TypeOK
    <2>4. /\ user' = [user EXCEPT ![u] = "connected"] /\ conn' = [conn EXCEPT ![u] = connection]
          /\ UNCHANGED <<ends, manager, reply, leftover, serving, created>>
      BY <1>3 DEF GetConnection, Begin
    <2>5. QED
      BY <1>0, <2>1, <2>2, <2>3, <2>4 DEF TypeOK, Ready
  <1>4. ASSUME NEW u \in Users, CreateConnection(u) PROVE TypeOK'
    <2>1. requests < MaxRequests /\ created < MaxConnections
      BY <1>4 DEF CreateConnection, NewConnection, Call
    <2>2. /\ requests' = requests + 1 /\ requests' \in 0..MaxRequests
          /\ request' \in [Users -> 0..requests']
      BY <1>0, <1>4, <2>1 DEF CreateConnection, NewConnection, Call, TypeOK
    <2>3. created' = created + 1 /\ created' \in 0..MaxConnections /\ created' # NoConnection
      BY <1>0, <1>4, <2>1 DEF CreateConnection, NewConnection, TypeOK, NoConnection
    <2>4. /\ user' = [user EXCEPT ![u] = "waiting"] /\ conn' = [conn EXCEPT ![u] = created']
          /\ connection' = NoConnection /\ pending' = TRUE
          /\ UNCHANGED <<ends, closing, channel, reply, nextChannel, leftover, serving>>
      BY <1>4 DEF CreateConnection, NewConnection
    <2>5. /\ serving \subseteq [conn : 1..created', channel : Nat, request : 0..MaxRequests]
          /\ leftover \subseteq [user : Users, conn : 1..created', channel : Nat, request : 0..MaxRequests]
          /\ closing \subseteq 1..created'
      BY <1>0, <2>3 DEF TypeOK
    <2>6. conn' \in [Users -> 0..created'] /\ \A v \in Users : conn'[v] = NoConnection <=> user'[v] = "idle"
      BY <1>0, <2>3, <2>4 DEF TypeOK
    <2>7. connection' \in 0..created' /\ (connection' # NoConnection => Ready(connection)')
      BY <1>0, <2>3, <2>4 DEF NoConnection
    <2>8. user' \in [Users -> {"idle", "waiting", "closing", "connected", "replying"}]
      BY <2>4 DEF TypeOK
    <2>9. QED
      BY <1>0, <2>2, <2>3, <2>4, <2>5, <2>6, <2>7, <2>8 DEF TypeOK
  <1>5. ASSUME NEW u \in Users, CreateConnectionThrows(u) PROVE TypeOK'
    BY <1>0, <1>5 DEF CreateConnectionThrows, TypeOK
  <1>6. ASSUME NEW u \in Users, Connected(u) PROVE TypeOK'
    <2>1. conn[u] \in Connections /\ conn[u] \in 1..created
      BY <1>0, <1>6 DEF Connected, TypeOK, Connections, NoConnection
    <2>2. channel' \in [Users -> Nat] /\ nextChannel' \in [Connections -> Nat \ {0}]
      BY <1>6, <2>1 DEF Connected, Begin, AllocChannel, TypeOK
    <2>3. /\ user' = [user EXCEPT ![u] = "connected"] /\ conn' = [conn EXCEPT ![u] = conn[u]]
          /\ pending' = FALSE /\ connection' = conn[u] /\ Ready(conn[u])
          /\ UNCHANGED <<ends, closing, request, reply, leftover, serving, created, requests>>
      BY <1>6 DEF Connected, Begin
    <2>4. conn' \in [Users -> 0..created'] /\ \A v \in Users : conn'[v] = NoConnection <=> user'[v] = "idle"
      BY <1>0, <2>1, <2>3 DEF TypeOK, NoConnection
    <2>5. connection' \in 0..created' /\ Ready(connection)'
      BY <1>0, <2>1, <2>3 DEF TypeOK, Ready
    <2>6. user' \in [Users -> {"idle", "waiting", "closing", "connected", "replying"}]
      BY <2>3 DEF TypeOK
    <2>7. QED
      BY <1>0, <2>2, <2>3, <2>4, <2>5, <2>6 DEF TypeOK
  <1>7. ASSUME NEW u \in Users, ConnectTimesOut(u) PROVE TypeOK'
    <2>1. Ended(u) /\ pending' = FALSE /\ UNCHANGED <<ends, connection, closing, leftover, serving, created, requests>>
      BY <1>7 DEF ConnectTimesOut
    <2>2. QED
      BY <1>0, <2>1, EndedTypes DEF TypeOK, Ready
  <1>8. ASSUME NEW u \in Users, ConnectClosing(u) PROVE TypeOK'
    <2>1. conn[u] \in 1..created
      BY <1>0, <1>8 DEF ConnectClosing, TypeOK, NoConnection
    <2>2. /\ closing' = closing \cup {conn[u]} /\ user[u] = "waiting" /\ user' = [user EXCEPT ![u] = "closing"]
          /\ UNCHANGED <<ends, connection, pending, conn, channel, request, reply, nextChannel, leftover>>
          /\ UNCHANGED <<serving, created, requests>>
      BY <1>8 DEF ConnectClosing, CloseTests
    <2>3. /\ user' \in [Users -> {"idle", "waiting", "closing", "connected", "replying"}]
          /\ \A v \in Users : conn'[v] = NoConnection <=> user'[v] = "idle"
      BY <2>2 DEF TypeOK
    <2>4. QED
      BY <1>0, <2>1, <2>2, <2>3 DEF TypeOK, Ready
  <1>9. ASSUME NEW c \in closing, CloseSets(c)
        PROVE  /\ state' \in [Ends -> {"PRE_HANDSHAKE", "HANDSHAKE", "ESTABLISHED", "CLOSING_ACTIVE",
                                       "CLOSING_PASSIVE", "ABORTED", "CLOSED"}]
               /\ \A d \in Connections : Ready(d) => Ready(d)'
               /\ closing' \subseteq 1..created
    <2>1. c \in Connections /\ closing \subseteq 1..created
      BY <1>0, <1>9 DEF TypeOK, Connections
    <2>2. Client(c) \in Ends /\ state' = [state EXCEPT ![Client(c)] = "CLOSING_ACTIVE"]
      BY <1>9, <2>1, EndFacts DEF CloseSets
    <2>3. closing' \subseteq 1..created
      BY <1>9, <2>1 DEF CloseSets
    <2>4. QED
      BY <2>2, <2>3, EndFacts DEF TypeOK, Ready
  <1>10. ASSUME NEW u \in Users, ConnectClosed(u) PROVE TypeOK'
    <2>1. /\ conn[u] \in closing /\ CloseSets(conn[u]) /\ Ended(u) /\ pending' = FALSE
          /\ UNCHANGED <<thread, input, connection, leftover, serving, created, requests>>
      BY <1>10 DEF ConnectClosed, CloseSets
    <2>2. QED
      BY <1>0, <1>9, <2>1, EndedTypes DEF TypeOK
  <1>11. ASSUME NEW u \in Users, Keeps(u) PROVE TypeOK'
    <2>1. /\ Ended(u) /\ user[u] = "connected" /\ UNCHANGED input
          /\ UNCHANGED <<state, thread, manager, serving, history>>
          /\ leftover' = leftover \cup {[user |-> u, conn |-> conn[u], channel |-> channel[u], request |-> request[u]]}
      BY <1>11 DEF Keeps, Leave
    <2>2. conn[u] \in 1..created /\ channel[u] \in Nat /\ request[u] \in 0..MaxRequests
      BY <1>0, <2>1 DEF TypeOK, NoConnection
    <2>3. leftover' \subseteq [user : Users, conn : 1..created, channel : Nat, request : 0..MaxRequests]
      BY <2>1, <2>2 DEF TypeOK
    <2>4. QED
      BY <1>0, <1>11, <2>1, <2>3, EndedTypes DEF TypeOK, Ready
  <1>12. ASSUME NEW u \in Users, Requests(u) PROVE TypeOK'
    <2>1. /\ user[u] = "connected" /\ user' = [user EXCEPT ![u] = "replying"]
          /\ UNCHANGED <<conn, channel, request, reply, nextChannel, leftover>>
          /\ UNCHANGED <<state, thread, manager, serving, history>>
      BY <1>12 DEF Requests, SendRequest, SendFrame
    <2>2. /\ user' \in [Users -> {"idle", "waiting", "closing", "connected", "replying"}]
          /\ \A v \in Users : conn'[v] = NoConnection <=> user'[v] = "idle"
      BY <2>1 DEF TypeOK
    <2>3. QED
      BY <1>0, <2>1, <2>2 DEF TypeOK, Ready
  <1>13. ASSUME NEW u \in Users, EndRequest(u) PROVE TypeOK'
    <2>1. Ended(u) /\ UNCHANGED <<ends, manager, leftover, serving, history>>
      BY <1>13 DEF EndRequest
    <2>2. QED
      BY <1>0, <2>1, EndedTypes DEF TypeOK, Ready
  <1>14. ASSUME NEW u \in Users, SendRequest(u) \/ Abandon(u) PROVE TypeOK'
    BY <1>11, <1>12, <1>14, Fails DEF SendRequest, Abandon, Requests
  <1>15. ASSUME ShutdownStep PROVE TypeOK'
    <2>1. CASE Shutdown
      BY <1>0, <2>1 DEF Shutdown, TypeOK, NoConnection
    <2>2. CASE ShutdownClosing
      <3>1. /\ connection # NoConnection /\ closing' = closing \cup {connection}
            /\ UNCHANGED <<ends, connection, pending, users, serving, history>>
        BY <2>2 DEF ShutdownClosing, CloseTests
      <3>2. closing' \subseteq 1..created
        BY <1>0, <3>1 DEF TypeOK, NoConnection
      <3>3. QED
        BY <3>1, <3>2 DEF TypeOK, Ready
    <2>3. CASE ShutdownClosed
      <3>1. /\ connection \in closing /\ CloseSets(connection) /\ connection' = NoConnection
            /\ UNCHANGED <<thread, input, pending, users, serving, history>>
        BY <2>3 DEF ShutdownClosed, CloseSets
      <3>2. QED
        BY <1>0, <1>9, <3>1 DEF TypeOK
    <2>4. QED
      BY <1>15, <2>1, <2>2, <2>3 DEF ShutdownStep
  <1>16. QED
    BY <1>1, <1>2, <1>3, <1>4, <1>5, <1>6, <1>7, <1>8, <1>10, <1>13, <1>14, <1>15, Steps DEF UserStep, Getting

\* The places of the threads.
LEMMA PlacedNext ==
    ASSUME TypeOK, Placed, Next
    PROVE  Placed'
  <1> USE DEF ThreadGoes, ends, manager, history
  <1>0. /\ created \in Nat /\ closing \subseteq Connections
        /\ \A e \in Ends : e[2] \in Nat
    BY EndFacts, RemotingAssumption DEF Connections, TypeOK
  <1>1. ASSUME NEW e \in Ends, EndStep(e) PROVE Placed'
    <2>0. UNCHANGED <<closing, created>>
      BY <1>1, EndKeeps
    <2>1. ASSUME \A d \in Ends : d # e => UNCHANGED <<state[d], thread[d]>>,
                 e[2] <= created,
                 thread'[e] # "new", thread[e] \notin {"new", "HELO"} => thread'[e] # "HELO",
                 thread'[e] = "HELO" => state'[e] = "HANDSHAKE",
                 state'[e] = "ESTABLISHED" => thread'[e] = "polling"
          PROVE  Placed'
      <3>1. \A d \in Ends :
                /\ thread'[d] = "new" => state'[d] = "PRE_HANDSHAKE"
                /\ thread'[d] = "HELO" => state'[d] = "HANDSHAKE"
                /\ state'[d] = "ESTABLISHED" => thread'[d] = "polling"
                /\ d[2] > created => thread'[d] = "new"
        BY <1>0, <2>1 DEF Placed
      <3>2. \A c \in closing : thread'[Client(c)] \notin {"new", "HELO"}
        BY <1>0, <2>1, EndFacts DEF Placed
      <3>3. QED
        BY <2>0, <3>1, <3>2 DEF Placed
    <2>2. CASE Start(e)
      BY <2>1, <2>2 DEF Start, Placed, TypeOK
    <2>3. thread[e] # "new" => e[2] <= created
      BY <1>0 DEF Placed
    <2>4. CASE Establish(e) \/ HandshakeFails(e)
      BY <2>1, <2>3, <2>4 DEF Establish, HandshakeFails, Placed, TypeOK
    <2>5. CASE ReceiveFrame(e)
      BY <2>1, <2>3, <2>5 DEF ReceiveFrame, NextRound, Placed, TypeOK
    <2>6. CASE ReceiveThrows(e) \/ PollTimesOut(e) \/ IdleTimesOut(e) \/ FrameFails(e)
      BY <2>1, <2>3, <2>6 DEF ReceiveThrows, PollTimesOut, IdleTimesOut, FrameFails, NextRound, Placed, TypeOK
    <2>7. CASE SendBYE(e) \/ SkipBYE(e)
      BY <2>1, <2>3, <2>7 DEF SendBYE, SkipBYE, Placed, TypeOK
    <2>8. CASE FinishClose(e) \/ FinishAbort(e)
      BY <2>1, <2>3, <2>8 DEF FinishClose, FinishAbort, SocketCloses, Placed, TypeOK
    <2>9. QED
      BY <1>1, <2>2, <2>4, <2>5, <2>6, <2>7, <2>8 DEF EndStep, Thread
  <1>2. ASSUME Elsewhere PROVE Placed'
    <2>1. UNCHANGED <<state, closing, created>>
      BY <1>2, ElsewhereKeeps
    <2>2. CASE \E c \in Connections : Refuse(c)
      <3>1. PICK e \in Ends : NextRound(e)
        BY <2>2, EndFacts DEF Refuse
      <3>2. thread[e] = "polling" /\ \A d \in Ends : thread'[d] = IF d = e THEN (IF state[e] = "ESTABLISHED" THEN "polling" ELSE "leaving") ELSE thread[d]
        BY <2>1, <3>1 DEF NextRound, TypeOK
      <3>3. ~(e[2] > created)
        BY <3>2 DEF Placed
      <3>4. QED
        BY <1>0, <2>1, <3>2, <3>3, EndFacts DEF Placed
    <2>3. CASE UNCHANGED thread
      BY <2>1, <2>3 DEF Placed
    <2>4. QED
      BY <1>2, <2>2, <2>3 DEF Elsewhere, Break, Stall, Answer, Discard
  <1>3. ASSUME NEW u \in Users, CreateConnection(u) PROVE Placed'
    <2>1. created' = created + 1 /\ UNCHANGED <<state, thread, closing>>
      BY <1>3 DEF CreateConnection, NewConnection
    <2>2. QED
      BY <1>0, <2>1 DEF Placed
  <1>4. ASSUME NEW c, CloseTests(c), UNCHANGED <<state, thread, created>> PROVE Placed'
    <2>1. closing' \subseteq Connections
      <3>1. TypeOK'
        BY TypeNext
      <3>2. closing' \subseteq 1..created' /\ created' \in 0..MaxConnections
        BY <3>1 DEF TypeOK
      <3>3. QED
        BY <3>2, RemotingAssumption DEF Connections
    <2>2. QED
      BY <1>4, <2>1, EndFacts DEF CloseTests, Placed
  <1>5. ASSUME NEW c, CloseSets(c), UNCHANGED <<thread, created>> PROVE Placed'
    <2>1. /\ c \in closing /\ closing' \subseteq closing /\ thread[Client(c)] \notin {"new", "HELO"}
          /\ \A e \in Ends : state'[e] = IF e = Client(c) THEN "CLOSING_ACTIVE" ELSE state[e]
      BY <1>5 DEF CloseSets, Placed, TypeOK
    <2>2. QED
      BY <1>5, <2>1 DEF Placed
  <1>6. ASSUME UNCHANGED <<state, thread, closing, created>> PROVE Placed'
    BY <1>6 DEF Placed
  <1>7. ASSUME NEW u \in Users, UserStep(u) PROVE Placed'
    BY <1>3, <1>4, <1>5, <1>6, <1>7
       DEF UserStep, GetConnection, CreateConnectionThrows, Getting, Connected, ConnectTimesOut,
           ConnectClosing, ConnectClosed, SendRequest, Abandon, EndRequest
  <1>8. ASSUME ShutdownStep PROVE Placed'
    BY <1>4, <1>5, <1>6, <1>8 DEF ShutdownStep, Shutdown, ShutdownClosing, ShutdownClosed
  <1>9. QED
    BY <1>1, <1>2, <1>7, <1>8, Steps

\* The steps of users and of shutdown() leave the threads alone, and establish
\* nothing.
LEMMA CallersKeep ==
    ASSUME TypeOK, (\E u \in Users : UserStep(u)) \/ ShutdownStep
    PROVE  /\ UNCHANGED thread
           /\ \A d \in Ends : state'[d] \in {state[d], "CLOSING_ACTIVE"}
  <1> USE DEF ends
  <1>1. ASSUME UNCHANGED state PROVE \A d \in Ends : state'[d] \in {state[d], "CLOSING_ACTIVE"}
    BY <1>1
  <1>2. ASSUME NEW c, CloseSets(c) PROVE \A d \in Ends : state'[d] \in {state[d], "CLOSING_ACTIVE"}
    BY <1>2 DEF CloseSets, TypeOK
  <1>3. ASSUME NEW u \in Users, UserStep(u)
        PROVE  UNCHANGED thread /\ (UNCHANGED state \/ \E c : CloseSets(c))
    BY <1>3
       DEF UserStep, GetConnection, CreateConnection, NewConnection, CreateConnectionThrows, Getting, Connected,
           ConnectTimesOut, ConnectClosing, ConnectClosed, SendRequest, Abandon, EndRequest
  <1>4. ASSUME ShutdownStep
        PROVE  UNCHANGED thread /\ (UNCHANGED state \/ \E c : CloseSets(c))
    BY <1>4 DEF ShutdownStep, Shutdown, ShutdownClosing, ShutdownClosed
  <1>5. QED
    BY <1>1, <1>2, <1>3, <1>4

\* An end that has sent its BYE sends nothing more, and only who takes a BYE
\* closes passively.
LEMMA StepFacts ==
    ASSUME TypeOK, Next, NEW d \in Ends
    PROVE  /\ thread[d] \in {"BYE", "done"} => thread'[d] \in {"BYE", "done"}
           /\ state'[d] = "CLOSING_PASSIVE" =>
                 \/ state[d] = "CLOSING_PASSIVE"
                 \/ input[d] # <<>> /\ Head(input[d]) = BYE /\ input'[d] = Tail(input[d])
  <1> DEFINE Goal == /\ thread[d] \in {"BYE", "done"} => thread'[d] \in {"BYE", "done"}
                     /\ state'[d] = "CLOSING_PASSIVE" =>
                           \/ state[d] = "CLOSING_PASSIVE"
                           \/ input[d] # <<>> /\ Head(input[d]) = BYE /\ input'[d] = Tail(input[d])
  <1> USE DEF ThreadGoes, ends
  <1>1. ASSUME NEW e \in Ends, EndStep(e) PROVE Goal
    <2>1. CASE Start(e) \/ Establish(e) \/ HandshakeFails(e)
      BY <2>1 DEF Start, Establish, HandshakeFails, TypeOK
    <2>2. CASE ReceiveFrame(e)
      BY <2>2 DEF ReceiveFrame, NextRound, TypeOK
    <2>3. CASE ReceiveThrows(e) \/ PollTimesOut(e) \/ IdleTimesOut(e) \/ FrameFails(e)
      BY <2>3 DEF ReceiveThrows, PollTimesOut, IdleTimesOut, FrameFails, NextRound, TypeOK
    <2>4. CASE SendBYE(e) \/ SkipBYE(e)
      BY <2>4 DEF SendBYE, SkipBYE, TypeOK
    <2>5. CASE FinishClose(e) \/ FinishAbort(e)
      BY <2>5 DEF FinishClose, FinishAbort, SocketCloses, TypeOK
    <2>6. QED
      BY <1>1, <2>1, <2>2, <2>3, <2>4, <2>5 DEF EndStep, Thread
  <1>2. ASSUME Elsewhere PROVE Goal
    <2>1. UNCHANGED state
      BY <1>2, ElsewhereKeeps
    <2>2. thread[d] \in {"BYE", "done"} => thread'[d] = thread[d]
      BY <1>2 DEF Elsewhere, Break, Stall, Refuse, NextRound, Answer, Discard, TypeOK
    <2>3. QED
      BY <2>1, <2>2
  <1>3. ASSUME (\E u \in Users : UserStep(u)) \/ ShutdownStep PROVE Goal
    BY <1>3, CallersKeep
  <1>4. QED
    BY <1>1, <1>2, <1>3, Steps


\* Nothing after a BYE.
LEMMA ByesNext ==
    ASSUME TypeOK, Placed, Byes, Next
    PROVE  Byes'
  <1> SUFFICES ASSUME NEW e \in Ends
               PROVE  /\ BYE \in Elements(input'[e]) \/ state'[e] = "CLOSING_PASSIVE"
                            => thread'[Peer(e)] \in {"BYE", "done"}
                      /\ state'[e] = "CLOSING_PASSIVE" => input'[e] = <<>>
                      /\ ByeLast(input'[e])
    BY DEF Byes
  <1>1. /\ thread[Peer(e)] \in {"BYE", "done"} => thread'[Peer(e)] \in {"BYE", "done"}
        /\ state'[e] = "CLOSING_PASSIVE" =>
              \/ state[e] = "CLOSING_PASSIVE"
              \/ input[e] # <<>> /\ Head(input[e]) = BYE /\ input'[e] = Tail(input[e])
    BY StepFacts, EndFacts
  <1>2. /\ BYE \in Elements(input[e]) \/ state[e] = "CLOSING_PASSIVE"
              => thread[Peer(e)] \in {"BYE", "done"}
        /\ state[e] = "CLOSING_PASSIVE" => input[e] = <<>>
        /\ ByeLast(input[e])
    BY DEF Byes
  <1>3. Changed(e)
    BY InputChanges
  <1>4. input[e] \in Seq(Frames)
    BY DEF TypeOK
  <1>5. CASE input[e] # <<>> /\ Head(input[e]) = BYE /\ input'[e] = Tail(input[e])
    <2>1. input'[e] = <<>> /\ BYE \in Elements(input[e])
      BY <1>2, <1>4, <1>5, TailFacts
    <2>2. QED
      BY <1>1, <1>2, <2>1, EmptyFacts
  <1>6. CASE ~(input[e] # <<>> /\ Head(input[e]) = BYE /\ input'[e] = Tail(input[e]))
    <2>1. CASE input'[e] = input[e]
      BY <1>1, <1>2, <1>6, <2>1
    <2>2. CASE input'[e] = <<>>
      BY <1>1, <1>2, <1>6, <2>2, EmptyFacts
    <2>3. CASE input[e] # <<>> /\ input'[e] = Tail(input[e])
      BY <1>1, <1>2, <1>4, <1>6, <2>3, TailFacts
    <2>4. ASSUME NEW f \in Frames, Origin(e, f), input'[e] = Append(input[e], f)
          PROVE  /\ BYE \in Elements(input'[e]) => thread'[Peer(e)] \in {"BYE", "done"}
                 /\ state'[e] # "CLOSING_PASSIVE"
                 /\ ByeLast(input'[e])
      <3>1. thread[Peer(e)] \notin {"BYE", "done"}
        BY <2>4, EndFacts DEF Origin, Placed
      <3>2. f = BYE => thread'[Peer(e)] = "BYE"
        BY <2>4, FrameFacts DEF Origin
      <3>3. BYE \notin Elements(input[e]) /\ state[e] # "CLOSING_PASSIVE"
        BY <1>2, <3>1
      <3>4. Elements(input'[e]) = Elements(input[e]) \cup {f} /\ ByeLast(input'[e])
        BY <1>4, <2>4, <3>3, AppendFacts
      <3>5. QED
        BY <1>1, <1>6, <3>2, <3>3, <3>4
    <2>5. QED
      BY <1>3, <2>1, <2>2, <2>3, <2>4 DEF Changed
  <1>7. QED
    BY <1>5, <1>6

\* Who creates a connection.
LEMMA CreatingNext ==
    ASSUME TypeOK, Placed, Creating, Next
    PROVE  Creating'
  <1> USE DEF ends, manager, users, history
  <1>1. ASSUME UNCHANGED <<connection, pending, user, conn, timedOut, created>>,
               \A c \in Connections : thread'[Client(c)] \in {"new", "HELO"} => thread[Client(c)] \in {"new", "HELO"}
        PROVE  Creating'
    BY <1>1 DEF Creating, Creates
  <1>2. ASSUME NEW e \in Ends, EndStep(e) PROVE Creating'
    <2>1. UNCHANGED <<connection, pending, user, conn, timedOut, created>>
      BY <1>2, EndKeeps
    <2>2. \A d \in Ends : thread'[d] \in {"new", "HELO"} => thread[d] \in {"new", "HELO"}
      <3>1. CASE Start(e) \/ Establish(e) \/ HandshakeFails(e)
        BY <3>1 DEF Start, Establish, HandshakeFails, ThreadGoes, TypeOK
      <3>2. CASE ReceiveFrame(e) \/ ReceiveThrows(e) \/ PollTimesOut(e) \/ IdleTimesOut(e) \/ FrameFails(e)
        BY <3>2 DEF ReceiveFrame, ReceiveThrows, PollTimesOut, IdleTimesOut, FrameFails, NextRound, ThreadGoes, TypeOK
      <3>3. CASE SendBYE(e) \/ SkipBYE(e) \/ FinishClose(e) \/ FinishAbort(e)
        BY <3>3 DEF SendBYE, SkipBYE, FinishClose, FinishAbort, SocketCloses, ThreadGoes, TypeOK
      <3>4. QED
        BY <1>2, <3>1, <3>2, <3>3 DEF EndStep, Thread
    <2>3. QED
      BY <1>1, <2>1, <2>2, EndFacts
  <1>3. ASSUME Elsewhere PROVE Creating'
    <2>1. UNCHANGED <<connection, pending, user, conn, timedOut, created>>
      BY <1>3, ElsewhereKeeps
    <2>2. \A d \in Ends : thread'[d] \in {"new", "HELO"} => thread[d] \in {"new", "HELO"}
      <3>1. \/ UNCHANGED thread
            \/ \E c \in Connections, to \in {"polling", "leaving"} : thread' = [thread EXCEPT ![Server(c)] = to]
        BY <1>3 DEF Elsewhere, Break, Stall, Refuse, NextRound, ThreadGoes, Answer, Discard
      <3>2. QED
        BY <3>1 DEF TypeOK
    <2>3. QED
      BY <1>1, <2>1, <2>2, EndFacts
  <1>4. ASSUME NEW u \in Users, CreateConnection(u) PROVE Creating'
    <2>1. ~pending /\ pending' = TRUE /\ connection' = NoConnection /\ created' = created + 1
          /\ user' = [user EXCEPT ![u] = "waiting"] /\ conn' = [conn EXCEPT ![u] = created']
          /\ UNCHANGED <<thread, timedOut>>
      BY <1>4 DEF CreateConnection, NewConnection, Free
    <2>2. \A v \in Users : ~Creates(v)
      BY <2>1 DEF Creating
    <2>3. \A v \in Users : Creates(v)' <=> v = u
      BY <2>1, <2>2 DEF TypeOK, Creates
    <2>4. ASSUME NEW c \in Connections, thread'[Client(c)] \in {"new", "HELO"}, c <= created'
          PROVE  c \in timedOut' \/ \E v \in Users : Creates(v)' /\ conn'[v] = c
      <3>1. c \in Nat /\ created \in Nat
        BY RemotingAssumption DEF Connections, TypeOK
      <3>2. CASE c <= created
        BY <2>1, <2>2, <2>4, <3>2 DEF Creating
      <3>3. CASE c = created + 1
        BY <2>1, <2>3, <3>3 DEF TypeOK
      <3>4. QED
        BY <2>1, <2>4, <3>1, <3>2, <3>3
    <2>5. QED
      BY <2>1, <2>3, <2>4 DEF Creating
  <1>5. ASSUME NEW u \in Users, Creates(u), pending' = FALSE, user'[u] \notin {"waiting", "closing"},
               \A v \in Users : v # u => user'[v] = user[v],
               timedOut \subseteq timedOut', conn[u] \in timedOut' \/ thread[Client(conn[u])] \notin {"new", "HELO"},
               UNCHANGED <<thread, created>>
        PROVE  Creating'
    <2>1. \A v \in Users : ~Creates(v)'
      BY <1>5 DEF Creating, Creates
    <2>2. \A c \in Connections : thread[Client(c)] \in {"new", "HELO"} /\ c <= created => c \in timedOut'
      BY <1>5 DEF Creating
    <2>3. QED
      BY <1>5, <2>1, <2>2 DEF Creating
  <1>6. ASSUME NEW u \in Users, conn[u] \in Connections
        PROVE  Ready(conn[u]) => thread[Client(conn[u])] \notin {"new", "HELO"}
    BY <1>6, EndFacts DEF Ready, Placed
  <1>7. ASSUME NEW u \in Users, Creates(u) PROVE conn[u] \in Connections
    BY <1>7, RemotingAssumption DEF Creates, TypeOK, Connections, NoConnection
  <1>8. ASSUME NEW u \in Users, Connected(u) PROVE Creating'
    <2>1. /\ Creates(u) /\ Ready(conn[u]) /\ pending' = FALSE
          /\ user' = [user EXCEPT ![u] = "connected"]
          /\ UNCHANGED <<thread, timedOut, created>>
      BY <1>8 DEF Connected, Begin, Creates
    <2>2. QED
      BY <1>5, <1>6, <1>7, <2>1 DEF TypeOK
  <1>9. ASSUME NEW u \in Users, ConnectTimesOut(u) PROVE Creating'
    <2>1. /\ Creates(u) /\ pending' = FALSE
          /\ user' = [user EXCEPT ![u] = "idle"]
          /\ timedOut' = IF Ready(conn[u]) THEN timedOut ELSE timedOut \cup {conn[u]}
          /\ UNCHANGED <<thread, created>>
      BY <1>9 DEF ConnectTimesOut, Ended, Creates
    <2>2. QED
      BY <1>5, <1>6, <1>7, <2>1 DEF TypeOK
  <1>10. ASSUME NEW u \in Users, ConnectClosed(u) PROVE Creating'
    <2>1. /\ Creates(u) /\ pending' = FALSE /\ conn[u] \in closing
          /\ user' = [user EXCEPT ![u] = "idle"]
          /\ UNCHANGED <<thread, timedOut, created>>
      BY <1>10 DEF ConnectClosed, CloseSets, Ended, Creates
    <2>2. thread[Client(conn[u])] \notin {"new", "HELO"}
      BY <2>1 DEF Placed
    <2>3. QED
      BY <1>5, <2>1, <2>2 DEF TypeOK
  <1>11. ASSUME NEW u \in Users, ConnectClosing(u) PROVE Creating'
    <2>1. /\ user[u] = "waiting" /\ user' = [user EXCEPT ![u] = "closing"]
          /\ UNCHANGED <<thread, connection, pending, conn, timedOut, created>>
      BY <1>11 DEF ConnectClosing
    <2>2. \A v \in Users : Creates(v)' <=> Creates(v)
      BY <2>1 DEF Creates, TypeOK
    <2>3. QED
      BY <2>1, <2>2 DEF Creating
  <1>12. ASSUME NEW u \in Users, ~Creates(u), ~Creates(u)', pending => connection' = NoConnection,
                \A v \in Users : v # u => UNCHANGED <<user[v], conn[v]>>,
                UNCHANGED <<thread, pending, timedOut, created>>
         PROVE Creating'
    BY <1>12 DEF Creating, Creates
  <1>13. ASSUME NEW u \in Users,
                \/ GetConnection(u) \/ CreateConnectionThrows(u) \/ SendRequest(u) \/ Abandon(u) \/ EndRequest(u)
         PROVE Creating'
    <2>1. /\ user[u] \notin {"waiting", "closing"} /\ user'[u] \notin {"waiting", "closing"}
          /\ \A v \in Users : v # u => UNCHANGED <<user[v], conn[v]>>
      BY <1>13 DEF GetConnection, Call, Begin, CreateConnectionThrows, SendRequest, SendFrame, Abandon, Leave,
                   EndRequest, Ended, TypeOK
    <2>2. UNCHANGED <<thread, pending, timedOut, created>> /\ connection' \in {connection, NoConnection}
      BY <1>13 DEF GetConnection, CreateConnectionThrows, SendRequest, Abandon, EndRequest
    <2>3. QED
      BY <1>12, <2>1, <2>2 DEF Creating, Creates
  <1>14. ASSUME ShutdownStep PROVE Creating'
    <2>1. UNCHANGED <<thread, pending, user, conn, timedOut, created>>
      BY <1>14, ShutdownKeeps
    <2>2. connection' \in {connection, NoConnection}
      BY <1>14 DEF ShutdownStep, Shutdown, ShutdownClosing, ShutdownClosed
    <2>3. QED
      BY <2>1, <2>2 DEF Creating, Creates
  <1>15. QED
    BY <1>2, <1>3, <1>4, <1>8, <1>9, <1>10, <1>11, <1>13, <1>14, Steps DEF UserStep, Getting

\* No established connection is left to itself.
LEMMA NoStrayNext ==
    ASSUME TypeOK, Placed, Creating, NoStray, Next
    PROVE  NoStray'
  <1> USE DEF ends, manager, users, history
  <1>0. ASSUME NEW u \in Users, Creates(u) PROVE conn[u] \in Connections
    BY <1>0, RemotingAssumption DEF Creates, TypeOK, Connections, NoConnection
  <1>1. ASSUME NEW e \in Ends, EndStep(e) PROVE NoStray'
    <2>1. UNCHANGED <<connection, user, conn, timedOut, created>>
      BY <1>1, EndKeeps
    <2>2. CASE Establish(e)
      <3>1. thread[e] = "HELO" /\ \A d \in Ends : d # e => state'[d] = state[d]
        BY <2>2 DEF Establish, ThreadGoes, TypeOK
      <3>2. e[2] <= created
        <4>1. ~(e[2] > created)
          BY <3>1 DEF Placed
        <4>2. e[2] \in Nat /\ created \in Nat
          BY EndFacts, RemotingAssumption DEF Connections, TypeOK
        <4>3. QED
          BY <4>1, <4>2
      <3>3. \A c \in Connections : Client(c) = e => c = e[2]
        BY EndFacts
      <3>4. ASSUME NEW c \in Connections, state'[Client(c)] = "ESTABLISHED"
            PROVE  connection = c \/ c \in timedOut \/ \E u \in Users : Creates(u) /\ conn[u] = c
        <4>1. CASE Client(c) = e
          BY <3>1, <3>2, <3>3, <4>1 DEF Creating
        <4>2. CASE Client(c) # e
          BY <3>1, <3>4, <4>2, EndFacts DEF NoStray
        <4>3. QED
          BY <4>1, <4>2
      <3>5. QED
        BY <2>1, <3>4 DEF NoStray, Creates
    <2>3. CASE ~Establish(e)
      <3>1. \A d \in Ends : state'[d] = "ESTABLISHED" => state[d] = "ESTABLISHED"
        <4>1. CASE Start(e) \/ HandshakeFails(e) \/ ReceiveFrame(e)
          BY <4>1 DEF Start, HandshakeFails, ReceiveFrame, TypeOK
        <4>2. CASE ReceiveThrows(e) \/ PollTimesOut(e) \/ IdleTimesOut(e) \/ FrameFails(e)
          BY <4>2 DEF ReceiveThrows, PollTimesOut, IdleTimesOut, FrameFails, TypeOK
        <4>3. CASE SendBYE(e) \/ SkipBYE(e) \/ FinishClose(e) \/ FinishAbort(e)
          BY <4>3 DEF SendBYE, SkipBYE, FinishClose, FinishAbort, TypeOK
        <4>4. QED
          BY <1>1, <2>3, <4>1, <4>2, <4>3 DEF EndStep, Thread
      <3>2. QED
        BY <2>1, <3>1, EndFacts DEF NoStray, Creates
    <2>4. QED
      BY <2>2, <2>3
  <1>2. ASSUME Elsewhere PROVE NoStray'
    BY <1>2, ElsewhereKeeps DEF NoStray, Creates
  <1>3. ASSUME NEW u \in Users, CreateConnection(u) PROVE NoStray'
    <2>1. /\ ~Usable /\ connection' = NoConnection /\ ~pending
          /\ UNCHANGED <<state, timedOut>>
      BY <1>3 DEF CreateConnection, NewConnection, Free
    <2>2. \A v \in Users : ~Creates(v)
      BY <2>1 DEF Creating
    <2>3. \A c \in Connections : state[Client(c)] = "ESTABLISHED" => c \in timedOut
      BY <2>1, <2>2 DEF NoStray, Usable, Connections, NoConnection
    <2>4. QED
      BY <2>1, <2>3 DEF NoStray
  <1>4. ASSUME NEW u \in Users, Connected(u) PROVE NoStray'
    <2>1. /\ Creates(u) /\ connection' = conn[u] /\ UNCHANGED <<state, timedOut>>
      BY <1>4 DEF Connected, Creates
    <2>2. connection = NoConnection /\ \A v \in Users : Creates(v) => v = u
      BY <2>1 DEF Creating
    <2>3. QED
      BY <2>1, <2>2 DEF NoStray, Connections, NoConnection
  <1>5. ASSUME NEW u \in Users, Creates(u), state'[Client(conn[u])] # "ESTABLISHED",
               \A d \in Ends : state'[d] \in {state[d], "CLOSING_ACTIVE"},
               timedOut \subseteq timedOut', UNCHANGED connection
        PROVE  NoStray'
    <2>1. \A v \in Users : Creates(v) => v = u
      BY <1>5 DEF Creating
    <2>2. \A c \in Connections : state'[Client(c)] = "ESTABLISHED" => c # conn[u] /\ state[Client(c)] = "ESTABLISHED"
      BY <1>5, EndFacts
    <2>3. QED
      BY <1>5, <2>1, <2>2 DEF NoStray
  <1>6. ASSUME NEW u \in Users, ConnectTimesOut(u) \/ ConnectClosed(u) PROVE NoStray'
    <2>1. Creates(u) /\ timedOut \subseteq timedOut' /\ UNCHANGED connection
      BY <1>6 DEF ConnectTimesOut, ConnectClosed, Creates
    <2>2. state'[Client(conn[u])] # "ESTABLISHED"
      <3>1. Client(conn[u]) \in Ends
        BY <1>0, <2>1, EndFacts
      <3>2. QED
        BY <1>6, <3>1 DEF ConnectTimesOut, ConnectClosed, CloseSets, TypeOK
    <2>3. \A d \in Ends : state'[d] \in {state[d], "CLOSING_ACTIVE"}
      BY <1>6, CallersKeep DEF UserStep, Getting
    <2>4. QED
      BY <1>5, <2>1, <2>2, <2>3
  <1>7. ASSUME NEW u \in Users, ConnectClosing(u) PROVE NoStray'
    BY <1>7 DEF ConnectClosing, NoStray, Creates, TypeOK
  <1>8. ASSUME NEW u \in Users, CreateConnectionThrows(u) PROVE NoStray'
    BY <1>8 DEF CreateConnectionThrows, Usable, NoStray, Creates, Connections, NoConnection
  <1>9. ASSUME NEW u \in Users, GetConnection(u) \/ SendRequest(u) \/ Abandon(u) \/ EndRequest(u) PROVE NoStray'
    <2>1. UNCHANGED <<state, connection, timedOut>>
      BY <1>9 DEF GetConnection, SendRequest, Abandon, EndRequest
    <2>2. /\ user[u] \notin {"waiting", "closing"}
          /\ \A v \in Users : v # u => UNCHANGED <<user[v], conn[v]>>
      BY <1>9 DEF GetConnection, Call, Begin, SendRequest, SendFrame, Abandon, Leave, EndRequest, Ended, TypeOK
    <2>3. QED
      BY <2>1, <2>2 DEF NoStray, Creates
  <1>10. ASSUME ShutdownStep PROVE NoStray'
    <2>1. UNCHANGED <<user, conn, timedOut>>
      BY <1>10, ShutdownKeeps
    <2>2. \/ UNCHANGED <<state, connection>>
          \/ connection # NoConnection /\ state'[Client(connection)] # "ESTABLISHED"
      <3>1. connection # NoConnection => Client(connection) \in Ends
        BY EndFacts, RemotingAssumption DEF TypeOK, Connections, NoConnection
      <3>2. connection \in closing => connection # NoConnection
        BY DEF TypeOK, NoConnection
      <3>3. QED
        BY <1>10, <3>1, <3>2 DEF ShutdownStep, Shutdown, ShutdownClosing, ShutdownClosed, CloseSets, Usable, TypeOK
    <2>3. \A d \in Ends : state'[d] \in {state[d], "CLOSING_ACTIVE"}
      BY <1>10, CallersKeep
    <2>4. ASSUME NEW c \in Connections, state'[Client(c)] = "ESTABLISHED", connection # NoConnection,
                 state'[Client(connection)] # "ESTABLISHED"
          PROVE  c \in timedOut \/ \E u \in Users : Creates(u) /\ conn[u] = c
      BY <2>3, <2>4, EndFacts DEF NoStray
    <2>5. QED
      BY <2>1, <2>2, <2>4 DEF NoStray, Creates
  <1>11. QED
    BY <1>1, <1>2, <1>3, <1>4, <1>6, <1>7, <1>8, <1>9, <1>10, Steps DEF UserStep, Getting

\* A request that is left in a stream was there before, or is that of a call that
\* fails.
LEMMA LeftBehind ==
    ASSUME Next, NEW s \in leftover', s \notin leftover
    PROVE  \E u \in Users :
              /\ Keeps(u)
              /\ s = [user |-> u, conn |-> conn[u], channel |-> channel[u], request |-> request[u]]
  <1>1. PICK u \in Users : UserStep(u)
    BY Steps, EndKeeps, ElsewhereKeeps, ShutdownKeeps DEF users
  <1>2. SendRequest(u) \/ Abandon(u)
    BY <1>1, UserKeeps
  <1>3. Keeps(u)
    BY <1>2, Fails
  <1>4. QED
    BY <1>3 DEF Keeps, Leave

\* What flies was flying before, or is the request that a Transport sends, or
\* leaves behind.
LEMMA FlyingNext ==
    ASSUME TypeOK, Next, NEW c, NEW ch, NEW r, Flying(c, ch, r)'
    PROVE  \/ Flying(c, ch, r)
           \/ \E u \in Users : /\ Requests(u) \/ Keeps(u)
                             /\ conn[u] = c /\ channel[u] = ch /\ request[u] = r
  <1> DEFINE Goal == \/ Flying(c, ch, r)
                     \/ \E u \in Users : /\ Requests(u) \/ Keeps(u)
                                       /\ conn[u] = c /\ channel[u] = ch /\ request[u] = r
  <1>1. ASSUME NEW e \in Ends, NEW f \in Elements(input'[e]),
               e[2] = c, f.type \in {"REQU", "REPL"}, f.channel = ch, f.request = r
        PROVE  Goal
    <2>1. input[e] \in Seq(Frames) /\ Changed(e)
      BY InputChanges DEF TypeOK
    <2>2. CASE f \in Elements(input[e])
      BY <1>1, <2>2 DEF Flying
    <2>3. CASE f \notin Elements(input[e])
      <3>1. PICK g \in Frames : Origin(e, g) /\ input'[e] = Append(input[e], g)
        BY <1>1, <2>1, <2>3, TailFacts, EmptyFacts DEF Changed
      <3>2. f = g
        BY <1>1, <2>1, <2>3, <3>1, AppendFacts
      <3>3. HELO.type = "HELO" /\ BYE.type = "BYE"
        BY DEF HELO, BYE
      <3>4. CASE \E u \in Users : /\ Requests(u) /\ conn[u] \in Connections
                                  /\ e = Server(conn[u]) /\ f = REQU(channel[u], request[u])
        BY <1>1, <3>4 DEF REQU, Server
      <3>5. CASE \E s \in serving : /\ Answer(s) /\ s.conn \in Connections
                                    /\ e = Client(s.conn) /\ f = REPL(s.channel, s.request)
        BY <1>1, <3>5 DEF REPL, Client, Flying
      <3>6. CASE \E s \in leftover : /\ Discard(s) /\ s.conn \in Connections
                                     /\ e = Server(s.conn) /\ f = REQU(s.channel, s.request)
        BY <1>1, <3>6 DEF REQU, Server, Flying
      <3>7. CASE \E d \in Connections, h \in Frames :
                    /\ Refuse(d) /\ input[Server(d)] # <<>> /\ h = Head(input[Server(d)])
                    /\ e = Client(d) /\ f = REPL(h.channel, h.request)
        <4>1. PICK d \in Connections, h \in Frames :
                    /\ Refuse(d) /\ input[Server(d)] # <<>> /\ h = Head(input[Server(d)])
                    /\ e = Client(d) /\ f = REPL(h.channel, h.request)
          BY <3>7
        <4>2. Server(d) \in Ends /\ Server(d)[2] = d /\ e[2] = d
          BY <4>1, EndFacts DEF Server, Client
        <4>3. h \in Elements(input[Server(d)]) /\ h.type = "REQU"
          BY <4>1, <4>2, TailFacts DEF Refuse, TypeOK
        <4>4. h.channel = ch /\ h.request = r
          BY <1>1, <4>1 DEF REPL
        <4>5. QED
          BY <1>1, <4>2, <4>3, <4>4 DEF Flying
      <3>8. QED
        BY <1>1, <3>1, <3>2, <3>3, <3>4, <3>5, <3>6, <3>7 DEF Origin
    <2>4. QED
      BY <2>2, <2>3
  <1>2. ASSUME NEW s \in serving', s.conn = c, s.channel = ch, s.request = r
        PROVE  Goal
    <2>1. CASE s \in serving
      BY <1>2, <2>1 DEF Flying
    <2>2. CASE s \notin serving
      <3>1. PICK e \in Ends : ReceiveFrame(e)
        BY <1>2, <2>2, Steps, EndKeeps, ElsewhereKeeps, UserKeeps, ShutdownKeeps
      <3>2. input[e] \in Seq(Frames) /\ input[e] # <<>>
        BY <3>1 DEF ReceiveFrame, TypeOK
      <3>3. Head(input[e]) \in Elements(input[e])
        BY <3>2, TailFacts
      <3>4. /\ Head(input[e]).type = "REQU"
            /\ s = [conn |-> e[2], channel |-> Head(input[e]).channel, request |-> Head(input[e]).request]
        BY <2>2, <3>1 DEF ReceiveFrame, HandleFrame, Serve
      <3>5. QED
        BY <1>2, <3>3, <3>4 DEF Flying
    <2>3. QED
      BY <2>1, <2>2
  <1>3. ASSUME NEW s \in leftover', s.conn = c, s.channel = ch, s.request = r
        PROVE  Goal
    BY <1>3, LeftBehind DEF Flying
  <1>4. QED
    BY <1>1, <1>2, <1>3 DEF Flying

\* Channels keep to their request when nobody begins a call, though a reply may
\* be given to whom it belongs.
LEMMA TaggedKept ==
    ASSUME TypeOK, Tagged, Next, UNCHANGED nextChannel,
           \A u \in Users, c \in Connections :
               Talking(u, c)' => Talking(u, c) /\ UNCHANGED <<channel[u], request[u]>>,
           \A u \in Users : reply'[u] # NoRequest => user'[u] = "replying" /\ reply'[u] = request'[u]
    PROVE  Tagged'
  <1>1. ASSUME NEW c \in Connections, NEW ch \in Nat, NEW r \in 0..MaxRequests, Flying(c, ch, r)'
        PROVE  /\ ch < nextChannel[c]
               /\ \A u \in Users : Talking(u, c) /\ channel[u] = ch => request[u] = r
    <2>1. CASE Flying(c, ch, r)
      BY <2>1 DEF Tagged
    <2>2. CASE \E u \in Users : /\ Requests(u) \/ Keeps(u)
                               /\ conn[u] = c /\ channel[u] = ch /\ request[u] = r
      BY <2>2 DEF Tagged, Talking, Requests, Keeps, SendRequest
    <2>3. QED
      BY <1>1, <2>1, <2>2, FlyingNext
  <1>2. \A u \in Users, c \in Connections : Talking(u, c)' => channel'[u] < nextChannel'[c]
    BY DEF Tagged
  <1>3. \A c \in Connections : \A u, v \in Users :
            Talking(u, c)' /\ Talking(v, c)' /\ channel'[u] = channel'[v] => u = v
    BY DEF Tagged
  <1>4. \A c \in Connections, ch \in Nat, r \in 0..MaxRequests :
            Flying(c, ch, r)' => /\ ch < nextChannel'[c]
                                 /\ \A u \in Users : Talking(u, c)' /\ channel'[u] = ch => request'[u] = r
    BY <1>1
  <1>5. QED
    BY <1>2, <1>3, <1>4 DEF Tagged

\* A new channel of a connection is nobody's.
LEMMA TaggedBegin ==
    ASSUME TypeOK, Tagged, NEW u \in Users, NEW c \in Connections, Begin(u, c),
           user[u] \notin {"connected", "replying"},
           UNCHANGED <<input, serving, leftover, reply>>,
           \A v \in Users : v # u => UNCHANGED request[v]
    PROVE  Tagged'
  <1>1. /\ \A v \in Users : v # u => UNCHANGED <<user[v], conn[v], channel[v]>>
        /\ channel'[u] = nextChannel[c] /\ conn'[u] = c /\ user'[u] = "connected"
        /\ nextChannel'[c] = nextChannel[c] + 1 /\ nextChannel[c] \in Nat
        /\ \A d \in Connections : d # c => nextChannel'[d] = nextChannel[d]
    BY DEF Begin, AllocChannel, TypeOK
  <1>2. \A v \in Users : channel[v] \in Nat
    BY DEF TypeOK
  <1>3. \A d \in Connections : nextChannel[d] \in Nat /\ nextChannel'[d] \in Nat /\ nextChannel'[d] >= nextChannel[d]
    <2> SUFFICES ASSUME NEW d \in Connections
                 PROVE  nextChannel[d] \in Nat /\ nextChannel'[d] \in Nat /\ nextChannel'[d] >= nextChannel[d]
      OBVIOUS
    <2>1. nextChannel[d] \in Nat
      BY DEF TypeOK
    <2>2. nextChannel'[d] = nextChannel[d] \/ nextChannel'[d] = nextChannel[d] + 1
      BY <1>1
    <2>3. QED
      BY <2>1, <2>2
  <1>4. \A v \in Users, d \in Connections : v # u => (Talking(v, d)' <=> Talking(v, d))
    BY <1>1 DEF Talking
  <1>5. \A d \in Connections : Talking(u, d)' <=> d = c
    BY <1>1 DEF Talking
  <1>6. \A v \in Users, d \in Connections : Talking(v, d)' => channel'[v] < nextChannel'[d]
    BY <1>1, <1>2, <1>3, <1>4, <1>5 DEF Tagged
  <1>7. \A v \in Users, d \in Connections : v # u /\ Talking(v, d)' => ~(d = c /\ channel'[v] = channel'[u])
    BY <1>1, <1>2, <1>4 DEF Tagged
  <1>8. \A d \in Connections : \A v, w \in Users :
            Talking(v, d)' /\ Talking(w, d)' /\ channel'[v] = channel'[w] => v = w
    BY <1>1, <1>4, <1>5, <1>7 DEF Tagged
  <1>9. \A d \in Connections, ch \in Nat, r \in 0..MaxRequests : Flying(d, ch, r)' <=> Flying(d, ch, r)
    BY DEF Flying
  <1>10. ASSUME NEW d \in Connections, NEW ch \in Nat, NEW r \in 0..MaxRequests, Flying(d, ch, r)'
         PROVE  /\ ch < nextChannel'[d]
                /\ \A v \in Users : Talking(v, d)' /\ channel'[v] = ch => request'[v] = r
    <2>1. /\ ch < nextChannel[d]
          /\ \A v \in Users : Talking(v, d) /\ channel[v] = ch => request[v] = r
      BY <1>9, <1>10 DEF Tagged
    <2>2. ch < nextChannel'[d]
      BY <1>3, <2>1
    <2>3. Talking(u, d)' => channel'[u] # ch
      BY <1>1, <1>5, <2>1
    <2>4. QED
      BY <1>1, <1>4, <2>1, <2>2, <2>3
  <1>11. \A v \in Users : reply'[v] # NoRequest => user'[v] = "replying" /\ reply'[v] = request'[v]
    BY <1>1 DEF Tagged
  <1>12. QED
    BY <1>6, <1>8, <1>10, <1>11 DEF Tagged

\* Replies and the requests they are given to.
LEMMA TaggedNext ==
    ASSUME TypeOK, Tagged, Next
    PROVE  Tagged'
  <1> USE DEF ends, manager, users, history
  <1>1. ASSUME UNCHANGED <<user, conn, channel, request, reply, nextChannel>> PROVE Tagged'
    <2>1. \A u \in Users, c \in Connections : Talking(u, c)' => Talking(u, c) /\ UNCHANGED <<channel[u], request[u]>>
      BY <1>1 DEF Talking
    <2>2. \A u \in Users : reply'[u] # NoRequest => user'[u] = "replying" /\ reply'[u] = request'[u]
      BY <1>1 DEF Tagged
    <2>3. QED
      BY <1>1, <2>1, <2>2, TaggedKept
  <1>2. ASSUME NEW u \in Users, Ended(u) PROVE Tagged'
    <2>1. \A v \in Users : v # u => UNCHANGED <<user[v], conn[v], channel[v], request[v], reply[v]>>
      BY <1>2 DEF Ended, TypeOK
    <2>2. user'[u] = "idle" /\ reply'[u] = NoRequest /\ UNCHANGED nextChannel
      BY <1>2 DEF Ended, TypeOK
    <2>3. \A v \in Users, c \in Connections : Talking(v, c)' => Talking(v, c) /\ UNCHANGED <<channel[v], request[v]>>
      BY <2>1, <2>2 DEF Talking
    <2>4. \A v \in Users : reply'[v] # NoRequest => user'[v] = "replying" /\ reply'[v] = request'[v]
      BY <2>1, <2>2 DEF Tagged
    <2>5. QED
      BY <2>2, <2>3, <2>4, TaggedKept
  <1>3. ASSUME NEW u \in Users, user[u] = "connected", SendFrame(u) PROVE Tagged'
    <2>1. /\ user' = [user EXCEPT ![u] = "replying"]
          /\ UNCHANGED <<conn, channel, request, reply, nextChannel>>
      BY <1>3 DEF SendFrame
    <2>2. \A v \in Users, c \in Connections : Talking(v, c)' => Talking(v, c) /\ UNCHANGED <<channel[v], request[v]>>
      BY <1>3, <2>1 DEF Talking, TypeOK
    <2>3. \A v \in Users : reply'[v] # NoRequest => user'[v] = "replying" /\ reply'[v] = request'[v]
      BY <2>1 DEF Tagged, TypeOK
    <2>4. QED
      BY <2>1, <2>2, <2>3, TaggedKept
  <1>4. ASSUME NEW e \in Ends, ReceiveFrame(e) PROVE Tagged'
    <2> DEFINE f == Head(input[e])
    <2>1. /\ UNCHANGED <<user, conn, channel, request, nextChannel>>
          /\ reply' = [v \in Users |-> IF v \in Takers(e[2], f) /\ reply[v] = NoRequest
                                         THEN f.request ELSE reply[v]]
      BY <1>4 DEF ReceiveFrame, HandleFrame, Give
    <2>2. f \in Frames /\ f \in Elements(input[e])
      BY <1>4, TailFacts DEF ReceiveFrame, TypeOK
    <2> HIDE DEF f
    <2>3. \A v \in Users, c \in Connections : Talking(v, c)' => Talking(v, c) /\ UNCHANGED <<channel[v], request[v]>>
      BY <2>1 DEF Talking
    <2>4. ASSUME NEW v \in Takers(e[2], f) PROVE v \in Users /\ user[v] = "replying" /\ request[v] = f.request
      <3>1. /\ v \in Users /\ user[v] = "replying" /\ conn[v] = e[2] /\ channel[v] = f.channel
            /\ f.type = "REPL"
        BY DEF Takers
      <3>2. Flying(e[2], f.channel, f.request)
        BY <2>2, <3>1 DEF Flying
      <3>3. f.channel \in Nat /\ f.request \in 0..MaxRequests /\ e[2] \in Connections
        BY <2>2, EndFacts DEF Frames
      <3>4. QED
        BY <3>1, <3>2, <3>3 DEF Tagged, Talking
    <2>5. \A v \in Users : reply'[v] # NoRequest => user'[v] = "replying" /\ reply'[v] = request'[v]
      BY <2>1, <2>4 DEF Tagged
    <2>6. QED
      BY <2>1, <2>3, <2>5, TaggedKept
  <1>5. ASSUME NEW u \in Users, GetConnection(u) PROVE Tagged'
    <2>1. /\ user[u] = "idle" /\ connection \in Connections /\ Begin(u, connection)
          /\ UNCHANGED <<input, serving, leftover, reply>>
          /\ \A v \in Users : v # u => UNCHANGED request[v]
      BY <1>5, RemotingAssumption DEF GetConnection, Call, Usable, TypeOK, Connections, NoConnection
    <2>2. QED
      BY <2>1, TaggedBegin
  <1>6. ASSUME NEW u \in Users, Connected(u) PROVE Tagged'
    <2>1. /\ user[u] = "waiting" /\ conn[u] \in Connections /\ Begin(u, conn[u])
          /\ UNCHANGED <<input, serving, leftover, reply, request>>
      BY <1>6, RemotingAssumption DEF Connected, TypeOK, Connections, NoConnection
    <2>2. QED
      BY <2>1, TaggedBegin
  <1>7. ASSUME NEW u \in Users, CreateConnection(u) PROVE Tagged'
    <2>1. /\ user[u] = "idle" /\ user' = [user EXCEPT ![u] = "waiting"]
          /\ \A v \in Users : v # u => UNCHANGED <<conn[v], request[v]>>
          /\ UNCHANGED <<channel, reply, nextChannel>>
      BY <1>7 DEF CreateConnection, NewConnection, Call, TypeOK
    <2>2. \A v \in Users, c \in Connections : Talking(v, c)' => Talking(v, c) /\ UNCHANGED <<channel[v], request[v]>>
      BY <2>1 DEF Talking, TypeOK
    <2>3. \A v \in Users : reply'[v] # NoRequest => user'[v] = "replying" /\ reply'[v] = request'[v]
      BY <2>1 DEF Tagged, TypeOK
    <2>4. QED
      BY <2>1, <2>2, <2>3, TaggedKept
  <1>8. ASSUME NEW u \in Users, ConnectClosing(u) PROVE Tagged'
    <2>1. /\ user[u] = "waiting" /\ user' = [user EXCEPT ![u] = "closing"]
          /\ UNCHANGED <<conn, channel, request, reply, nextChannel>>
      BY <1>8 DEF ConnectClosing
    <2>2. \A v \in Users, c \in Connections : Talking(v, c)' => Talking(v, c) /\ UNCHANGED <<channel[v], request[v]>>
      BY <2>1 DEF Talking, TypeOK
    <2>3. \A v \in Users : reply'[v] # NoRequest => user'[v] = "replying" /\ reply'[v] = request'[v]
      BY <2>1 DEF Tagged, TypeOK
    <2>4. QED
      BY <2>1, <2>2, <2>3, TaggedKept
  <1>9. ASSUME NEW e \in Ends, EndStep(e) PROVE Tagged'
    BY <1>1, <1>4, <1>9, EndKeeps
  <1>10. ASSUME Elsewhere \/ ShutdownStep PROVE Tagged'
    BY <1>1, <1>10, ElsewhereKeeps, ShutdownKeeps
  <1>11. ASSUME NEW u \in Users, SendRequest(u) \/ Abandon(u) PROVE Tagged'
    BY <1>2, <1>3, <1>11, Fails DEF SendRequest, Keeps, Leave
  <1>12. ASSUME NEW u \in Users, UserStep(u) PROVE Tagged'
    BY <1>1, <1>2, <1>5, <1>6, <1>7, <1>8, <1>11, <1>12
       DEF UserStep, CreateConnectionThrows, Getting, ConnectTimesOut, ConnectClosed, EndRequest
  <1>13. QED
    BY <1>9, <1>10, <1>12, Steps

-----------------------------------------------------------------------------
(* The invariant, and the theorems. *)

\* The invariant is inductive.
LEMMA NextInv == Inv /\ [Next]_vars => Inv'
  <1> SUFFICES ASSUME Inv, [Next]_vars PROVE Inv'
    OBVIOUS
  <1>1. CASE Next
    <2>1. TypeOK' /\ Placed'
      BY <1>1, TypeNext, PlacedNext DEF Inv
    <2>2. Byes' /\ Creating' /\ NoStray' /\ Tagged'
      BY <1>1, ByesNext, CreatingNext, NoStrayNext, TaggedNext DEF Inv
    <2>3. QED
      BY <2>1, <2>2 DEF Inv
  <1>2. CASE UNCHANGED vars
    <2>1. TypeOK' /\ Placed' /\ NoStray'
      BY <1>2 DEF Inv, vars, ends, manager, users, history, TypeOK, Placed, NoStray, Ready, Creates
    <2>2. Byes' /\ Creating'
      BY <1>2 DEF Inv, vars, ends, manager, users, history, Byes, Creating, Creates
    <2>3. Tagged'
      <3>1. \A c, ch, r : Flying(c, ch, r)' <=> Flying(c, ch, r)
        BY <1>2 DEF vars, ends, users, Flying
      <3>2. \A u, c : Talking(u, c)' <=> Talking(u, c)
        BY <1>2 DEF vars, users, Talking
      <3>3. UNCHANGED <<user, channel, request, reply, nextChannel>>
        BY <1>2 DEF vars, users
      <3>4. QED
        BY <3>1, <3>2, <3>3 DEF Inv, Tagged
    <2>4. QED
      BY <2>1, <2>2, <2>3 DEF Inv
  <1>3. QED
    BY <1>1, <1>2

LEMMA InvHolds == Spec => []Inv
  BY InitInv, NextInv, PTL DEF Spec

\* Connections, the manager and the users keep their types: only what has been
\* created takes part, and the manager keeps no connection whose handshake has
\* not ended.
THEOREM TypeCorrect == Spec => []TypeOK
  <1>1. Inv => TypeOK
    BY DEF Inv
  <1>2. QED
    BY <1>1, InvHolds, PTL

\* No frame follows the BYE of a connection's thread, however close() and
\* sendFrame() of other threads interleave with it.
THEOREM NothingAfterByeHolds == Spec => []NothingAfterBye
  <1>1. Inv => NothingAfterBye
    BY DEF Inv, Byes, ByeLast, NothingAfterBye
  <1>2. QED
    BY <1>1, InvHolds, PTL

\* An established connection that is not the manager's is on the way to it, or
\* was given up by waitReady().
THEOREM NoStrayHolds == Spec => []NoStray
  <1>1. Inv => NoStray
    BY DEF Inv
  <1>2. QED
    BY <1>1, InvHolds, PTL

\* A request gets no other request's reply, however late that is.
THEOREM ReplyMatchesHolds == Spec => []ReplyMatches
  <1>1. Inv => ReplyMatches
    BY DEF Inv, Tagged, ReplyMatches
  <1>2. QED
    BY <1>1, InvHolds, PTL

-----------------------------------------------------------------------------
(* The handshake comes before the requests. *)

\* A client is established, or has the server's HELO, after the server's thread
\* has done its part; a user gets a connection whose handshake has ended.
Handshaken ==
    \A c \in Connections :
        /\ state[Client(c)] = "ESTABLISHED" \/ (\E f \in Elements(input[Client(c)]) : f.type = "HELO")
              => thread[Server(c)] \notin {"new", "HELO"}
        /\ \A u \in Users : Talking(u, c) => Ready(c)

\* What a step does to the state and the thread of an end.
LEMMA StateSteps ==
    ASSUME TypeOK, Placed, Next, NEW d \in Ends
    PROVE  /\ thread'[d] \in {"new", "HELO"} => thread[d] \in {"new", "HELO"}
           /\ state'[d] = "ESTABLISHED" => state[d] = "ESTABLISHED" \/ Establish(d)
           /\ state'[d] \in {"PRE_HANDSHAKE", "HANDSHAKE"} => state[d] \in {"PRE_HANDSHAKE", "HANDSHAKE"}
           /\ thread'[d] = "polling" => thread[d] = "polling" \/ Establish(d)
  <1> DEFINE Goal == /\ thread'[d] \in {"new", "HELO"} => thread[d] \in {"new", "HELO"}
                     /\ state'[d] = "ESTABLISHED" => state[d] = "ESTABLISHED" \/ Establish(d)
                     /\ state'[d] \in {"PRE_HANDSHAKE", "HANDSHAKE"} => state[d] \in {"PRE_HANDSHAKE", "HANDSHAKE"}
                     /\ thread'[d] = "polling" => thread[d] = "polling" \/ Establish(d)
  <1> USE DEF ThreadGoes, ends
  <1>1. ASSUME UNCHANGED <<state, thread>> PROVE Goal
    BY <1>1
  <1>2. ASSUME NEW e \in Ends, EndStep(e) PROVE Goal
    <2>1. CASE Start(e)
      BY <2>1 DEF Start, TypeOK, Placed
    <2>2. CASE Establish(e)
      <3>1. /\ state' = [state EXCEPT ![e] = "ESTABLISHED"] /\ thread' = [thread EXCEPT ![e] = "polling"]
        BY <2>2 DEF Establish
      <3>2. QED
        BY <2>2, <3>1 DEF TypeOK
    <2>3. CASE HandshakeFails(e)
      BY <2>3 DEF HandshakeFails, TypeOK
    <2>4. CASE ReceiveFrame(e)
      BY <2>4 DEF ReceiveFrame, NextRound, TypeOK
    <2>5. CASE ReceiveThrows(e) \/ PollTimesOut(e) \/ IdleTimesOut(e) \/ FrameFails(e)
      BY <2>5 DEF ReceiveThrows, PollTimesOut, IdleTimesOut, FrameFails, NextRound, TypeOK
    <2>6. CASE SendBYE(e) \/ SkipBYE(e)
      BY <2>6 DEF SendBYE, SkipBYE, TypeOK
    <2>7. CASE FinishClose(e) \/ FinishAbort(e)
      BY <2>7 DEF FinishClose, FinishAbort, SocketCloses, TypeOK
    <2>8. QED
      BY <1>2, <2>1, <2>2, <2>3, <2>4, <2>5, <2>6, <2>7 DEF EndStep, Thread
  <1>3. ASSUME Elsewhere PROVE Goal
    <2>1. UNCHANGED state
      BY <1>3, ElsewhereKeeps
    <2>2. /\ thread'[d] \in {"new", "HELO"} => thread[d] \in {"new", "HELO"}
          /\ thread'[d] = "polling" => thread[d] = "polling"
      BY <1>3 DEF Elsewhere, Break, Stall, Refuse, NextRound, Answer, Discard, TypeOK
    <2>3. QED
      BY <2>1, <2>2
  <1>4. ASSUME (\E u \in Users : UserStep(u)) \/ ShutdownStep PROVE Goal
    <2>1. UNCHANGED thread /\ state'[d] \in {state[d], "CLOSING_ACTIVE"}
      BY <1>4, CallersKeep
    <2>2. QED
      BY <2>1
  <1>5. QED
    BY <1>2, <1>3, <1>4, Steps

\* A call that v begins gets the next number.
Begins(v) ==
    /\ user[v] = "idle" /\ user'[v] \in {"waiting", "connected"}
    /\ request'[v] = requests + 1 /\ requests' = requests + 1
    /\ \A w \in Users : w # v => request'[w] = request[w]

\* A call that v is in goes on.
GoesOn(v) ==
    /\ user[v] # "idle" /\ user'[v] # "idle" /\ request'[v] = request[v]
    /\ user[v] = "replying" => user'[v] = "replying" /\ UNCHANGED <<conn[v], channel[v]>>
    /\ user'[v] = "replying" => user[v] = "replying" \/ Requests(v)

\* What a step does to a user.
LEMMA UserSteps ==
    ASSUME TypeOK, Next, NEW v \in Users
    PROVE  /\ \/ user'[v] = "idle" /\ (request'[v] = NoRequest \/ UNCHANGED <<user[v], request[v]>>)
              \/ GoesOn(v)
              \/ Begins(v)
           /\ \A c \in Connections : Talking(v, c)' => Talking(v, c) \/ (Ready(c) /\ UNCHANGED state)
  <1> DEFINE Goal ==
           /\ \/ user'[v] = "idle" /\ (request'[v] = NoRequest \/ UNCHANGED <<user[v], request[v]>>)
              \/ GoesOn(v)
              \/ Begins(v)
           /\ \A c \in Connections : Talking(v, c)' => Talking(v, c) \/ (Ready(c) /\ UNCHANGED state)
  <1> USE DEF ends, users, history
  <1>1. ASSUME UNCHANGED <<user[v], conn[v], channel[v], request[v]>> PROVE Goal
    BY <1>1 DEF GoesOn, Talking
  <1>2. ASSUME (\E e \in Ends : EndStep(e)) \/ Elsewhere \/ ShutdownStep PROVE Goal
    <2>1. UNCHANGED <<user, conn, channel, request>>
      BY <1>2, EndKeeps, ElsewhereKeeps, ShutdownKeeps
    <2>2. QED
      BY <1>1, <2>1
  <1>3. ASSUME NEW u \in Users, GetConnection(u) PROVE Goal
    <2>1. /\ user[u] = "idle" /\ user' = [user EXCEPT ![u] = "connected"]
          /\ conn' = [conn EXCEPT ![u] = connection] /\ channel' = [channel EXCEPT ![u] = nextChannel[connection]]
          /\ request' = [request EXCEPT ![u] = requests + 1] /\ requests' = requests + 1
          /\ UNCHANGED state
      BY <1>3 DEF GetConnection, Call, Begin, AllocChannel
    <2>2. Ready(connection)
      BY <1>3 DEF GetConnection, Usable, Ready
    <2>3. CASE v = u
      BY <2>1, <2>2, <2>3 DEF TypeOK, Begins, Talking
    <2>4. CASE v # u
      BY <2>1, <2>4 DEF TypeOK, GoesOn, Talking
    <2>5. QED
      BY <2>3, <2>4
  <1>4. ASSUME NEW u \in Users, CreateConnection(u) PROVE Goal
    <2>1. /\ user[u] = "idle" /\ user' = [user EXCEPT ![u] = "waiting"]
          /\ conn' = [conn EXCEPT ![u] = created'] /\ UNCHANGED channel
          /\ request' = [request EXCEPT ![u] = requests + 1] /\ requests' = requests + 1
      BY <1>4 DEF CreateConnection, NewConnection, Call
    <2>2. CASE v = u
      BY <2>1, <2>2 DEF TypeOK, Begins, Talking
    <2>3. CASE v # u
      BY <2>1, <2>3 DEF TypeOK, GoesOn, Talking
    <2>4. QED
      BY <2>2, <2>3
  <1>5. ASSUME NEW u \in Users, Connected(u) PROVE Goal
    <2>1. /\ user[u] = "waiting" /\ Ready(conn[u]) /\ user' = [user EXCEPT ![u] = "connected"]
          /\ conn' = [conn EXCEPT ![u] = conn[u]] /\ channel' = [channel EXCEPT ![u] = nextChannel[conn[u]]]
          /\ UNCHANGED <<request, state>>
      BY <1>5 DEF Connected, Begin, AllocChannel
    <2>2. CASE v = u
      BY <2>1, <2>2 DEF TypeOK, GoesOn, Talking
    <2>3. CASE v # u
      BY <1>1, <2>1, <2>3 DEF TypeOK
    <2>4. QED
      BY <2>2, <2>3
  <1>6. ASSUME NEW u \in Users, Ended(u) PROVE Goal
    <2>1. CASE v = u
      BY <1>6, <2>1 DEF Ended, TypeOK, Talking
    <2>2. CASE v # u
      BY <1>1, <1>6, <2>2 DEF Ended, TypeOK
    <2>3. QED
      BY <2>1, <2>2
  <1>7. ASSUME NEW u \in Users, Requests(u) PROVE Goal
    <2>1. /\ user[u] = "connected" /\ user' = [user EXCEPT ![u] = "replying"]
          /\ UNCHANGED <<conn, channel, request>>
      BY <1>7 DEF Requests, SendRequest, SendFrame
    <2>2. CASE v = u
      BY <1>7, <2>1, <2>2 DEF TypeOK, GoesOn, Talking
    <2>3. CASE v # u
      BY <1>1, <2>1, <2>3 DEF TypeOK
    <2>4. QED
      BY <2>2, <2>3
  <1>8. ASSUME NEW u \in Users, SendRequest(u) \/ Abandon(u) PROVE Goal
    BY <1>6, <1>7, <1>8, Fails DEF Requests, Keeps, Leave
  <1>9. ASSUME NEW u \in Users, ConnectClosing(u) PROVE Goal
    <2>1. /\ user[u] = "waiting" /\ user' = [user EXCEPT ![u] = "closing"]
          /\ UNCHANGED <<conn, channel, request>>
      BY <1>9 DEF ConnectClosing
    <2>2. CASE v = u
      BY <2>1, <2>2 DEF TypeOK, GoesOn, Talking
    <2>3. CASE v # u
      BY <1>1, <2>1, <2>3 DEF TypeOK
    <2>4. QED
      BY <2>2, <2>3
  <1>10. ASSUME NEW u \in Users, UserStep(u) PROVE Goal
    BY <1>1, <1>3, <1>4, <1>5, <1>6, <1>8, <1>9, <1>10
       DEF UserStep, CreateConnectionThrows, Getting, ConnectTimesOut, ConnectClosed, EndRequest
  <1>11. QED
    BY <1>2, <1>10, Steps

\* Every step keeps the order of the handshake.
LEMMA HandshakenNext ==
    ASSUME TypeOK, Placed, Handshaken, Next
    PROVE  Handshaken'
  <1>1. ASSUME NEW c \in Connections,
               state'[Client(c)] = "ESTABLISHED" \/ (\E f \in Elements(input'[Client(c)]) : f.type = "HELO")
        PROVE  thread'[Server(c)] \notin {"new", "HELO"}
    <2>1. Client(c) \in Ends /\ Server(c) \in Ends /\ Peer(Client(c)) = Server(c) /\ Client(c)[1] = "client"
      BY EndFacts DEF Client
    <2>2. thread[Server(c)] \notin {"new", "HELO"} => thread'[Server(c)] \notin {"new", "HELO"}
      BY <2>1, StateSteps
    <2>3. input[Client(c)] \in Seq(Frames) /\ Changed(Client(c))
      BY <2>1, InputChanges DEF TypeOK
    <2>4. CASE state'[Client(c)] = "ESTABLISHED"
      <3>1. state[Client(c)] = "ESTABLISHED" \/ Establish(Client(c))
        BY <2>1, <2>4, StateSteps
      <3>2. Establish(Client(c)) => \E f \in Elements(input[Client(c)]) : f.type = "HELO"
        BY <2>3, TailFacts DEF Establish
      <3>3. QED
        BY <2>2, <3>1, <3>2 DEF Handshaken
    <2>5. CASE \E f \in Elements(input'[Client(c)]) : f.type = "HELO"
      <3>1. PICK f \in Elements(input'[Client(c)]) : f.type = "HELO"
        BY <2>5
      <3>2. CASE f \in Elements(input[Client(c)])
        BY <2>2, <3>1, <3>2 DEF Handshaken
      <3>3. CASE f \notin Elements(input[Client(c)])
        <4>1. PICK g \in Frames : Origin(Client(c), g) /\ input'[Client(c)] = Append(input[Client(c)], g)
          BY <2>3, <3>1, <3>3, TailFacts, EmptyFacts DEF Changed
        <4>2. f = g
          BY <2>3, <3>1, <3>3, <4>1, AppendFacts
        <4>3. BYE.type # "HELO" /\ \A ch, r : REQU(ch, r).type # "HELO" /\ REPL(ch, r).type # "HELO"
          BY DEF BYE, REQU, REPL
        <4>4. thread'[Server(c)] = "polling"
          BY <2>1, <3>1, <4>1, <4>2, <4>3 DEF Origin
        <4>5. QED
          BY <4>4
      <3>4. QED
        BY <3>2, <3>3
    <2>6. QED
      BY <1>1, <2>4, <2>5
  <1>2. ASSUME NEW c \in Connections, NEW u \in Users, Talking(u, c)' PROVE Ready(c)'
    <2>1. Talking(u, c) \/ (Ready(c) /\ UNCHANGED state)
      BY <1>2, UserSteps
    <2>2. Ready(c)
      BY <2>1 DEF Handshaken
    <2>3. QED
      BY <2>2, StateSteps, EndFacts DEF Ready
  <1>3. QED
    BY <1>1, <1>2 DEF Handshaken

-----------------------------------------------------------------------------
(* Requests have numbers of their own. *)

Numbered ==
    /\ \A u \in Users : request[u] = NoRequest <=> user[u] = "idle"
    /\ \A u, v \in Users : request[u] = request[v] /\ request[u] # NoRequest => u = v
    /\ \A c, ch, r : Flying(c, ch, r) => r \in 1..requests
    /\ \A u \in Users : \A c, ch, r : user[u] # "idle" /\ r = request[u] /\ Flying(c, ch, r)
          => user[u] = "replying" /\ conn[u] = c /\ channel[u] = ch
    /\ \A s \in leftover, u \in Users : request[u] # s.request

\* A step begins at most one call.
LEMMA CountSteps == ASSUME Next PROVE requests' \in {requests, requests + 1}
  <1> USE DEF history
  <1>1. ASSUME NEW u \in Users, UserStep(u), ~GetConnection(u), ~CreateConnection(u)
        PROVE  requests' = requests
    BY <1>1 DEF UserStep, CreateConnectionThrows, Getting, Connected, ConnectTimesOut, ConnectClosing,
                ConnectClosed, SendRequest, Abandon, EndRequest
  <1>2. ASSUME NEW u \in Users, GetConnection(u) \/ CreateConnection(u) PROVE requests' = requests + 1
    BY <1>2 DEF GetConnection, CreateConnection, NewConnection, Call
  <1>3. ASSUME (\E e \in Ends : EndStep(e)) \/ Elsewhere \/ ShutdownStep PROVE requests' = requests
    BY <1>3, EndKeeps, ElsewhereKeeps, ShutdownKeeps
  <1>4. QED
    BY <1>1, <1>2, <1>3, Steps

\* Every step keeps the numbers apart.
LEMMA NumberedNext ==
    ASSUME TypeOK, Numbered, Next
    PROVE  Numbered'
  <1>0. /\ requests \in Nat /\ requests' \in {requests, requests + 1}
        /\ \A u \in Users : request[u] \in 0..requests
    BY CountSteps, RemotingAssumption DEF TypeOK
  <1>1. ASSUME NEW u \in Users PROVE request'[u] = NoRequest <=> user'[u] = "idle"
    BY <1>0, UserSteps DEF Numbered, GoesOn, Begins, NoRequest
  <1>2. ASSUME NEW u \in Users, NEW v \in Users, request'[u] = request'[v], request'[u] # NoRequest
        PROVE  u = v
    <2>1. (GoesOn(u) \/ Begins(u)) /\ (GoesOn(v) \/ Begins(v))
      BY <1>1, <1>2, UserSteps
    <2>2. \A w \in Users : request[w] # requests + 1
      BY <1>0
    <2>3. QED
      BY <1>2, <2>1, <2>2 DEF Numbered, GoesOn, Begins
  <1>3. ASSUME NEW c, NEW ch, NEW r, Flying(c, ch, r)' PROVE r \in 1..requests'
    <2>1. CASE Flying(c, ch, r)
      <3>1. r \in 1..requests
        BY <2>1 DEF Numbered
      <3>2. QED
        BY <1>0, <3>1
    <2>2. ASSUME NEW v \in Users, Requests(v) \/ Keeps(v), request[v] = r PROVE r \in 1..requests'
      <3>1. r \in 0..requests /\ user[v] = "connected"
        BY <1>0, <2>2 DEF Requests, Keeps, SendRequest
      <3>2. r # 0
        BY <2>2, <3>1 DEF Numbered, NoRequest
      <3>3. QED
        BY <1>0, <3>1, <3>2
    <2>3. QED
      BY <1>3, <2>1, <2>2, FlyingNext
  <1>4. ASSUME NEW u \in Users, NEW c, NEW ch, NEW r,
               user'[u] # "idle", r = request'[u], Flying(c, ch, r)'
        PROVE  user'[u] = "replying" /\ conn'[u] = c /\ channel'[u] = ch
    <2>1. GoesOn(u) \/ Begins(u)
      BY <1>4, UserSteps
    <2>2. CASE Flying(c, ch, r)
      <3>1. r # requests + 1
        <4>1. r \in 1..requests
          BY <2>2 DEF Numbered
        <4>2. QED
          BY <1>0, <4>1
      <3>2. GoesOn(u) /\ r = request[u]
        BY <1>4, <2>1, <3>1 DEF GoesOn, Begins
      <3>3. user[u] = "replying" /\ conn[u] = c /\ channel[u] = ch
        <4>1. \A d, dh, n : user[u] # "idle" /\ n = request[u] /\ Flying(d, dh, n)
                  => user[u] = "replying" /\ conn[u] = d /\ channel[u] = dh
          BY Zenon DEF Numbered
        <4>2. user[u] # "idle"
          BY <3>2 DEF GoesOn
        <4>3. QED
          BY <2>2, <3>2, <4>1, <4>2, Zenon
      <3>4. QED
        BY <3>2, <3>3 DEF GoesOn
    <2>3. ASSUME NEW v \in Users, Requests(v) \/ Keeps(v), conn[v] = c, channel[v] = ch, request[v] = r
          PROVE  user'[u] = "replying" /\ conn'[u] = c /\ channel'[u] = ch
      <3>1. r \in 0..requests /\ user[v] = "connected" /\ r # NoRequest
        BY <1>0, <2>3 DEF Requests, Keeps, SendRequest, Numbered
      <3>2. r # requests + 1
        BY <1>0, <3>1
      <3>3. u = v
        BY <1>4, <2>1, <2>3, <3>1, <3>2 DEF GoesOn, Begins, Numbered
      <3>4. ~Keeps(v)
        BY <1>4, <3>3 DEF Keeps, Leave, Ended, TypeOK
      <3>5. /\ user' = [user EXCEPT ![v] = "replying"] /\ UNCHANGED <<conn, channel>>
        BY <2>3, <3>4 DEF Requests, SendFrame
      <3>6. QED
        BY <2>3, <3>3, <3>5 DEF TypeOK
    <2>4. QED
      BY <1>4, <2>2, <2>3, FlyingNext
  <1>5. ASSUME NEW s \in leftover', NEW u \in Users PROVE request'[u] # s.request
    <2>1. CASE s \in leftover
      <3>1. s.request \in 1..requests
        BY <2>1 DEF Numbered, Flying
      <3>2. s.request # NoRequest /\ s.request # requests + 1 /\ request[u] # s.request
        BY <1>0, <2>1, <3>1 DEF Numbered, NoRequest
      <3>3. QED
        BY <3>2, UserSteps DEF GoesOn, Begins
    <2>2. CASE s \notin leftover
      <3>1. PICK v \in Users : Keeps(v) /\ s.request = request[v]
        BY <2>2, LeftBehind
      <3>2. /\ user[v] = "connected" /\ request'[v] = NoRequest
            /\ \A w \in Users : w # v => request'[w] = request[w]
        BY <3>1 DEF Keeps, Leave, Ended, TypeOK
      <3>3. QED
        BY <3>1, <3>2 DEF Numbered
    <2>3. QED
      BY <2>1, <2>2
  <1>6. QED
    BY <1>1, <1>2, <1>3, <1>4, <1>5 DEF Numbered

-----------------------------------------------------------------------------
(* A request is in one place at a time. *)

\* Frame f is request r or the reply to it.
Is(f, r) == f.type \in {"REQU", "REPL"} /\ f.request = r

Carries(q, r) == \E f \in Elements(q) : Is(f, r)

Once(q, r) == \A i, j \in DOMAIN q : Is(q[i], r) /\ Is(q[j], r) => i = j

OnItsWay(r) ==
    (\E e \in Ends : Carries(input[e], r)) \/ \E s \in serving \cup leftover : s.request = r

Single(r) ==
    /\ \A e \in Ends : Once(input[e], r)
    /\ \A d, e \in Ends : Carries(input[d], r) /\ Carries(input[e], r) => d = e
    /\ \A e \in Ends : Carries(input[e], r) => \A s \in serving \cup leftover : s.request # r
    /\ \A s, t \in serving : s.request = r /\ t.request = r => s = t
    /\ \A s, t \in leftover : s.request = r /\ t.request = r => s = t
    /\ \A s \in serving, t \in leftover : s.request = r => t.request # r
    /\ \A u \in Users : reply[u] = r => ~OnItsWay(r)

\* Only the server is sent requests, only the client replies.
Sides ==
    \A e \in Ends : \A f \in Elements(input[e]) :
        /\ f.type = "REQU" => e[1] = "server"
        /\ f.type = "REPL" => e[1] = "client"

\* Appending and taking a frame.
LEMMA OnceFacts ==
    ASSUME NEW S, NEW q \in Seq(S), NEW f \in S, NEW r
    PROVE  /\ Once(q, r) /\ ~(Is(f, r) /\ Carries(q, r)) => Once(Append(q, f), r)
           /\ Carries(Append(q, f), r) => Carries(q, r) \/ Is(f, r)
           /\ Carries(q, r) => Carries(Append(q, f), r)
           /\ Is(f, r) => Carries(Append(q, f), r)
  <1> DEFINE p == Append(q, f)
  <1>1. /\ Len(q) \in Nat /\ Elements(p) = Elements(q) \cup {f}
        /\ \A i \in 1..Len(q) : p[i] = q[i]
        /\ p[Len(q) + 1] = f /\ p \in Seq(S) /\ Len(p) = Len(q) + 1
    BY AppendFacts
  <1>2. DOMAIN q = 1..Len(q) /\ DOMAIN p = 1..(Len(q) + 1)
    BY <1>1, LenProperties
  <1> HIDE DEF p
  <1>3. 1..(Len(q) + 1) = 1..Len(q) \cup {Len(q) + 1}
    BY <1>1
  <1>4. ASSUME Once(q, r), ~(Is(f, r) /\ Carries(q, r)), NEW i \in DOMAIN p, NEW j \in DOMAIN p,
               Is(p[i], r), Is(p[j], r)
        PROVE  i = j
    <2>1. CASE Is(f, r)
      <3>1. \A k \in 1..Len(q) : ~Is(p[k], r)
        BY <1>1, <1>2, <1>4, <2>1 DEF Carries, Elements
      <3>2. QED
        BY <1>2, <1>3, <1>4, <3>1
    <2>2. CASE ~Is(f, r)
      <3>1. i \in 1..Len(q) /\ j \in 1..Len(q)
        BY <1>1, <1>2, <1>3, <1>4, <2>2
      <3>2. QED
        BY <1>1, <1>2, <1>4, <3>1 DEF Once
    <2>3. QED
      BY <2>1, <2>2
  <1>5. QED
    BY <1>1, <1>4 DEF Once, Carries, p

LEMMA OnceTail ==
    ASSUME NEW S, NEW q \in Seq(S), q # <<>>, NEW r
    PROVE  /\ Once(q, r) => Once(Tail(q), r)
           /\ Carries(Tail(q), r) => Carries(q, r)
           /\ Carries(q, r) => Carries(Tail(q), r) \/ Is(Head(q), r)
           /\ Once(q, r) /\ Is(Head(q), r) => ~Carries(Tail(q), r)
  <1> DEFINE p == Tail(q)
  <1>1. /\ p \in Seq(S) /\ Len(q) \in Nat \ {0} /\ Len(p) = Len(q) - 1
        /\ \A i \in 1..(Len(q) - 1) : p[i] = q[i + 1]
        /\ Head(q) = q[1]
    OBVIOUS
  <1>2. DOMAIN q = 1..Len(q) /\ DOMAIN p = 1..(Len(q) - 1)
    BY <1>1, LenProperties
  <1>3. Elements(p) \subseteq Elements(q)
    BY TailFacts
  <1> HIDE DEF p
  <1>4. \A i \in 1..(Len(q) - 1) : i + 1 \in 1..Len(q) /\ i + 1 # 1
    BY <1>1
  <1>5. ASSUME Once(q, r), NEW i \in DOMAIN p, NEW j \in DOMAIN p, Is(p[i], r), Is(p[j], r)
        PROVE  i = j
    <2>1. i + 1 \in DOMAIN q /\ j + 1 \in DOMAIN q /\ Is(q[i + 1], r) /\ Is(q[j + 1], r)
      BY <1>1, <1>2, <1>4, <1>5
    <2>2. i + 1 = j + 1
      BY <1>5, <2>1 DEF Once
    <2>3. i \in Int /\ j \in Int
      BY <1>2
    <2>4. QED
      BY <2>2, <2>3
  <1>6. ASSUME Once(q, r), Is(q[1], r), NEW i \in DOMAIN p, Is(p[i], r)
        PROVE  FALSE
    <2>1. i + 1 \in DOMAIN q /\ 1 \in DOMAIN q /\ Is(q[i + 1], r) /\ i + 1 # 1
      BY <1>1, <1>2, <1>4, <1>6
    <2>2. QED
      BY <1>6, <2>1 DEF Once
  <1>7. ASSUME NEW i \in DOMAIN q, Is(q[i], r), i # 1
        PROVE  Carries(p, r)
    <2>1. i - 1 \in 1..(Len(q) - 1) /\ (i - 1) + 1 = i
      BY <1>1, <1>2, <1>7
    <2>2. p[i - 1] = q[i]
      BY <1>1, <2>1
    <2>3. QED
      BY <1>2, <1>7, <2>1, <2>2 DEF Carries, Elements
  <1>8. Carries(q, r) => Carries(p, r) \/ Is(Head(q), r)
    BY <1>1, <1>7 DEF Carries, Elements
  <1>9. QED
    BY <1>1, <1>3, <1>5, <1>6, <1>8 DEF Once, Carries, Elements, p

\* Nothing is in an empty buffer, and the HELO and the BYE are no requests.
LEMMA NothingFacts ==
    /\ \A r : Once(<<>>, r) /\ ~Carries(<<>>, r) /\ ~Is(HELO, r) /\ ~Is(BYE, r)
    /\ \A ch, r, t : (Is(REQU(ch, r), t) <=> r = t) /\ (Is(REPL(ch, r), t) <=> r = t)
    /\ \A ch, r : REQU(ch, r).type = "REQU" /\ REPL(ch, r).type = "REPL"
    /\ HELO.type = "HELO" /\ BYE.type = "BYE"
  BY EmptyFacts DEF Once, Carries, Is, HELO, BYE, REQU, REPL

\* A request is on its way if it flies on some channel.
LEMMA FlyingFacts == \A r : OnItsWay(r) <=> \E c, ch : Flying(c, ch, r)
  BY DEF OnItsWay, Carries, Is, Flying

\* A frame that is new in a buffer was sent.
LEMMA NewFrames ==
    ASSUME TypeOK, Next, NEW e \in Ends, NEW f \in Elements(input'[e]), f \notin Elements(input[e])
    PROVE  Origin(e, f)
  <1>1. input[e] \in Seq(Frames) /\ Changed(e)
    BY InputChanges DEF TypeOK
  <1>2. PICK g \in Frames : Origin(e, g) /\ input'[e] = Append(input[e], g)
    BY <1>1, TailFacts, EmptyFacts DEF Changed
  <1>3. f = g
    BY <1>1, <1>2, AppendFacts
  <1>4. QED
    BY <1>2, <1>3

\* Only what receives a frame begins to serve a request, or gives a reply.
LEMMA Receives ==
    ASSUME TypeOK, Next
    PROVE  \/ /\ serving' \subseteq serving
              /\ \A u \in Users : reply'[u] \in {reply[u], NoRequest}
           \/ \E e \in Ends : ReceiveFrame(e)
  <1> DEFINE Goal == /\ serving' \subseteq serving
                     /\ \A u \in Users : reply'[u] \in {reply[u], NoRequest}
  <1> USE DEF users
  <1>1. ASSUME serving' \subseteq serving, UNCHANGED reply PROVE Goal
    BY <1>1
  <1>2. ASSUME NEW u \in Users, Ended(u), serving' = serving PROVE Goal
    BY <1>2 DEF Ended, TypeOK
  <1>3. ASSUME NEW u \in Users, UserStep(u) PROVE Goal
    <2>1. serving' = serving
      BY <1>3, UserKeeps
    <2>2. CASE Ended(u)
      BY <1>2, <2>1, <2>2
    <2>3. CASE ~Ended(u)
      BY <1>1, <1>3, <2>1, <2>3
         DEF UserStep, GetConnection, CreateConnection, NewConnection, CreateConnectionThrows, Getting, Connected,
             ConnectTimesOut, ConnectClosing, ConnectClosed, SendRequest, SendFrame, Abandon, Leave, EndRequest
    <2>4. QED
      BY <2>2, <2>3
  <1>4. QED
    BY <1>1, <1>3, Steps, EndKeeps, ElsewhereKeeps, ShutdownKeeps

\* Every step keeps requests and replies on their sides.
LEMMA SidesNext ==
    ASSUME TypeOK, Sides, Next
    PROVE  Sides'
  <1> SUFFICES ASSUME NEW e \in Ends, NEW f \in Elements(input'[e])
               PROVE  /\ f.type = "REQU" => e[1] = "server"
                      /\ f.type = "REPL" => e[1] = "client"
    BY DEF Sides
  <1>1. CASE f \in Elements(input[e])
    BY <1>1 DEF Sides
  <1>2. CASE f \notin Elements(input[e])
    <2>1. Origin(e, f)
      BY <1>2, NewFrames
    <2>2. \A c : Client(c)[1] = "client" /\ Server(c)[1] = "server"
      BY DEF Client, Server
    <2>3. QED
      BY <2>1, <2>2, NothingFacts DEF Origin
  <1>3. QED
    BY <1>1, <1>2

\* Request r is in fewer places after the step, if in another number of them.
Fewer(r) ==
    /\ \A e \in Ends : /\ Once(input[e], r) => Once(input'[e], r)
                       /\ Carries(input'[e], r) => Carries(input[e], r)
    /\ \A s \in serving' : s.request = r => s \in serving
    /\ \A s \in leftover' : s.request = r => s \in leftover
    /\ \A u \in Users : reply'[u] = r => reply[u] = r

\* The step by which the request r is sent, left behind, received, or answered.
Moves(r) ==
    \/ \E u \in Users : (Requests(u) \/ Keeps(u)) /\ request[u] = r
    \/ \E s \in leftover : Discard(s) /\ s.request = r
    \/ \E c \in Connections : Refuse(c) /\ Is(Head(input[Server(c)]), r)
    \/ \E s \in serving : Answer(s) /\ s.request = r
    \/ \E e \in Ends : ReceiveFrame(e) /\ Is(Head(input[e]), r)

\* Other steps put it nowhere.
LEMMA FewerSteps ==
    ASSUME TypeOK, Next, NEW r \in 1..MaxRequests, ~Moves(r)
    PROVE  Fewer(r)
  <1>1. ASSUME NEW e \in Ends
        PROVE  /\ Once(input[e], r) => Once(input'[e], r)
               /\ Carries(input'[e], r) => Carries(input[e], r)
    <2>1. input[e] \in Seq(Frames) /\ Changed(e)
      BY InputChanges DEF TypeOK
    <2>2. ASSUME NEW f \in Frames, Origin(e, f), input'[e] = Append(input[e], f)
          PROVE  /\ Once(input[e], r) => Once(input'[e], r)
                 /\ Carries(input'[e], r) => Carries(input[e], r)
      <3>1. ~Is(f, r)
        <4>1. ASSUME NEW c \in Connections, Refuse(c), f = REPL(Head(input[Server(c)]).channel, Head(input[Server(c)]).request)
              PROVE  ~Is(f, r)
          <5>1. PICK g : g = Head(input[Server(c)])
            OBVIOUS
          <5>2. g.type = "REQU" /\ ~Is(g, r)
            BY <4>1, <5>1 DEF Refuse, Moves
          <5>3. QED
            BY <4>1, <5>1, <5>2, NothingFacts DEF Is
        <4>2. QED
          BY <2>2, <4>1, NothingFacts DEF Origin, Moves
      <3>2. QED
        BY <2>1, <2>2, <3>1, OnceFacts
    <2>3. CASE input'[e] \in {input[e], <<>>}
      BY <2>3, NothingFacts
    <2>4. CASE input[e] # <<>> /\ input'[e] = Tail(input[e])
      BY <2>1, <2>4, OnceTail
    <2>5. QED
      BY <2>1, <2>2, <2>3, <2>4 DEF Changed
  <1>2. /\ \A s \in serving' : s.request = r => s \in serving
        /\ \A u \in Users : reply'[u] = r => reply[u] = r
    <2>1. CASE /\ serving' \subseteq serving
               /\ \A u \in Users : reply'[u] \in {reply[u], NoRequest}
      BY <2>1 DEF NoRequest
    <2>2. ASSUME NEW e \in Ends, ReceiveFrame(e)
          PROVE  /\ \A s \in serving' : s.request = r => s \in serving
                 /\ \A u \in Users : reply'[u] = r => reply[u] = r
      <3> DEFINE f == Head(input[e])
      <3>1. ~Is(f, r) /\ Serve(e[2], f) /\ Give(f, Takers(e[2], f))
        BY <2>2 DEF Moves, ReceiveFrame, HandleFrame
      <3> HIDE DEF f
      <3>2. \A s \in serving' : s.request = r => s \in serving
        BY <3>1 DEF Serve, Is
      <3>3. \A u \in Users : reply'[u] = r => reply[u] = r
        BY <3>1 DEF Give, Takers, Is
      <3>4. QED
        BY <3>2, <3>3
    <2>3. QED
      BY <2>1, <2>2, Receives
  <1>3. ASSUME NEW s \in leftover', s.request = r PROVE s \in leftover
    BY <1>3, LeftBehind DEF Moves
  <1>4. QED
    BY <1>1, <1>2, <1>3 DEF Fewer

\* A sent request, reply, or neither.
LEMMA SentCarries ==
    ASSUME NEW before \in [Ends -> Seq(Frames)], NEW e \in Ends, NEW f \in Frames, NEW r,
           \A d \in Ends : Once(before[d], r) /\ ~Carries(before[d], r)
    PROVE  \A d \in Ends : /\ Once(Sent(before, e, f)[d], r)
                           /\ Carries(Sent(before, e, f)[d], r) => d = Peer(e)
  <1> DEFINE after == Sent(before, e, f)
  <1>1. \A d \in Ends : \/ after[d] = before[d]
                        \/ d = Peer(e) /\ after[d] = Append(before[d], f)
    BY SentFacts
  <1> HIDE DEF after
  <1>2. ASSUME NEW d \in Ends
        PROVE  Once(after[d], r) /\ (Carries(after[d], r) => d = Peer(e))
    <2>1. CASE after[d] = before[d]
      BY <2>1
    <2>2. CASE d = Peer(e) /\ after[d] = Append(before[d], f)
      BY <2>2, OnceFacts
    <2>3. QED
      BY <1>1, <2>1, <2>2
  <1>3. QED
    BY <1>2 DEF after

\* A request that is refused is in no buffer but that of its reply.
LEMMA RefuseFacts ==
    ASSUME TypeOK, NEW r \in 1..MaxRequests, Single(r), NEW c \in Connections,
           Refuse(c), Is(Head(input[Server(c)]), r)
    PROVE  /\ Server(c) \in Ends /\ Carries(input[Server(c)], r)
           /\ \A d \in Ends : Once(input'[d], r) /\ (Carries(input'[d], r) => d = Client(c))
  <1>0. /\ r \in 0..MaxRequests /\ input \in [Ends -> Seq(Frames)]
        /\ \A e \in Ends : Once(input[e], r)
    BY RemotingAssumption DEF TypeOK, Single
  <1>1. PICK e, g : e = Server(c) /\ g = Head(input[e])
    OBVIOUS
  <1>2. PICK f : f = REPL(g.channel, r)
    OBVIOUS
  <1>3. PICK received : received = [input EXCEPT ![e] = Tail(@)]
    OBVIOUS
  <1>4. /\ e \in Ends /\ Peer(e) = Client(c) /\ input[e] # <<>> /\ Is(g, r)
        /\ input' = received \/ input' = Sent(received, e, f)
    BY <1>1, <1>2, <1>3, EndFacts DEF Refuse, Is
  <1>5. g \in Elements(input[e]) /\ f \in Frames
    <2>1. g \in Elements(input[e]) /\ g \in Frames
      BY <1>0, <1>1, <1>4, TailFacts
    <2>2. QED
      BY <1>0, <1>2, <2>1, FrameFacts DEF Frames
  <1>6. Carries(input[e], r)
    BY <1>4, <1>5 DEF Carries
  <1>7. /\ received \in [Ends -> Seq(Frames)]
        /\ \A d \in Ends : Once(received[d], r) /\ ~Carries(received[d], r)
    <2>1. Once(Tail(input[e]), r) /\ ~Carries(Tail(input[e]), r) /\ Tail(input[e]) \in Seq(Frames)
      BY <1>0, <1>1, <1>4, OnceTail, TailFacts
    <2>2. \A d \in Ends : d # e => ~Carries(input[d], r)
      BY <1>4, <1>6 DEF Single
    <2>3. QED
      BY <1>0, <1>3, <1>4, <2>1, <2>2
  <1>8. \A d \in Ends : Once(input'[d], r) /\ (Carries(input'[d], r) => d = Peer(e))
    <2>1. \A d \in Ends : Once(Sent(received, e, f)[d], r) /\ (Carries(Sent(received, e, f)[d], r) => d = Peer(e))
      BY <1>4, <1>5, <1>7, SentCarries
    <2>2. QED
      BY <1>4, <1>7, <2>1
  <1>9. QED
    BY <1>1, <1>4, <1>6, <1>8

\* Every step keeps a request in one place.
LEMMA SingleNext ==
    ASSUME TypeOK, Tagged, Numbered, Next, NEW r \in 1..MaxRequests, Single(r)
    PROVE  Single(r)'
  <1>0. /\ r \in 0..MaxRequests /\ r # NoRequest /\ input \in [Ends -> Seq(Frames)]
        /\ \A e \in Ends : Once(input[e], r)
    BY RemotingAssumption DEF NoRequest, TypeOK, Single
  <1>1. ASSUME NEW u \in Users, Requests(u), request[u] = r PROVE Single(r)'
    <2>1. /\ user[u] = "connected" /\ input' = Sent(input, Client(conn[u]), REQU(channel[u], r))
          /\ UNCHANGED <<serving, leftover, reply>>
      BY <1>1 DEF Requests, SendRequest, SendFrame
    <2>2. ~OnItsWay(r)
      BY <1>1, <2>1, FlyingFacts DEF Numbered
    <2>3. \A v \in Users : reply[v] # r
      BY <1>0, <1>1, <2>1 DEF Tagged, Numbered
    <2>4. Client(conn[u]) \in Ends /\ REQU(channel[u], r) \in Frames
      <3>1. conn[u] \in Connections /\ channel[u] \in Nat
        BY <2>1, RemotingAssumption DEF TypeOK, Connections, NoConnection
      <3>2. QED
        BY <1>0, <3>1, EndFacts, FrameFacts
    <2>5. \A d \in Ends : Once(input'[d], r) /\ (Carries(input'[d], r) => d = Peer(Client(conn[u])))
      BY <1>0, <2>1, <2>2, <2>4, SentCarries DEF OnItsWay
    <2>6. QED
      BY <2>1, <2>2, <2>3, <2>5 DEF Single, OnItsWay
  <1>2. ASSUME NEW s \in serving, Answer(s), s.request = r PROVE Single(r)'
    <2>1. /\ serving' = serving \ {s} /\ UNCHANGED <<leftover, reply>>
          /\ input' = input \/ input' = Sent(input, Server(s.conn), REPL(s.channel, r))
      BY <1>2 DEF Answer, users
    <2>2. OnItsWay(r) /\ \A d \in Ends : ~Carries(input[d], r)
      BY <1>2 DEF OnItsWay, Single
    <2>3. \A t \in serving' \cup leftover' : t.request # r
      BY <1>2, <2>1 DEF Single
    <2>4. \A v \in Users : reply[v] # r
      BY <2>2 DEF Single
    <2>5. Server(s.conn) \in Ends /\ REPL(s.channel, r) \in Frames
      <3>1. s.conn \in Connections /\ s.channel \in Nat
        BY RemotingAssumption DEF TypeOK, Connections
      <3>2. QED
        BY <1>0, <3>1, EndFacts, FrameFacts
    <2>6. \A d \in Ends : Once(input'[d], r) /\ (Carries(input'[d], r) => d = Peer(Server(s.conn)))
      BY <1>0, <2>1, <2>2, <2>5, SentCarries
    <2>7. QED
      BY <2>1, <2>3, <2>4, <2>6 DEF Single
  <1>3. ASSUME NEW e \in Ends, ReceiveFrame(e), Is(Head(input[e]), r) PROVE Single(r)'
    <2> DEFINE f == Head(input[e])
    <2>1. /\ input[e] # <<>> /\ input' = [input EXCEPT ![e] = Tail(@)]
          /\ Serve(e[2], f) /\ Give(f, Takers(e[2], f)) /\ UNCHANGED leftover
      BY <1>3 DEF ReceiveFrame, HandleFrame
    <2>2. f \in Elements(input[e]) /\ f.request = r /\ f.type \in {"REQU", "REPL"}
      BY <1>0, <1>3, <2>1, TailFacts DEF Is
    <2> HIDE DEF f
    <2>3. Carries(input[e], r) /\ OnItsWay(r)
      BY <2>2 DEF Carries, Is, OnItsWay
    <2>4. \A d \in Ends : Once(input'[d], r) /\ ~Carries(input'[d], r)
      <3>1. Once(Tail(input[e]), r) /\ ~Carries(Tail(input[e]), r)
        BY <1>0, <1>3, <2>1, OnceTail
      <3>2. \A d \in Ends : d # e => ~Carries(input[d], r)
        BY <2>3 DEF Single
      <3>3. QED
        BY <1>0, <2>1, <3>1, <3>2
    <2>5. (\A s \in serving \cup leftover : s.request # r) /\ (\A v \in Users : reply[v] # r)
      BY <2>3 DEF Single
    <2>6. CASE f.type = "REQU"
      <3>1. serving' = serving \cup {[conn |-> e[2], channel |-> f.channel, request |-> f.request]}
        BY <2>1, <2>6 DEF Serve
      <3>2. UNCHANGED leftover /\ \A v \in Users : reply'[v] = reply[v]
        BY <2>1, <2>6 DEF Give, Takers
      <3>3. QED
        BY <2>4, <2>5, <3>1, <3>2 DEF Single
    <2>7. CASE f.type = "REPL"
      <3>1. UNCHANGED <<serving, leftover>>
        BY <2>1, <2>7 DEF Serve
      <3>2. QED
        BY <2>4, <2>5, <3>1 DEF Single, OnItsWay
    <2>8. QED
      BY <2>2, <2>6, <2>7
  <1>4. ASSUME NEW u \in Users, Keeps(u), request[u] = r PROVE Single(r)'
    <2>1. /\ user[u] = "connected" /\ UNCHANGED <<input, serving>>
          /\ \A s \in leftover' : s.request = r =>
                s = [user |-> u, conn |-> conn[u], channel |-> channel[u], request |-> request[u]]
          /\ \A v \in Users : reply'[v] \in {reply[v], NoRequest}
      <3>1. /\ user[u] = "connected" /\ UNCHANGED <<input, serving>>
            /\ reply' = [reply EXCEPT ![u] = NoRequest]
        BY <1>4 DEF Keeps, Leave, Ended
      <3>2. \A s \in leftover : s.request # r
        BY <1>4 DEF Numbered
      <3>3. \A s \in leftover' : s.request = r =>
                s = [user |-> u, conn |-> conn[u], channel |-> channel[u], request |-> request[u]]
        BY <1>4, <3>2 DEF Keeps, Leave
      <3>4. \A v \in Users : reply'[v] \in {reply[v], NoRequest}
        BY <3>1 DEF TypeOK
      <3>5. QED
        BY <3>1, <3>3, <3>4
    <2>2. ~OnItsWay(r) /\ \A v \in Users : reply[v] # r
      <3>1. ~OnItsWay(r)
        BY <1>4, <2>1, FlyingFacts DEF Numbered
      <3>2. QED
        BY <1>0, <1>4, <2>1, <3>1 DEF Tagged, Numbered
    <2>3. QED
      BY <1>0, <2>1, <2>2 DEF Single, OnItsWay
  <1>5. ASSUME NEW s \in leftover, Discard(s), s.request = r PROVE Single(r)'
    <2>1. /\ leftover' = leftover \ {s} /\ UNCHANGED <<serving, reply>>
          /\ input' = input \/ input' = Sent(input, Client(s.conn), REQU(s.channel, r))
      BY <1>5 DEF Discard
    <2>2. OnItsWay(r) /\ \A d \in Ends : ~Carries(input[d], r)
      BY <1>5 DEF OnItsWay, Single
    <2>3. \A t \in serving' \cup leftover' : t.request # r
      BY <1>5, <2>1 DEF Single
    <2>4. \A v \in Users : reply[v] # r
      BY <2>2 DEF Single
    <2>5. Client(s.conn) \in Ends /\ REQU(s.channel, r) \in Frames
      <3>1. s.conn \in Connections /\ s.channel \in Nat
        BY RemotingAssumption DEF TypeOK, Connections
      <3>2. QED
        BY <1>0, <3>1, EndFacts, FrameFacts
    <2>6. \A d \in Ends : Once(input'[d], r) /\ (Carries(input'[d], r) => d = Peer(Client(s.conn)))
      BY <1>0, <2>1, <2>2, <2>5, SentCarries
    <2>7. QED
      BY <2>1, <2>3, <2>4, <2>6 DEF Single
  <1>6. ASSUME NEW c \in Connections, Refuse(c), Is(Head(input[Server(c)]), r) PROVE Single(r)'
    <2>1. UNCHANGED <<serving, leftover, reply>>
      BY <1>6 DEF Refuse, users
    <2>2. /\ \A d \in Ends : Once(input'[d], r) /\ (Carries(input'[d], r) => d = Client(c))
          /\ Server(c) \in Ends /\ Carries(input[Server(c)], r)
      BY <1>6, RefuseFacts
    <2>3. (\A s \in serving \cup leftover : s.request # r) /\ (\A v \in Users : reply[v] # r)
      BY <2>2 DEF Single, OnItsWay
    <2>4. QED
      BY <2>1, <2>2, <2>3 DEF Single
  <1>7. CASE ~Moves(r)
    <2>1. Fewer(r)
      BY <1>7, FewerSteps
    <2>2. OnItsWay(r)' => OnItsWay(r)
      BY <2>1 DEF Fewer, OnItsWay
    <2>3. QED
      BY <2>1, <2>2 DEF Fewer, Single
  <1>8. QED
    BY <1>1, <1>2, <1>3, <1>4, <1>5, <1>6, <1>7 DEF Moves

-----------------------------------------------------------------------------
(* A connection that is up at both ends, and does not stall, loses nothing. *)

\* What fails stays so, and requests are refused only by who has no thread.
LEMMA NetworkSteps ==
    ASSUME Next
    PROVE  /\ broken \subseteq broken' /\ stalled \subseteq stalled'
           /\ UNCHANGED refused \/ \E c \in Connections : Refuse(c)
  <1> USE DEF users, history
  <1>1. ASSUME Elsewhere
        PROVE  /\ broken \subseteq broken' /\ stalled \subseteq stalled'
               /\ UNCHANGED refused \/ \E c \in Connections : Refuse(c)
    BY <1>1 DEF Elsewhere, Break, Stall, Refuse, Answer, Discard
  <1>2. QED
    BY <1>1, Steps, EndKeeps, UserKeeps, ShutdownKeeps

Up(c) ==
    /\ c \notin broken \cup stalled
    /\ state[Client(c)] = "ESTABLISHED" /\ state[Server(c)] = "ESTABLISHED"

Kept ==
    \A u \in Users : \A c, r :
        user[u] = "replying" /\ c = conn[u] /\ r = request[u] /\ Up(c) => OnItsWay(r) \/ reply[u] # NoRequest

\* What is sent on a connection that is up arrives.
LEMMA Arrives ==
    ASSUME TypeOK, Placed, NEW c \in Connections, Up(c), NEW e \in {Client(c), Server(c)},
           NEW f \in Frames, NEW before \in [Ends -> Seq(Frames)]
    PROVE  f \in Elements(Sent(before, e, f)[Peer(e)])
  <1>1. /\ e \in Ends /\ Peer(e) \in Ends /\ e[2] = c /\ Peer(e) \in {Client(c), Server(c)}
    <2>1. e[2] = c
      BY DEF Client, Server
    <2>2. QED
      BY <2>1, EndFacts
  <1>2. ~Lost(e)
    BY <1>1, EndFacts DEF Lost, Closed, Up, Placed
  <1>3. Sent(before, e, f)[Peer(e)] = Append(before[Peer(e)], f) /\ before[Peer(e)] \in Seq(Frames)
    BY <1>1, <1>2 DEF Sent
  <1>4. QED
    BY <1>3, AppendFacts

\* A connection somebody talks on that is up was up before the step.
LEMMA UpBefore ==
    ASSUME TypeOK, Placed, Handshaken, Next, NEW u \in Users, NEW c \in Connections, Talking(u, c), Up(c)'
    PROVE  Up(c)
  <1>1. Client(c) \in Ends /\ Server(c) \in Ends
    BY EndFacts
  <1>2. \A d \in Ends : Establish(d) => thread[d] = "HELO" /\ state[d] = "HANDSHAKE"
    BY DEF Establish, ThreadGoes, Placed
  <1>3. state[Client(c)] = "ESTABLISHED"
    <2>1. Ready(c)
      BY DEF Handshaken
    <2>2. ~Establish(Client(c))
      BY <1>1, <1>2, <2>1 DEF Ready
    <2>3. QED
      BY <1>1, <2>2, StateSteps DEF Up
  <1>4. state[Server(c)] = "ESTABLISHED"
    <2>1. ~Establish(Server(c))
      BY <1>1, <1>2, <1>3 DEF Handshaken
    <2>2. QED
      BY <1>1, <2>1, StateSteps DEF Up
  <1>5. QED
    BY <1>3, <1>4, NetworkSteps DEF Up

\* Sending takes no frame away.
LEMMA SentKeeps ==
    ASSUME NEW before \in [Ends -> Seq(Frames)], NEW e \in Ends, NEW f \in Frames, NEW d \in Ends
    PROVE  Elements(before[d]) \subseteq Elements(Sent(before, e, f)[d])
  <1> DEFINE after == Sent(before, e, f)
  <1>1. \/ after[d] = before[d]
        \/ d = Peer(e) /\ after[d] = Append(before[d], f)
    BY SentFacts
  <1> HIDE DEF after
  <1>2. CASE after[d] = before[d]
    BY <1>2 DEF after
  <1>3. CASE after[d] = Append(before[d], f)
    <2>1. Elements(after[d]) = Elements(before[d]) \cup {f}
      BY <1>3, AppendFacts
    <2>2. QED
      BY <2>1 DEF after
  <1>4. QED
    BY <1>1, <1>2, <1>3

\* Only its own thread takes frames from the buffer of an end that polls, and
\* the network when it fails.
LEMMA InputKept ==
    ASSUME TypeOK, Next, NEW e \in Ends, thread[e] = "polling", e[2] \notin broken',
           ~ReceiveFrame(e), ~FrameFails(e), \A c \in Connections : Refuse(c) => e # Server(c)
    PROVE  Elements(input[e]) \subseteq Elements(input'[e])
  <1> DEFINE Goal == Elements(input[e]) \subseteq Elements(input'[e])
  <1> USE DEF ThreadGoes, ends
  <1>0. input \in [Ends -> Seq(Frames)]
    BY DEF TypeOK
  <1>1. ASSUME input'[e] = input[e] PROVE Goal
    BY <1>1
  <1>2. ASSUME NEW d \in Ends, NEW f \in Frames, input' = Sent(input, d, f) PROVE Goal
    BY <1>0, <1>2, SentKeeps
  <1>3. ASSUME NEW d \in Ends, EndStep(d) PROVE Goal
    <2>1. CASE Start(d)
      BY <1>1, <1>2, <2>1, FrameFacts DEF Start
    <2>2. CASE Establish(d)
      <3> DEFINE received == [input EXCEPT ![d] = Tail(@)]
      <3>1. thread[d] = "HELO" /\ d # e /\ input[d] # <<>>
        BY <2>2 DEF Establish
      <3>2. Tail(input[d]) \in Seq(Frames)
        BY <1>0, <3>1, TailFacts
      <3>3. received \in [Ends -> Seq(Frames)] /\ received[e] = input[e]
        BY <1>0, <3>1, <3>2
      <3>4. input' = received \/ input' = Sent(received, d, HELO)
        BY <2>2 DEF Establish
      <3> HIDE DEF received
      <3>5. QED
        BY <1>1, <3>3, <3>4, SentKeeps, FrameFacts
    <2>3. CASE ReceiveFrame(d)
      BY <1>0, <1>1, <2>3 DEF ReceiveFrame
    <2>4. CASE FrameFails(d)
      BY <1>0, <1>1, <2>4 DEF FrameFails
    <2>5. CASE SendBYE(d)
      BY <1>1, <1>2, <2>5, FrameFacts DEF SendBYE
    <2>6. CASE FinishClose(d) \/ FinishAbort(d)
      BY <1>0, <1>1, <2>6 DEF FinishClose, FinishAbort, SocketCloses
    <2>7. CASE HandshakeFails(d) \/ ReceiveThrows(d) \/ PollTimesOut(d) \/ IdleTimesOut(d) \/ SkipBYE(d)
      BY <1>1, <2>7 DEF HandshakeFails, ReceiveThrows, PollTimesOut, IdleTimesOut, SkipBYE
    <2>8. QED
      BY <1>3, <2>1, <2>2, <2>3, <2>4, <2>5, <2>6, <2>7 DEF EndStep, Thread
  <1>4. ASSUME NEW c \in Connections, Break(c) PROVE Goal
    <2>1. e # Client(c) /\ e # Server(c)
      BY <1>4 DEF Break, Client, Server
    <2>2. QED
      BY <1>0, <1>1, <1>4, <2>1 DEF Break
  <1>5. ASSUME NEW s \in serving, Answer(s) PROVE Goal
    <2>1. Server(s.conn) \in Ends /\ REPL(s.channel, s.request) \in Frames
      <3>1. s.conn \in Connections /\ s.channel \in Nat /\ s.request \in 0..MaxRequests
        <4>1. s \in [conn : 1..created, channel : Nat, request : 0..MaxRequests]
          BY DEF TypeOK
        <4>2. created \in 0..MaxConnections
          BY DEF TypeOK
        <4>3. s.conn \in 1..created /\ s.channel \in Nat /\ s.request \in 0..MaxRequests
          BY <4>1
        <4>4. QED
          BY <4>2, <4>3, RemotingAssumption DEF Connections
      <3>2. QED
        BY <3>1, EndFacts, FrameFacts
    <2>2. QED
      BY <1>1, <1>2, <1>5, <2>1 DEF Answer
  <1>6. ASSUME NEW s \in leftover, Discard(s) PROVE Goal
    <2>1. Client(s.conn) \in Ends /\ REQU(s.channel, s.request) \in Frames
      <3>1. s.conn \in Connections /\ s.channel \in Nat /\ s.request \in 0..MaxRequests
        <4>1. s \in [user : Users, conn : 1..created, channel : Nat, request : 0..MaxRequests]
          BY DEF TypeOK
        <4>2. created \in 0..MaxConnections
          BY DEF TypeOK
        <4>3. s.conn \in 1..created /\ s.channel \in Nat /\ s.request \in 0..MaxRequests
          BY <4>1
        <4>4. QED
          BY <4>2, <4>3, RemotingAssumption DEF Connections
      <3>2. QED
        BY <3>1, EndFacts, FrameFacts
    <2>2. QED
      BY <1>1, <1>2, <1>6, <2>1 DEF Discard
  <1>7. ASSUME NEW c \in Connections, Refuse(c) PROVE Goal
    <2>1. PICK d, g : d = Server(c) /\ g = Head(input[d])
      OBVIOUS
    <2>2. PICK f : f = REPL(g.channel, g.request)
      OBVIOUS
    <2>3. PICK received : received = [input EXCEPT ![d] = Tail(@)]
      OBVIOUS
    <2>4. d \in Ends /\ d # e /\ input[d] # <<>> /\ (input' = received \/ input' = Sent(received, d, f))
      BY <1>7, <2>1, <2>2, <2>3, EndFacts DEF Refuse
    <2>5. f \in Frames
      <3>1. g \in Frames
        BY <1>0, <2>1, <2>4, TailFacts
      <3>2. QED
        BY <2>2, <3>1, FrameFacts DEF Frames
    <2>6. received \in [Ends -> Seq(Frames)] /\ received[e] = input[e]
      BY <1>0, <2>3, <2>4, TailFacts
    <2>7. Elements(received[e]) \subseteq Elements(Sent(received, d, f)[e])
      BY <2>4, <2>5, <2>6, SentKeeps
    <2>8. QED
      BY <2>4, <2>6, <2>7
  <1>8. ASSUME NEW u \in Users, Requests(u) PROVE Goal
    <2>1. Client(conn[u]) \in Ends /\ REQU(channel[u], request[u]) \in Frames
      <3>1. conn[u] \in 0..created /\ conn[u] # 0 /\ created \in 0..MaxConnections
        BY <1>8 DEF Requests, SendRequest, TypeOK, NoConnection
      <3>2. request[u] \in 0..requests /\ requests \in 0..MaxRequests /\ channel[u] \in Nat
        BY DEF TypeOK
      <3>3. QED
        BY <3>1, <3>2, RemotingAssumption, EndFacts, FrameFacts DEF Connections
    <2>2. QED
      BY <1>2, <1>8, <2>1 DEF Requests, SendFrame
  <1>9. ASSUME NEW u \in Users, UserStep(u) PROVE Goal
    BY <1>1, <1>8, <1>9, UserKeeps, Fails DEF Requests, Keeps, Leave
  <1>10. ASSUME NEW c \in Connections, Stall(c) PROVE Goal
    BY <1>1, <1>10 DEF Stall
  <1>11. QED
    BY <1>1, <1>3, <1>4, <1>5, <1>6, <1>7, <1>9, <1>10, Steps, ShutdownKeeps DEF Elsewhere

\* A request ceases to be served when it is answered, and a reply is given back
\* when the call ends.
LEMMA Leaves ==
    ASSUME TypeOK, Next
    PROVE  /\ \A s \in serving : s \in serving' \/ Answer(s)
           /\ \A u \in Users : user'[u] # "idle" /\ reply[u] # NoRequest => reply'[u] # NoRequest
  <1> DEFINE Goal == /\ \A s \in serving : s \in serving' \/ Answer(s)
                     /\ \A u \in Users : user'[u] # "idle" /\ reply[u] # NoRequest => reply'[u] # NoRequest
  <1> USE DEF users
  <1>1. ASSUME serving' = serving, UNCHANGED reply PROVE Goal
    BY <1>1
  <1>2. ASSUME NEW e \in Ends, ReceiveFrame(e) PROVE Goal
    BY <1>2 DEF ReceiveFrame, HandleFrame, Serve, Give, NoRequest
  <1>3. ASSUME NEW u \in Users, Ended(u), serving' = serving PROVE Goal
    BY <1>3 DEF Ended, TypeOK
  <1>4. ASSUME NEW u \in Users, UserStep(u) PROVE Goal
    <2>1. serving' = serving
      BY <1>4, UserKeeps
    <2>2. CASE Ended(u)
      BY <1>3, <2>1, <2>2
    <2>3. CASE ~Ended(u)
      BY <1>1, <1>4, <2>1, <2>3
         DEF UserStep, GetConnection, CreateConnection, NewConnection, CreateConnectionThrows, Getting, Connected,
             ConnectTimesOut, ConnectClosing, ConnectClosed, SendRequest, SendFrame, Abandon, Leave, EndRequest
    <2>4. QED
      BY <2>2, <2>3
  <1>5. ASSUME NEW s \in serving, Answer(s) PROVE Goal
    <2>1. serving' = serving \ {s} /\ UNCHANGED reply
      BY <1>5 DEF Answer
    <2>2. QED
      BY <1>5, <2>1
  <1>6. ASSUME Elsewhere, ~\E s \in serving : Answer(s) PROVE Goal
    BY <1>1, <1>6 DEF Elsewhere, Break, Stall, Refuse, Discard
  <1>7. QED
    BY <1>1, <1>2, <1>4, <1>5, <1>6, Steps, EndKeeps, ShutdownKeeps DEF Elsewhere

\* A request on its way, on a connection that is up, gets somewhere by any step.
LEMMA KeptMoves ==
    ASSUME TypeOK, Placed, Numbered, Sides, Next, NEW u \in Users, NEW c \in Connections, NEW r,
           user[u] = "replying", c = conn[u], r = request[u], Up(c), Up(c)', OnItsWay(r)
    PROVE  OnItsWay(r)' \/ reply'[u] # NoRequest
  <1>0. r # NoRequest /\ r \in 0..MaxRequests /\ input \in [Ends -> Seq(Frames)]
    BY RemotingAssumption DEF TypeOK, Numbered
  <1>1. \A d, ch : Flying(d, ch, r) => d = c /\ ch = channel[u]
    <2>1. user[u] # "idle"
      OBVIOUS
    <2>2. QED
      BY <2>1, Zenon DEF Numbered
  <1>2. ASSUME NEW e \in Ends, NEW f \in Elements(input[e]), Is(f, r)
        PROVE  OnItsWay(r)' \/ reply'[u] # NoRequest
    <2>1. e[2] = c /\ f.channel = channel[u]
      <3>1. Flying(e[2], f.channel, r)
        BY <1>2 DEF Flying, Is
      <3>2. QED
        BY <1>1, <3>1
    <2>2. thread[e] = "polling"
      BY <2>1, EndFacts DEF Up, Placed
    <2>3. CASE ~ReceiveFrame(e) /\ ~\E d \in Connections : Refuse(d) /\ e = Server(d)
      <3>0. ~FrameFails(e)
        <4>1. e \in {Client(c), Server(c)}
          BY <2>1, EndFacts
        <4>2. state'[e] = "ESTABLISHED"
          BY <4>1 DEF Up
        <4>3. FrameFails(e) => state'[e] = "ABORTED"
          BY DEF FrameFails, TypeOK
        <4>4. QED
          BY <4>2, <4>3
      <3>1. f \in Elements(input'[e])
        BY <1>2, <2>1, <2>2, <2>3, <3>0, InputKept DEF Up
      <3>2. QED
        BY <1>2, <3>1 DEF OnItsWay, Carries
    <2>4. CASE ReceiveFrame(e)
      <3> DEFINE g == Head(input[e])
      <3>1. /\ input[e] # <<>> /\ input' = [input EXCEPT ![e] = Tail(@)]
            /\ Serve(e[2], g) /\ Give(g, Takers(e[2], g))
        BY <2>4 DEF ReceiveFrame, HandleFrame
      <3>2. g \in Elements(input[e])
        BY <1>0, <3>1, TailFacts
      <3>3. Carries(Tail(input[e]), r) \/ Is(g, r)
        BY <1>0, <1>2, <3>1, OnceTail DEF Carries
      <3> HIDE DEF g
      <3>4. CASE Carries(Tail(input[e]), r)
        BY <1>0, <3>1, <3>4 DEF OnItsWay
      <3>5. CASE Is(g, r) /\ g.type = "REQU"
        <4>1. [conn |-> e[2], channel |-> g.channel, request |-> g.request] \in serving'
          BY <3>1, <3>5 DEF Serve
        <4>2. PICK s \in serving' : s.request = g.request
          BY <4>1
        <4>3. QED
          BY <3>5, <4>2 DEF OnItsWay, Is
      <3>6. CASE Is(g, r) /\ g.type = "REPL"
        <4>1. Flying(e[2], g.channel, r)
          BY <3>2, <3>6 DEF Flying, Is
        <4>2. g.channel = channel[u]
          BY <1>1, <4>1
        <4>3. u \in Takers(e[2], g)
          BY <2>1, <3>6, <4>2 DEF Takers
        <4>4. reply'[u] = IF reply[u] = NoRequest THEN g.request ELSE reply[u]
          BY <3>1, <4>3 DEF Give
        <4>5. QED
          BY <1>0, <3>6, <4>4 DEF Is
      <3>7. QED
        BY <3>3, <3>4, <3>5, <3>6 DEF Is
    <2>5. ASSUME NEW d \in Connections, Refuse(d), e = Server(d) PROVE OnItsWay(r)'
      <3>1. PICK g : g = Head(input[e])
        OBVIOUS
      <3>2. PICK h : h = REPL(g.channel, g.request)
        OBVIOUS
      <3>3. PICK received : received = [input EXCEPT ![e] = Tail(@)]
        OBVIOUS
      <3>4. ~SendThrows(e) /\ d = c
        <4>1. d = c
          BY <2>1, <2>5 DEF Server
        <4>2. QED
          BY <2>1, <2>5, <4>1, EndFacts DEF SendThrows, Lost, Closed, Up, Placed
      <3>5. input[e] # <<>> /\ input' = Sent(received, e, h)
        BY <2>5, <3>1, <3>2, <3>3, <3>4 DEF Refuse
      <3>6. g \in Frames /\ h \in Frames
        <4>1. g \in Frames
          BY <1>0, <3>1, <3>5, TailFacts
        <4>2. QED
          BY <3>2, <4>1, FrameFacts DEF Frames
      <3>7. received \in [Ends -> Seq(Frames)] /\ received[e] = Tail(input[e])
        BY <1>0, <3>3, <3>5, TailFacts
      <3>8. Carries(Tail(input[e]), r) \/ Is(g, r)
        BY <1>0, <1>2, <3>1, <3>5, OnceTail DEF Carries
      <3>9. CASE Carries(Tail(input[e]), r)
        <4>1. Elements(received[e]) \subseteq Elements(Sent(received, e, h)[e])
          BY <3>6, <3>7, SentKeeps
        <4>2. QED
          BY <3>5, <3>7, <3>9, <4>1 DEF OnItsWay, Carries
      <3>10. CASE Is(g, r)
        <4>1. h \in Elements(Sent(received, e, h)[Peer(e)])
          BY <2>5, <3>4, <3>6, <3>7, Arrives
        <4>2. Is(h, r)
          BY <3>2, <3>10, NothingFacts DEF Is
        <4>3. QED
          BY <3>5, <4>1, <4>2, EndFacts DEF OnItsWay, Carries
      <3>11. QED
        BY <3>8, <3>9, <3>10
    <2>6. QED
      BY <2>3, <2>4, <2>5
  <1>3. ASSUME NEW s \in serving, s.request = r
        PROVE  OnItsWay(r)'
    <2>1. s.conn = c
      <3>1. Flying(s.conn, s.channel, r)
        BY <1>3 DEF Flying
      <3>2. QED
        BY <1>1, <3>1
    <2>2. CASE s \in serving'
      BY <1>3, <2>2 DEF OnItsWay
    <2>3. CASE Answer(s)
      <3>1. REPL(s.channel, r) \in Frames
        BY <1>0, FrameFacts DEF TypeOK
      <3>2. ~SendThrows(Server(c))
        BY EndFacts DEF SendThrows, Lost, Closed, Up, Placed, Server
      <3>3. input' = Sent(input, Server(c), REPL(s.channel, r))
        BY <1>3, <2>1, <2>3, <3>2 DEF Answer, Up
      <3>4. REPL(s.channel, r) \in Elements(input'[Peer(Server(c))])
        BY <1>0, <3>1, <3>3, Arrives
      <3>5. QED
        BY <3>4, EndFacts, NothingFacts DEF OnItsWay, Carries
    <2>4. QED
      BY <2>2, <2>3, Leaves
  <1>4. \A s \in leftover : s.request # r
    BY DEF Numbered
  <1>5. QED
    BY <1>2, <1>3, <1>4 DEF OnItsWay, Carries

\* Every step keeps the requests.
LEMMA KeptNext ==
    ASSUME TypeOK, Placed, Handshaken, Numbered, Sides, Kept, Next
    PROVE  Kept'
  <1> SUFFICES ASSUME NEW u \in Users, NEW c, NEW r,
                      user'[u] = "replying", c = conn'[u], r = request'[u], Up(c)'
               PROVE  OnItsWay(r)' \/ reply'[u] # NoRequest
    BY DEF Kept
  <1>1. GoesOn(u) /\ (user[u] = "replying" \/ Requests(u)) /\ r = request[u]
    <2>1. GoesOn(u)
      BY UserSteps DEF Begins
    <2>2. QED
      BY <2>1 DEF GoesOn
  <1>2. c = conn[u]
    BY <1>1 DEF GoesOn, Requests, SendFrame
  <1>3. c \in Connections /\ Talking(u, c)
    <2>1. user[u] \in {"connected", "replying"}
      BY <1>1 DEF Requests, SendRequest
    <2>2. QED
      BY <1>2, <2>1, RemotingAssumption DEF TypeOK, Connections, NoConnection, Talking
  <1>4. Up(c)
    BY <1>3, UpBefore
  <1>5. CASE Requests(u)
    <2>1. input' = Sent(input, Client(c), REQU(channel[u], r))
      BY <1>1, <1>2, <1>5 DEF Requests, SendFrame
    <2>2. REQU(channel[u], r) \in Frames
      <3>1. channel[u] \in Nat /\ request[u] \in 0..MaxRequests
        BY RemotingAssumption DEF TypeOK
      <3>2. QED
        BY <1>1, <3>1, FrameFacts
    <2>3. REQU(channel[u], r) \in Elements(input'[Peer(Client(c))])
      BY <1>3, <1>4, <2>1, <2>2, Arrives DEF TypeOK
    <2>4. QED
      BY <1>3, <2>3, EndFacts, NothingFacts DEF OnItsWay, Carries
  <1>6. CASE user[u] = "replying"
    <2>1. CASE reply[u] # NoRequest
      BY <2>1, Leaves
    <2>2. CASE OnItsWay(r)
      BY <1>1, <1>2, <1>3, <1>4, <1>6, <2>2, KeptMoves
    <2>3. QED
      BY <1>1, <1>2, <1>4, <1>6, <2>1, <2>2 DEF Kept
  <1>7. QED
    BY <1>1, <1>5, <1>6

-----------------------------------------------------------------------------
(* Where every request is. *)

\* A request that was refused is neither served nor sent again.
Refusals ==
    \A r \in refused :
        /\ r \in 1..requests
        /\ \A s \in serving \cup leftover : s.request # r
        /\ \A c \in Connections : ~Carries(input[Server(c)], r)
        /\ \A u \in Users : request[u] = r => user[u] = "replying"

LEMMA RefusalsNext ==
    ASSUME TypeOK, Numbered, Sides, \A r \in 1..MaxRequests : Single(r), Refusals, Next
    PROVE  Refusals'
  <1>0. requests \in 0..MaxRequests /\ requests' \in {requests, requests + 1} /\ MaxRequests \in Nat
    BY CountSteps, RemotingAssumption DEF TypeOK
  <1> SUFFICES ASSUME NEW r \in refused'
               PROVE  /\ r \in 1..requests'
                      /\ \A s \in serving' \cup leftover' : s.request # r
                      /\ \A c \in Connections : ~Carries(input'[Server(c)], r)
                      /\ \A u \in Users : request'[u] = r => user'[u] = "replying"
    BY DEF Refusals
  <1>1. CASE r \in refused
    <2>1. /\ r \in 1..requests /\ r # NoRequest /\ r # requests + 1 /\ r \in 1..requests'
          /\ \A s \in serving \cup leftover : s.request # r
          /\ \A c \in Connections : ~Carries(input[Server(c)], r)
          /\ \A u \in Users : request[u] = r => user[u] = "replying"
      <3>1. r \in 1..requests
        BY <1>1 DEF Refusals
      <3>2. r # NoRequest /\ r # requests + 1 /\ r \in 1..requests'
        BY <1>0, <3>1 DEF NoRequest
      <3>3. QED
        BY <1>1, <3>1, <3>2 DEF Refusals
    <2>2. ASSUME NEW s \in serving', s.request = r PROVE FALSE
      <3>1. s \notin serving
        BY <2>1, <2>2
      <3>2. PICK e \in Ends : ReceiveFrame(e)
        BY <3>1, Receives
      <3>3. PICK f : f = Head(input[e])
        OBVIOUS
      <3>4. input[e] # <<>> /\ Serve(e[2], f)
        BY <3>2, <3>3 DEF ReceiveFrame, HandleFrame
      <3>5. f.type = "REQU" /\ f.request = r
        BY <2>2, <3>1, <3>4 DEF Serve
      <3>6. f \in Elements(input[e])
        BY <3>3, <3>4, TailFacts DEF TypeOK
      <3>7. e = Server(e[2]) /\ e[2] \in Connections
        BY <3>5, <3>6, EndFacts DEF Sides
      <3>8. QED
        BY <2>1, <3>5, <3>6, <3>7 DEF Carries, Is
    <2>3. ASSUME NEW s \in leftover', s.request = r PROVE FALSE
      BY <2>1, <2>3, LeftBehind DEF Keeps
    <2>4. ASSUME NEW c \in Connections, Carries(input'[Server(c)], r) PROVE FALSE
      <3>1. PICK f \in Elements(input'[Server(c)]) : Is(f, r)
        BY <2>4 DEF Carries
      <3>2. Server(c) \in Ends /\ \A d \in Connections : Server(c) # Client(d)
        BY EndFacts
      <3>3. Origin(Server(c), f)
        BY <2>1, <3>1, <3>2, NewFrames DEF Carries
      <3>4. \/ \E u \in Users : Requests(u) /\ request[u] = r
            \/ \E s \in leftover : s.request = r
        BY <3>1, <3>2, <3>3, NothingFacts DEF Origin
      <3>5. QED
        BY <2>1, <3>4 DEF Requests, SendRequest
    <2>5. ASSUME NEW u \in Users, request'[u] = r PROVE user'[u] = "replying"
      BY <2>1, <2>5, UserSteps DEF GoesOn, Begins
    <2>6. QED
      BY <2>1, <2>2, <2>3, <2>4, <2>5
  <1>2. CASE r \notin refused
    <2>1. PICK c \in Connections : Refuse(c)
      BY <1>2, NetworkSteps
    <2>2. PICK e, f : e = Server(c) /\ f = Head(input[e])
      OBVIOUS
    <2>3. /\ input[e] # <<>> /\ f.type = "REQU" /\ f.request = r
          /\ UNCHANGED <<user, request, serving, leftover, requests>>
      BY <1>2, <2>1, <2>2 DEF Refuse, users
    <2>4. e \in Ends /\ f \in Elements(input[e]) /\ Is(f, r) /\ r \in 0..MaxRequests
      <3>1. e \in Ends /\ input[e] \in Seq(Frames)
        BY <2>2, EndFacts DEF TypeOK
      <3>2. f \in Elements(input[e]) /\ f \in Frames
        BY <2>2, <2>3, <3>1, TailFacts
      <3>3. QED
        BY <2>3, <3>1, <3>2 DEF Is, Frames
    <2>5. Flying(e[2], f.channel, r)
      BY <2>3, <2>4 DEF Flying
    <2>6. r \in 1..requests /\ r \in 1..MaxRequests /\ r # NoRequest
      <3>1. r \in 1..requests
        BY <2>5 DEF Numbered
      <3>2. QED
        BY <1>0, <3>1 DEF NoRequest
    <2>7. \A s \in serving \cup leftover : s.request # r
      BY <2>4, <2>6 DEF Single, Carries
    <2>8. \A d \in Connections : ~Carries(input'[Server(d)], r)
      BY <2>1, <2>2, <2>4, <2>6, RefuseFacts, EndFacts
    <2>9. \A u \in Users : request[u] = r => user[u] = "replying"
      BY <2>5, <2>6 DEF Numbered
    <2>10. QED
      BY <2>3, <2>6, <2>7, <2>8, <2>9
  <1>3. QED
    BY <1>1, <1>2

Located ==
    /\ Handshaken /\ Numbered /\ Sides
    /\ \A r \in 1..MaxRequests : Single(r)
    /\ Kept /\ Refusals

LEMMA LocatedInit == Init => Located
  <1> SUFFICES ASSUME Init PROVE Located
    OBVIOUS
  <1>1. \A e \in Ends : input[e] = <<>> /\ Elements(input[e]) = {} /\ thread[e] = "new" /\ state[e] = "PRE_HANDSHAKE"
    BY EmptyFacts DEF Init
  <1>2. serving = {} /\ leftover = {} /\ refused = {} /\ \A u \in Users : user[u] = "idle" /\ request[u] = NoRequest /\ reply[u] = NoRequest
    BY DEF Init
  <1>3. \A c, ch, r : ~Flying(c, ch, r)
    BY <1>1, <1>2 DEF Flying
  <1>4. \A r : ~OnItsWay(r) /\ \A e \in Ends : Once(input[e], r) /\ ~Carries(input[e], r)
    BY <1>1, <1>2, NothingFacts DEF OnItsWay
  <1>5. Handshaken
    BY <1>1, <1>2, EndFacts DEF Handshaken, Talking
  <1>6. Numbered /\ Sides /\ Kept /\ Refusals
    BY <1>1, <1>2, <1>3 DEF Numbered, Sides, Kept, Refusals
  <1>7. \A r \in 1..MaxRequests : Single(r)
    BY <1>2, <1>4 DEF Single
  <1>8. QED
    BY <1>5, <1>6, <1>7 DEF Located

LEMMA LocatedNext == Inv /\ Located /\ [Next]_vars => Located'
  <1> SUFFICES ASSUME Inv, Located, [Next]_vars PROVE Located'
    OBVIOUS
  <1>1. CASE Next
    <2>1. Handshaken' /\ Numbered' /\ Sides' /\ Kept'
      BY <1>1, HandshakenNext, NumberedNext, SidesNext, KeptNext DEF Inv, Located
    <2>2. \A r \in 1..MaxRequests : Single(r)'
      BY <1>1, SingleNext DEF Inv, Located
    <2>3. Refusals'
      BY <1>1, RefusalsNext DEF Inv, Located
    <2>4. QED
      BY <2>1, <2>2, <2>3 DEF Located
  <1>2. CASE UNCHANGED vars
    <2>1. /\ UNCHANGED <<state, thread, input, user, conn, channel, request, reply>>
          /\ UNCHANGED <<leftover, serving, requests, broken, stalled, refused>>
      BY <1>2 DEF vars, ends, users, history
    <2>2. \A c, ch, r : Flying(c, ch, r)' <=> Flying(c, ch, r)
      BY <2>1 DEF Flying
    <2>3. \A r : OnItsWay(r)' <=> OnItsWay(r)
      BY <2>1 DEF OnItsWay
    <2>4. Handshaken' /\ Sides'
      BY <2>1 DEF Located, Handshaken, Sides, Talking, Ready
    <2>5. Numbered'
      <3>1. Numbered
        BY DEF Located
      <3>2. /\ \A u \in Users : request'[u] = NoRequest <=> user'[u] = "idle"
            /\ \A u, v \in Users : request'[u] = request'[v] /\ request'[u] # NoRequest => u = v
            /\ \A s \in leftover', u \in Users : request'[u] # s.request
        BY <2>1, <3>1 DEF Numbered
      <3>3. \A c, ch, r : Flying(c, ch, r)' => r \in 1..requests'
        BY <2>1, <2>2, <3>1 DEF Numbered
      <3>4. \A u \in Users : \A c, ch, r : user'[u] # "idle" /\ r = request'[u] /\ Flying(c, ch, r)'
                => user'[u] = "replying" /\ conn'[u] = c /\ channel'[u] = ch
        <4>1. \A u \in Users : \A c, ch, r : user[u] # "idle" /\ r = request[u] /\ Flying(c, ch, r)
                  => user[u] = "replying" /\ conn[u] = c /\ channel[u] = ch
          BY <3>1, Zenon DEF Numbered
        <4>2. QED
          BY <2>1, <2>2, <4>1
      <3>5. QED
        BY <3>2, <3>3, <3>4 DEF Numbered
    <2>6. \A r \in 1..MaxRequests : Single(r)'
      BY <2>1, <2>3 DEF Located, Single
    <2>7. Kept'
      <3>1. \A c : Up(c)' <=> Up(c)
        BY <2>1 DEF Up
      <3>2. QED
        BY <2>1, <2>3, <3>1 DEF Located, Kept
    <2>8. Refusals'
      BY <2>1 DEF Located, Refusals
    <2>9. QED
      BY <2>4, <2>5, <2>6, <2>7, <2>8 DEF Located
  <1>3. QED
    BY <1>1, <1>2

LEMMA LocatedHolds == Spec => []Located
  BY InvHolds, LocatedInit, LocatedNext, PTL DEF Spec

\* How often a buffer carries a request, by the type of its frames.
LEMMA ArrivingFacts ==
    ASSUME TypeOK, Sides, NEW e \in Ends, NEW r, Once(input[e], r),
           NEW type, type = IF e[1] = "server" THEN "REQU" ELSE "REPL"
    PROVE  Cardinality({i \in DOMAIN input[e] : input[e][i].type = type /\ input[e][i].request = r})
             = IF Carries(input[e], r) THEN 1 ELSE 0
  <1> DEFINE arriving == {i \in DOMAIN input[e] : input[e][i].type = type /\ input[e][i].request = r}
  <1>1. \A i \in DOMAIN input[e] : i \in arriving <=> Is(input[e][i], r)
    BY EndFacts DEF Is, Sides, Elements
  <1>2. CASE Carries(input[e], r)
    <2>1. PICK i \in DOMAIN input[e] : Is(input[e][i], r)
      BY <1>2 DEF Carries, Elements
    <2>2. arriving = {i}
      BY <1>1, <2>1 DEF Once
    <2>3. QED
      BY <1>2, <2>2, FS_Singleton
  <1>3. CASE ~Carries(input[e], r)
    <2>1. arriving = {}
      BY <1>1, <1>3 DEF Carries, Elements
    <2>2. QED
      BY <1>3, <2>1, FS_EmptySet
  <1>4. QED
    BY <1>2, <1>3

LEMMA ServedFacts ==
    ASSUME NEW r, Single(r)
    PROVE  Cardinality({s \in serving : s.request = r}) = IF \E s \in serving : s.request = r THEN 1 ELSE 0
  <1>1. CASE \E s \in serving : s.request = r
    <2>1. PICK s \in serving : s.request = r
      BY <1>1
    <2>2. {t \in serving : t.request = r} = {s}
      BY <2>1 DEF Single
    <2>3. QED
      BY <1>1, <2>2, FS_Singleton
  <1>2. CASE ~\E s \in serving : s.request = r
    <2>1. {t \in serving : t.request = r} = {}
      BY <1>2
    <2>2. QED
      BY <1>2, <2>1, FS_EmptySet
  <1>3. QED
    BY <1>1, <1>2

\* While a connection is up at both ends and sending on it does not time out,
\* every request on it that somebody waits for is in exactly one place: none is
\* lost, none is doubled.
THEOREM NoLostRequestHolds == Spec => []NoLostRequest
  <1>1. ASSUME Inv, Located, NEW u \in Users, user[u] = "replying", Up(conn[u])
        PROVE  Cardinality({i \in DOMAIN input[Server(conn[u])] :
                                /\ input[Server(conn[u])][i].type = "REQU"
                                /\ input[Server(conn[u])][i].request = request[u]})
                 + Cardinality({i \in DOMAIN input[Client(conn[u])] :
                                    /\ input[Client(conn[u])][i].type = "REPL"
                                    /\ input[Client(conn[u])][i].request = request[u]})
                 + Cardinality({s \in serving : s.request = request[u]})
                 + (IF reply[u] = NoRequest THEN 0 ELSE 1) = 1
    <2> DEFINE c == conn[u]
               r == request[u]
               there == Carries(input[Server(c)], r)
               back == Carries(input[Client(c)], r)
               served == \E s \in serving : s.request = r
               replied == reply[u] # NoRequest
    <2>1. c \in Connections /\ r \in 1..MaxRequests /\ Single(r)
      <3>1. r \in 0..requests /\ requests \in 0..MaxRequests /\ r # 0 /\ c \in 0..created /\ c # 0 /\ created \in 0..MaxConnections
        BY <1>1 DEF Inv, TypeOK, Located, Numbered, NoRequest, NoConnection
      <3>2. QED
        BY <1>1, <3>1, RemotingAssumption DEF Located, Connections
    <2>2. /\ Client(c) \in Ends /\ Server(c) \in Ends /\ Client(c) # Server(c)
          /\ Client(c)[1] # "server" /\ Server(c)[1] = "server"
      BY <2>1, EndFacts DEF Client, Server
    <2>3. /\ Cardinality({i \in DOMAIN input[Server(c)] :
                            /\ input[Server(c)][i].type = "REQU"
                            /\ input[Server(c)][i].request = r}) = IF there THEN 1 ELSE 0
          /\ Cardinality({i \in DOMAIN input[Client(c)] :
                            /\ input[Client(c)][i].type = "REPL"
                            /\ input[Client(c)][i].request = r}) = IF back THEN 1 ELSE 0
      BY <1>1, <2>1, <2>2, ArrivingFacts DEF Inv, Located, Single
    <2>4. Cardinality({s \in serving : s.request = r}) = IF served THEN 1 ELSE 0
      BY <2>1, ServedFacts
    <2>5. OnItsWay(r) <=> there \/ back \/ served
      <3>1. ASSUME NEW e \in Ends, NEW f \in Elements(input[e]), Is(f, r) PROVE e[2] = c
        <4>1. Flying(e[2], f.channel, r)
          BY <3>1 DEF Flying, Is
        <4>2. QED
          <5>1. Numbered /\ user[u] # "idle" /\ r = request[u]
            BY <1>1 DEF Located
          <5>2. \A d, ch, q : q = request[u] /\ Flying(d, ch, q) => conn[u] = d
            BY <5>1, Zenon DEF Numbered
          <5>3. QED
            BY <4>1, <5>2
      <3>2. \A e \in Ends : Carries(input[e], r) => e \in {Client(c), Server(c)}
        BY <3>1, EndFacts DEF Carries
      <3>3. \A s \in leftover : s.request # r
        BY <1>1 DEF Located, Numbered
      <3>4. QED
        BY <2>2, <3>2, <3>3 DEF OnItsWay
    <2>6. OnItsWay(r) \/ replied
      BY <1>1 DEF Located, Kept
    <2>7. ~(there /\ back) /\ ~(there /\ served) /\ ~(back /\ served) /\ ~(replied /\ OnItsWay(r))
      <3>1. replied => reply[u] = r
        BY <1>1 DEF Inv, Tagged
      <3>2. QED
        BY <2>1, <2>2, <3>1 DEF Single
    <2> HIDE DEF c, r, there, back, served, replied
    <2>8. /\ (IF there THEN 1 ELSE 0) + (IF back THEN 1 ELSE 0) + (IF served THEN 1 ELSE 0)
               + (IF replied THEN 1 ELSE 0) = 1
      BY <2>5, <2>6, <2>7
    <2>9. QED
      BY <2>3, <2>4, <2>8 DEF c, r, replied
  <1>2. Inv /\ Located => NoLostRequest
    BY <1>1 DEF NoLostRequest, Up
  <1>3. QED
    BY <1>2, InvHolds, LocatedHolds, PTL

\* Whatever connections do, break, close or time out, and whatever failed calls
\* leave behind: a request and its reply are never in two places, so no request
\* is served twice at the same time.
THEOREM AtMostOncePlaced == Spec => [](\A r \in 1..MaxRequests : Single(r))
  <1>1. Located => \A r \in 1..MaxRequests : Single(r)
    BY DEF Located
  <1>2. QED
    BY <1>1, LocatedHolds, PTL

\* A request that is in no place any more, not even in a stream that its call has
\* left, because it was answered or its connection is gone, never comes back.
GoneForGood ==
    [][\A r \in 1..requests :
          ~OnItsWay(r) /\ (\A u \in Users : request[u] = r => user[u] = "replying") => ~OnItsWay(r)']_vars

\* A request is not sent a second time on any path, though one that was left in
\* its stream is sent late: with AtMostOncePlaced, a remote method is called at
\* most once for it.
THEOREM GoneForGoodHolds == Spec => GoneForGood
  <1> DEFINE A == \A r \in 1..requests :
                      ~OnItsWay(r) /\ (\A u \in Users : request[u] = r => user[u] = "replying") => ~OnItsWay(r)'
  <1>1. Inv /\ [Next]_vars => [A]_vars
    <2> SUFFICES ASSUME Inv, Next, NEW r \in 1..requests, ~OnItsWay(r),
                        \A u \in Users : request[u] = r => user[u] = "replying"
                 PROVE  ~OnItsWay(r)'
      OBVIOUS
    <2>1. \A c, ch : ~Flying(c, ch, r)
      BY FlyingFacts
    <2>2. \A u \in Users : Requests(u) \/ Keeps(u) => request[u] # r
      BY DEF Requests, Keeps, SendRequest
    <2>3. \A c, ch : ~Flying(c, ch, r)'
      BY <2>1, <2>2, FlyingNext DEF Inv
    <2>4. OnItsWay(r)' => \E c, ch : Flying(c, ch, r)'
      BY DEF OnItsWay, Carries, Is, Flying
    <2>5. QED
      BY <2>3, <2>4
  <1>2. QED
    BY <1>1, InvHolds, PTL DEF Spec, GoneForGood

-----------------------------------------------------------------------------
(* Remoting implements RemoteCall. *)

\* What a buffer has, after a frame was appended or taken.
LEMMA HasFacts ==
    ASSUME NEW S, NEW q \in Seq(S), NEW type, NEW r
    PROVE  /\ ~Has(<<>>, type, r)
           /\ \A f \in S : Has(Append(q, f), type, r) <=> Has(q, type, r) \/ (f.type = type /\ f.request = r)
           /\ q # <<>> /\ (Head(q).type # type \/ Head(q).request # r) => (Has(Tail(q), type, r) <=> Has(q, type, r))
  <1>1. \A p : Has(p, type, r) <=> \E f \in Elements(p) : f.type = type /\ f.request = r
    BY DEF Has, Elements
  <1>2. ~Has(<<>>, type, r)
    BY <1>1, EmptyFacts
  <1>3. ASSUME NEW f \in S
        PROVE  Has(Append(q, f), type, r) <=> Has(q, type, r) \/ (f.type = type /\ f.request = r)
    <2>1. Elements(Append(q, f)) = Elements(q) \cup {f}
      BY AppendFacts
    <2>2. QED
      BY <1>1, <2>1
  <1>4. ASSUME q # <<>>, Head(q).type # type \/ Head(q).request # r
        PROVE  Has(Tail(q), type, r) <=> Has(q, type, r)
    <2>1. Elements(Tail(q)) \subseteq Elements(q)
      BY <1>4, TailFacts
    <2>2. ASSUME NEW i \in DOMAIN q, q[i].type = type, q[i].request = r
          PROVE  Has(Tail(q), type, r)
      <3>1. /\ Len(q) \in Nat \ {0} /\ Len(Tail(q)) = Len(q) - 1 /\ Head(q) = q[1]
            /\ \A j \in 1..(Len(q) - 1) : Tail(q)[j] = q[j + 1]
            /\ Tail(q) \in Seq(S)
        BY <1>4
      <3>2. DOMAIN q = 1..Len(q) /\ DOMAIN Tail(q) = 1..(Len(q) - 1)
        BY <3>1, LenProperties
      <3>3. i - 1 \in 1..(Len(q) - 1) /\ (i - 1) + 1 = i
        BY <1>4, <2>2, <3>1, <3>2
      <3>4. Tail(q)[i - 1] = q[i]
        BY <3>1, <3>3
      <3>5. QED
        BY <2>2, <3>2, <3>3, <3>4 DEF Has
    <2>3. QED
      BY <1>1, <2>1, <2>2 DEF Has
  <1>5. QED
    BY <1>2, <1>3, <1>4

\* A frame that was sent is in the peer's buffer, if anywhere, and nothing else
\* is new.
LEMMA HasSent ==
    ASSUME NEW before \in [Ends -> Seq(Frames)], NEW e \in Ends, NEW f \in Frames, NEW d \in Ends,
           NEW type, NEW r, d # Peer(e) \/ f.type # type \/ f.request # r
    PROVE  Has(Sent(before, e, f)[d], type, r) <=> Has(before[d], type, r)
  <1> DEFINE after == Sent(before, e, f)
  <1>1. \/ after[d] = before[d]
        \/ d = Peer(e) /\ after[d] = Append(before[d], f)
    BY SentFacts
  <1> HIDE DEF after
  <1>2. before[d] \in Seq(Frames)
    OBVIOUS
  <1>3. CASE d = Peer(e) /\ after[d] = Append(before[d], f)
    BY <1>2, <1>3, HasFacts DEF after
  <1>4. QED
    BY <1>1, <1>3 DEF after

\* The places of a request exclude each other.
Determined(r) ==
    /\ PlaceOf(r) = "unsent" <=> Unsent(r)
    /\ PlaceOf(r) = "left" <=> Left(r)
    /\ PlaceOf(r) = "executed" <=> Executed(r)
    /\ PlaceOf(r) = "sent" <=> Underway(r)
    /\ PlaceOf(r) = "refused" <=> Replied(r) /\ r \in refused
    /\ PlaceOf(r) = "replied" <=> Replied(r) /\ r \notin refused
    /\ OnItsWay(r) <=> Left(r) \/ Executed(r) \/ Underway(r) \/ Replied(r)

LEMMA PlaceFacts == TypeOK /\ Located => \A r \in Numbers : Determined(r)
  <1> SUFFICES ASSUME TypeOK, Located, NEW r \in Numbers PROVE Determined(r)
    OBVIOUS
  <1>0. Single(r) /\ r # NoRequest
    BY RemotingAssumption DEF Located, Numbers, NoRequest
  <1>1. ASSUME NEW c \in Connections
        PROVE  /\ Has(input[Server(c)], "REQU", r) <=> Carries(input[Server(c)], r)
               /\ Has(input[Client(c)], "REPL", r) <=> Carries(input[Client(c)], r)
    <2>1. /\ \A f \in Elements(input[Server(c)]) : f.type # "REPL"
          /\ \A f \in Elements(input[Client(c)]) : f.type # "REQU"
      BY EndFacts DEF Located, Sides, Client, Server
    <2>2. QED
      BY <2>1 DEF Has, Carries, Is, Elements
  <1>2. (\E e \in Ends : Carries(input[e], r)) <=> Underway(r) \/ Replied(r)
    BY <1>1, EndFacts DEF Underway, Replied
  <1>3. OnItsWay(r) <=> Left(r) \/ Executed(r) \/ Underway(r) \/ Replied(r)
    BY <1>2 DEF OnItsWay, Executed, Left
  <1>4. /\ ~(Executed(r) /\ (Underway(r) \/ Replied(r)))
        /\ ~(Left(r) /\ (Executed(r) \/ Underway(r) \/ Replied(r)))
    BY <1>0, <1>2 DEF Single, Executed, Left
  <1>5. ~(Underway(r) /\ Replied(r))
    BY <1>0, <1>1, EndFacts DEF Single, Underway, Replied
  <1>6. ~(Unsent(r) /\ OnItsWay(r))
    <2> SUFFICES ASSUME Unsent(r), OnItsWay(r) PROVE FALSE
      OBVIOUS
    <2>1. PICK c, ch : Flying(c, ch, r)
      BY FlyingFacts
    <2>2. r \in 1..requests /\ requests \in Nat
      BY <2>1, RemotingAssumption DEF Located, Numbered, TypeOK
    <2>3. PICK u \in Users : request[u] = r /\ user[u] # "replying"
      <3>1. ~(r > requests)
        BY <2>2
      <3>2. QED
        BY <3>1 DEF Unsent
    <2>4. user[u] # "idle"
      BY <1>0, <2>3 DEF Located, Numbered
    <2>5. QED
      BY <2>1, <2>3, <2>4 DEF Located, Numbered
  <1>7. QED
    BY <1>3, <1>4, <1>5, <1>6 DEF Determined, PlaceOf

\* A step that moves no request is invisible in the call.
LEMMA NothingMoves ==
    ASSUME UNCHANGED <<request, reply, serving, leftover, refused>>, \A r \in Numbers : Unsent(r)' <=> Unsent(r),
           \A r \in Numbers, c \in Connections :
               /\ Has(input'[Server(c)], "REQU", r) <=> Has(input[Server(c)], "REQU", r)
               /\ Has(input'[Client(c)], "REPL", r) <=> Has(input[Client(c)], "REPL", r)
    PROVE  UNCHANGED C!remote
  <1>1. ASSUME NEW r \in Numbers PROVE PlaceOf(r)' = PlaceOf(r)
    <2>1. (Underway(r)' <=> Underway(r)) /\ (Replied(r)' <=> Replied(r))
      BY DEF Underway, Replied
    <2>2. (Executed(r)' <=> Executed(r)) /\ (Left(r)' <=> Left(r))
      BY DEF Executed, Left
    <2>3. QED
      BY <2>1, <2>2 DEF PlaceOf
  <1>2. place' = place /\ answer' = answer
    BY <1>1 DEF place, answer
  <1>3. QED
    BY <1>2 DEF C!remote

\* So is every step of a connection's thread that neither takes a frame nor closes
\* the socket.
LEMMA ThreadInvisible ==
    ASSUME TypeOK, NEW e \in Ends, EndStep(e),
           ~ReceiveFrame(e), ~FrameFails(e), ~FinishClose(e), ~FinishAbort(e)
    PROVE  UNCHANGED C!remote
  <1> USE DEF users, history
  <1>1. /\ UNCHANGED <<request, reply, serving, leftover, refused>>
        /\ UNCHANGED <<user, requests>>
    BY EndKeeps
  <1>2. \A r \in Numbers : Unsent(r)' <=> Unsent(r)
    BY <1>1 DEF Unsent
  <1>3. input \in [Ends -> Seq(Frames)] /\ HELO \in Frames /\ BYE \in Frames
    BY FrameFacts DEF TypeOK
  <1>4. ASSUME NEW d \in Ends, NEW r, NEW type \in {"REQU", "REPL"}
        PROVE  Has(input'[d], type, r) <=> Has(input[d], type, r)
    <2>1. HELO.type # type /\ BYE.type # type
      BY NothingFacts
    <2>2. CASE Start(e)
      <3>1. input' \in {input, Sent(input, e, HELO)}
        BY <2>2 DEF Start
      <3>2. QED
        BY <1>3, <2>1, <3>1, HasSent
    <2>3. CASE Establish(e)
      <3> DEFINE received == [input EXCEPT ![e] = Tail(@)]
      <3>1. /\ input[e] # <<>> /\ Head(input[e]).type = "HELO"
            /\ input' \in {received, Sent(received, e, HELO)}
        BY <2>3 DEF Establish
      <3>2. Tail(input[e]) \in Seq(Frames)
        BY <1>3, <3>1, TailFacts
      <3>3. /\ received \in [Ends -> Seq(Frames)] /\ received[e] = Tail(input[e])
            /\ d # e => received[d] = input[d]
        BY <1>3, <3>2
      <3> HIDE DEF received
      <3>4. Has(received[d], type, r) <=> Has(input[d], type, r)
        <4>1. input[e] \in Seq(Frames) /\ Head(input[e]).type # type
          BY <1>3, <2>1, <3>1 DEF HELO
        <4>2. Has(Tail(input[e]), type, r) <=> Has(input[e], type, r)
          BY <3>1, <4>1, HasFacts
        <4>3. QED
          BY <3>3, <4>2
      <3>5. Has(Sent(received, e, HELO)[d], type, r) <=> Has(received[d], type, r)
        BY <1>3, <2>1, <3>3, HasSent
      <3>6. QED
        BY <3>1, <3>4, <3>5
    <2>4. CASE SendBYE(e)
      <3>1. input' \in {input, Sent(input, e, BYE)}
        BY <2>4 DEF SendBYE
      <3>2. QED
        BY <1>3, <2>1, <3>1, HasSent
    <2>5. CASE HandshakeFails(e) \/ ReceiveThrows(e) \/ PollTimesOut(e) \/ IdleTimesOut(e) \/ SkipBYE(e)
      BY <2>5 DEF HandshakeFails, ReceiveThrows, PollTimesOut, IdleTimesOut, SkipBYE
    <2>6. QED
      BY <2>2, <2>3, <2>4, <2>5 DEF EndStep, Thread
  <1>5. QED
    BY <1>1, <1>2, <1>4, EndFacts, NothingMoves

\* And what getConnection() does after the call has begun, and shutdown().
LEMMA ManagerInvisible ==
    ASSUME TypeOK, ShutdownStep \/ \E u \in Users : Connected(u) \/ ConnectClosing(u) \/ CreateConnectionThrows(u)
    PROVE  UNCHANGED C!remote
  <1>1. UNCHANGED <<request, reply, leftover, serving, input, requests, refused>>
    <2>1. CASE ShutdownStep
      BY <2>1, ShutdownKeeps DEF users, history
    <2>2. CASE ~ShutdownStep
      BY <2>2 DEF Connected, Begin, ConnectClosing, CreateConnectionThrows, ends, users, history
    <2>3. QED
      BY <2>1, <2>2
  <1>2. \A v \in Users : user'[v] # "replying" <=> user[v] # "replying"
    <2>1. CASE ShutdownStep
      BY <2>1, ShutdownKeeps DEF users
    <2>2. CASE ~ShutdownStep
      BY <2>2 DEF TypeOK, Connected, Begin, ConnectClosing, CreateConnectionThrows, users
    <2>3. QED
      BY <2>1, <2>2
  <1>3. \A r \in Numbers : Unsent(r)' <=> Unsent(r)
    BY <1>1, <1>2 DEF Unsent
  <1>4. QED
    BY <1>1, <1>3, NothingMoves

\* Getting a connection begins the call.
LEMMA CallBegins ==
    ASSUME TypeOK, Located, NEW u \in Users, GetConnection(u) \/ CreateConnection(u)
    PROVE  \E r \in Numbers : C!Begin(u, r)
  <1> DEFINE n == requests + 1
  <1>1. /\ user[u] = "idle" /\ requests < MaxRequests
        /\ requests' = n /\ request' = [request EXCEPT ![u] = n]
        /\ UNCHANGED <<reply, leftover, serving, input, refused>>
        /\ user' \in {[user EXCEPT ![u] = "waiting"], [user EXCEPT ![u] = "connected"]}
    BY DEF GetConnection, CreateConnection, NewConnection, Call, Begin, ends
  <1>2. n \in Numbers /\ n > requests /\ requests \in Nat
    BY <1>1, RemotingAssumption DEF TypeOK, Numbers
  <1>3. request[u] = NoRequest /\ \A v \in Users : request[v] # n
    <2>1. \A v \in Users : request[v] \in 0..requests
      BY DEF TypeOK
    <2>2. QED
      BY <1>1, <1>2, <2>1 DEF Located, Numbered
  <1> HIDE DEF n
  <1>4. ASSUME NEW r \in Numbers PROVE Unsent(r)' <=> Unsent(r)
    <2>1. r # NoRequest /\ r \in Nat
      BY RemotingAssumption DEF Numbers, NoRequest
    <2>2. r = n => Unsent(r)' /\ Unsent(r)
      BY <1>1, <1>2 DEF Unsent, TypeOK
    <2>3. r # n => (r > requests' <=> r > requests)
      BY <1>1, <1>2, <2>1 DEF n
    <2>4. ASSUME r # n, NEW v \in Users
          PROVE  request'[v] = r /\ user'[v] # "replying" <=> request[v] = r /\ user[v] # "replying"
      BY <1>1, <1>3, <2>1, <2>4 DEF TypeOK
    <2>5. QED
      BY <2>2, <2>3, <2>4 DEF Unsent
  <1>5. place' = place /\ answer' = answer
    <2>1. \A r \in Numbers : PlaceOf(r)' = PlaceOf(r)
      BY <1>1, <1>4 DEF PlaceOf, Underway, Replied, Executed, Left
    <2>2. QED
      BY <1>1, <2>1 DEF place, answer
  <1>6. place[n] = "unsent"
    BY <1>2 DEF place, PlaceOf, Unsent
  <1>7. C!Begin(u, n)
    BY <1>1, <1>3, <1>5, <1>6 DEF C!Begin
  <1>8. QED
    BY <1>2, <1>7

\* A step that moves one request.
LEMMA OneMoves ==
    ASSUME NEW n \in Numbers, NEW to, PlaceOf(n)' = to,
           \A r \in Numbers : r # n => PlaceOf(r)' = PlaceOf(r)
    PROVE  place' = [place EXCEPT ![n] = to]
  BY DEF place

\* What flies has been begun.
LEMMA FlyingNumbers ==
    ASSUME TypeOK, Located, NEW c, NEW ch, NEW r, Flying(c, ch, r)
    PROVE  r \in Numbers /\ r \in 1..requests
  <1>1. r \in 1..requests /\ requests \in 0..MaxRequests
    BY DEF Located, Numbered, TypeOK
  <1>2. QED
    BY <1>1, RemotingAssumption DEF Numbers

\* The server's answer is the reply of the call.
LEMMA AnswerReplies ==
    ASSUME TypeOK, Located, NEW s \in serving, Answer(s)
    PROVE  \E r \in Numbers : C!Reply(r)
  <1> DEFINE n == s.request
             e == Server(s.conn)
             f == REPL(s.channel, n)
  <1>1. /\ n \in Numbers /\ e \in Ends /\ f \in Frames /\ f.type = "REPL" /\ f.request = n
        /\ input \in [Ends -> Seq(Frames)]
    <2>1. s.conn \in Connections /\ s.channel \in Nat /\ n \in 0..MaxRequests
      BY RemotingAssumption DEF TypeOK, Connections
    <2>2. Flying(s.conn, s.channel, n)
      BY DEF Flying
    <2>3. QED
      BY <2>1, <2>2, FlyingNumbers, EndFacts, FrameFacts DEF REPL, TypeOK
  <1>2. /\ UNCHANGED <<request, reply, user, requests, leftover, refused>> /\ serving' = serving \ {s}
        /\ input' \in {input, Sent(input, e, f)}
    BY DEF Answer, users, history
  <1>3. Determined(n) /\ Executed(n) /\ Single(n) /\ n \notin refused
    BY <1>1, PlaceFacts DEF Executed, Located, Refusals, Numbers
  <1> HIDE DEF n, e, f
  <1>4. \A r \in Numbers : (Unsent(r)' <=> Unsent(r)) /\ (Left(r)' <=> Left(r))
    BY <1>2 DEF Unsent, Left
  <1>5. \A r \in Numbers : Underway(r)' <=> Underway(r)
    <2>1. \A r \in Numbers, d \in Ends : Has(input'[d], "REQU", r) <=> Has(input[d], "REQU", r)
      BY <1>1, <1>2, HasSent
    <2>2. QED
      BY <2>1, EndFacts DEF Underway
  <1>6. \A r \in Numbers : r # n => (Replied(r)' <=> Replied(r)) /\ (Executed(r)' <=> Executed(r))
    <2>1. \A r \in Numbers, d \in Ends : r # n => (Has(input'[d], "REPL", r) <=> Has(input[d], "REPL", r))
      BY <1>1, <1>2, HasSent
    <2>2. \A r \in Numbers : r # n => (Executed(r)' <=> Executed(r))
      BY <1>2 DEF Executed, n
    <2>3. QED
      BY <2>1, <2>2, EndFacts DEF Replied
  <1>7. ~Executed(n)'
    BY <1>2, <1>3 DEF Executed, Single, n
  <1>8. PlaceOf(n)' \in {"replied", "gone"}
    <2>1. PlaceOf(n) = "executed"
      BY <1>3 DEF Determined
    <2>2. ~Unsent(n) /\ ~Left(n) /\ ~Underway(n)
      BY <1>3, <2>1 DEF Determined
    <2>3. QED
      BY <1>1, <1>2, <1>3, <1>4, <1>5, <1>7, <2>2 DEF PlaceOf
  <1>9. \A r \in Numbers : r # n => PlaceOf(r)' = PlaceOf(r)
    BY <1>2, <1>4, <1>5, <1>6 DEF PlaceOf
  <1>10. place' = [place EXCEPT ![n] = PlaceOf(n)']
    BY <1>1, <1>9, OneMoves
  <1>11. place[n] = "executed"
    BY <1>1, <1>3 DEF place, Determined
  <1>12. C!Reply(n)
    BY <1>2, <1>8, <1>10, <1>11 DEF C!Reply, C!Goes, answer
  <1>13. QED
    BY <1>1, <1>12

\* A Transport sends the request of its call, and is told so.
LEMMA RequestSent ==
    ASSUME TypeOK, Located, NEW u \in Users, Requests(u)
    PROVE  C!Send(u)
  <1>0. PICK n, e, f : n = request[u] /\ e = Client(conn[u]) /\ f = REQU(channel[u], n)
    OBVIOUS
  <1>1. /\ user[u] = "connected" /\ user' = [user EXCEPT ![u] = "replying"]
        /\ UNCHANGED <<request, reply, leftover, requests, serving, refused>>
        /\ input' = Sent(input, e, f)
    BY <1>0 DEF Requests, SendRequest, SendFrame, history
  <1>2. n # NoRequest /\ n \in 0..requests /\ n \in Numbers /\ n \in 1..requests
    <2>1. n # NoRequest /\ n \in 0..requests /\ requests \in 0..MaxRequests
      BY <1>0, <1>1 DEF Located, Numbered, TypeOK
    <2>2. QED
      BY <2>1, RemotingAssumption DEF Numbers, NoRequest
  <1>3. e \in Ends /\ f \in Frames /\ f.type = "REQU" /\ f.request = n /\ input \in [Ends -> Seq(Frames)]
    <2>1. conn[u] \in Connections /\ channel[u] \in Nat /\ n \in 0..MaxRequests
      BY <1>1, <1>2, RemotingAssumption DEF TypeOK, Connections, NoConnection, Numbers
    <2>2. QED
      BY <1>0, <2>1, EndFacts, FrameFacts DEF REQU, TypeOK
  <1>4. Unsent(n) /\ Determined(n)
    BY <1>0, <1>1, <1>2, PlaceFacts DEF Unsent
  <1>5. \A v \in Users : request[v] = n => v = u
    BY <1>0, <1>2 DEF Located, Numbered
  <1>6. ~Unsent(n)'
    <2>1. \A v \in Users : request[v] = n => user'[v] = "replying"
      BY <1>1, <1>5 DEF TypeOK
    <2>2. ~(n > requests)
      BY <1>2 DEF TypeOK
    <2>3. QED
      BY <1>1, <2>1, <2>2 DEF Unsent
  <1>7. \A r \in Numbers : r # n => (Unsent(r)' <=> Unsent(r))
    <2>1. \A v \in Users : request[v] # n => user'[v] = user[v]
      BY <1>0, <1>1 DEF TypeOK
    <2>2. QED
      BY <1>1, <2>1 DEF Unsent
  <1>8. \A r \in Numbers : (Left(r)' <=> Left(r)) /\ (Executed(r)' <=> Executed(r)) /\ (Replied(r)' <=> Replied(r))
    <2>1. \A r \in Numbers, d \in Ends : Has(input'[d], "REPL", r) <=> Has(input[d], "REPL", r)
      BY <1>1, <1>3, HasSent
    <2>2. QED
      BY <1>1, <2>1, EndFacts DEF Left, Executed, Replied
  <1>9. \A r \in Numbers : r # n => (Underway(r)' <=> Underway(r))
    <2>1. \A r \in Numbers, d \in Ends : r # n => (Has(input'[d], "REQU", r) <=> Has(input[d], "REQU", r))
      BY <1>1, <1>3, HasSent
    <2>2. QED
      BY <2>1, EndFacts DEF Underway
  <1>10. PlaceOf(n)' \in {"sent", "gone"}
    <2>1. PlaceOf(n) = "unsent"
      BY <1>4 DEF Determined
    <2>2. ~Left(n) /\ ~Executed(n) /\ ~Replied(n)
      BY <1>4, <2>1 DEF Determined
    <2>3. QED
      BY <1>2, <1>6, <1>8, <2>2 DEF PlaceOf
  <1>11. \A r \in Numbers : r # n => PlaceOf(r)' = PlaceOf(r)
    BY <1>1, <1>7, <1>8, <1>9 DEF PlaceOf
  <1>12. place' = [place EXCEPT ![n] = PlaceOf(n)']
    BY <1>2, <1>11, OneMoves
  <1>13. place[n] = "unsent"
    BY <1>2, <1>4 DEF place, Determined
  <1>14. QED
    BY <1>0, <1>1, <1>2, <1>10, <1>12, <1>13 DEF C!Send, C!Goes, answer

\* A Transport that is done, whatever it has got or leaves behind, ends the call.
LEMMA CallEnds ==
    ASSUME TypeOK, Located, NEW u \in Users, user[u] # "idle", Ended(u), UNCHANGED leftover \/ Keeps(u),
           UNCHANGED <<input, serving, requests, refused>>
    PROVE  C!End(u)
  <1>0. PICK n : n = request[u]
    OBVIOUS
  <1>1. n # NoRequest /\ n \in Numbers /\ n \in 1..requests /\ requests \in Nat
    <2>1. n # NoRequest /\ n \in 0..requests /\ requests \in 0..MaxRequests
      BY <1>0 DEF Located, Numbered, TypeOK
    <2>2. QED
      BY <2>1, RemotingAssumption DEF Numbers, NoRequest
  <1>2. /\ user' = [user EXCEPT ![u] = "idle"]
        /\ request' = [request EXCEPT ![u] = NoRequest] /\ reply' = [reply EXCEPT ![u] = NoRequest]
    BY DEF Ended
  <1>3. \A v \in Users : request[v] = n => v = u
    BY <1>0, <1>1 DEF Located, Numbered
  <1>4. Determined(n) /\ (Unsent(n) <=> user[u] # "replying")
    BY <1>0, <1>1, <1>3, PlaceFacts DEF Unsent
  <1>5. \A r \in Numbers : (Executed(r)' <=> Executed(r)) /\ (Underway(r)' <=> Underway(r)) /\ (Replied(r)' <=> Replied(r))
    BY DEF Executed, Underway, Replied
  <1>6. ~Unsent(n)'
    <2>1. \A v \in Users : request'[v] # n
      BY <1>1, <1>2, <1>3 DEF TypeOK
    <2>2. ~(n > requests)
      BY <1>1
    <2>3. QED
      BY <2>1, <2>2 DEF Unsent
  <1>7. \A r \in Numbers : r # n => (Unsent(r)' <=> Unsent(r))
    <2>1. \A r \in Numbers : r # NoRequest
      BY RemotingAssumption DEF Numbers, NoRequest
    <2>2. \A r \in Numbers, v \in Users :
              r # n => (request'[v] = r /\ user'[v] # "replying" <=> request[v] = r /\ user[v] # "replying")
      BY <1>0, <1>2, <2>1 DEF TypeOK
    <2>3. QED
      BY <2>2 DEF Unsent
  <1>8. /\ \A r \in Numbers : r # n => (Left(r)' <=> Left(r))
        /\ (Left(n)' <=> Left(n)) \/ (Unsent(n) /\ Left(n)')
    <2>1. CASE UNCHANGED leftover
      BY <2>1 DEF Left
    <2>2. CASE Keeps(u)
      <3>1. PICK s : s = [user |-> u, conn |-> conn[u], channel |-> channel[u], request |-> n]
        OBVIOUS
      <3>2. leftover' = leftover \cup {s} /\ s.request = n /\ user[u] = "connected"
        BY <1>0, <2>2, <3>1 DEF Keeps, Leave
      <3>3. QED
        BY <1>4, <3>2 DEF Left
    <2>3. QED
      BY <2>1, <2>2
  <1>9. PlaceOf(n)' \in IF PlaceOf(n) = "unsent" THEN {"left", "gone"} ELSE {PlaceOf(n)}
    <2>1. CASE Unsent(n)
      <3>1. PlaceOf(n) = "unsent"
        BY <1>4, <2>1 DEF Determined
      <3>2. ~Executed(n) /\ ~Underway(n) /\ ~Replied(n)
        BY <1>4, <3>1 DEF Determined
      <3>3. QED
        BY <1>1, <1>5, <1>6, <3>1, <3>2 DEF PlaceOf
    <2>2. CASE ~Unsent(n)
      BY <1>1, <1>4, <1>5, <1>6, <1>8, <2>2 DEF PlaceOf
    <2>3. QED
      BY <2>1, <2>2
  <1>10. \A r \in Numbers : r # n => PlaceOf(r)' = PlaceOf(r)
    BY <1>5, <1>7, <1>8 DEF PlaceOf
  <1>11. \E to \in {"left", "gone"} : place' = [place EXCEPT ![n] = IF @ = "unsent" THEN to ELSE @]
    <2>1. place' = [place EXCEPT ![n] = PlaceOf(n)']
      BY <1>1, <1>10, OneMoves
    <2>2. place[n] = PlaceOf(n)
      BY <1>1 DEF place
    <2>3. CASE PlaceOf(n) = "unsent"
      BY <1>9, <2>1, <2>2, <2>3
    <2>4. CASE PlaceOf(n) # "unsent"
      BY <1>9, <2>1, <2>2, <2>4
    <2>5. QED
      BY <2>3, <2>4
  <1>12. answer' = [answer EXCEPT ![u] = NoRequest]
    BY <1>2 DEF answer, TypeOK
  <1>13. QED
    BY <1>0, <1>1, <1>2, <1>11, <1>12 DEF C!End

\* A request that was left in its stream is sent late.
LEMMA LeftSent ==
    ASSUME TypeOK, Located, NEW s \in leftover, Discard(s)
    PROVE  \E r \in Numbers : C!SendLate(r)
  <1> DEFINE n == s.request
             e == Client(s.conn)
             f == REQU(s.channel, n)
  <1>1. /\ n \in Numbers /\ e \in Ends /\ f \in Frames /\ f.type = "REQU" /\ f.request = n
        /\ input \in [Ends -> Seq(Frames)]
    <2>1. s.conn \in Connections /\ s.channel \in Nat /\ n \in 0..MaxRequests
      BY RemotingAssumption DEF TypeOK, Connections
    <2>2. Flying(s.conn, s.channel, n)
      BY DEF Flying
    <2>3. QED
      BY <2>1, <2>2, FlyingNumbers, EndFacts, FrameFacts DEF REQU, TypeOK
  <1>2. /\ UNCHANGED <<request, reply, user, requests, serving, refused>> /\ leftover' = leftover \ {s}
        /\ input' \in {input, Sent(input, e, f)}
    BY DEF Discard, history
  <1>3. Determined(n) /\ Left(n) /\ Single(n)
    BY <1>1, PlaceFacts DEF Left, Located, Numbers
  <1> HIDE DEF n, e, f
  <1>4. \A r \in Numbers : (Unsent(r)' <=> Unsent(r)) /\ (Executed(r)' <=> Executed(r))
    BY <1>2 DEF Unsent, Executed
  <1>5. \A r \in Numbers : Replied(r)' <=> Replied(r)
    <2>1. \A r \in Numbers, d \in Ends : Has(input'[d], "REPL", r) <=> Has(input[d], "REPL", r)
      BY <1>1, <1>2, HasSent
    <2>2. QED
      BY <2>1, EndFacts DEF Replied
  <1>6. \A r \in Numbers : r # n => (Underway(r)' <=> Underway(r)) /\ (Left(r)' <=> Left(r))
    <2>1. \A r \in Numbers, d \in Ends : r # n => (Has(input'[d], "REQU", r) <=> Has(input[d], "REQU", r))
      BY <1>1, <1>2, HasSent
    <2>2. \A r \in Numbers : r # n => (Left(r)' <=> Left(r))
      BY <1>2 DEF Left, n
    <2>3. QED
      BY <2>1, <2>2, EndFacts DEF Underway
  <1>7. ~Left(n)'
    BY <1>2, <1>3 DEF Left, Single, n
  <1>8. PlaceOf(n)' \in {"sent", "gone"}
    <2>1. PlaceOf(n) = "left"
      BY <1>3 DEF Determined
    <2>2. ~Unsent(n) /\ ~Executed(n) /\ ~Replied(n)
      BY <1>3, <2>1 DEF Determined
    <2>3. QED
      BY <1>1, <1>4, <1>5, <1>7, <2>2 DEF PlaceOf
  <1>9. \A r \in Numbers : r # n => PlaceOf(r)' = PlaceOf(r)
    BY <1>2, <1>4, <1>5, <1>6 DEF PlaceOf
  <1>10. place' = [place EXCEPT ![n] = PlaceOf(n)']
    BY <1>1, <1>9, OneMoves
  <1>11. place[n] = "left"
    BY <1>1, <1>3 DEF place, Determined
  <1>12. C!SendLate(n)
    BY <1>2, <1>8, <1>10, <1>11 DEF C!SendLate, C!Goes, answer
  <1>13. QED
    BY <1>1, <1>12

\* A request for which the server has no thread is refused in the call.
LEMMA RequestRefused ==
    ASSUME TypeOK, Located, NEW c \in Connections, Refuse(c)
    PROVE  \E r \in Numbers : C!Refuse(r)
  <1>1. PICK e, f : e = Server(c) /\ f = Head(input[e])
    OBVIOUS
  <1>2. PICK n : n = f.request
    OBVIOUS
  <1>3. PICK g : g = REPL(f.channel, n)
    OBVIOUS
  <1>4. PICK received : received = [input EXCEPT ![e] = Tail(@)]
    OBVIOUS
  <1>5. /\ e \in Ends /\ input[e] # <<>> /\ f.type = "REQU"
        /\ input' \in {received, Sent(received, e, g)}
        /\ UNCHANGED <<request, reply, user, requests, serving, leftover>> /\ refused' = refused \cup {n}
    BY <1>1, <1>2, <1>3, <1>4, EndFacts DEF Refuse, users
  <1>6. input[e] \in Seq(Frames) /\ f \in Elements(input[e]) /\ f \in Frames
    <2>1. input[e] \in Seq(Frames)
      BY <1>5 DEF TypeOK
    <2>2. QED
      BY <1>1, <1>5, <2>1, TailFacts
  <1>7. /\ n \in Numbers /\ Single(n) /\ Determined(n) /\ Underway(n) /\ Carries(input[e], n)
    <2>1. Flying(e[2], f.channel, n)
      BY <1>2, <1>5, <1>6 DEF Flying
    <2>2. n \in Numbers
      BY <2>1, FlyingNumbers
    <2>3. Has(input[e], "REQU", n) /\ Carries(input[e], n)
      BY <1>2, <1>5, <1>6 DEF Has, Carries, Is, Elements
    <2>4. QED
      BY <1>1, <2>2, <2>3, PlaceFacts DEF Underway, Located, Numbers
  <1>8. /\ g \in Frames /\ g.type = "REPL" /\ g.request = n
        /\ received \in [Ends -> Seq(Frames)]
        /\ \A d \in Ends : received[d] = IF d = e THEN Tail(input[e]) ELSE input[d]
    <2>1. g \in Frames /\ g.type = "REPL" /\ g.request = n
      BY <1>2, <1>3, <1>6, FrameFacts DEF Frames, REPL
    <2>2. Tail(input[e]) \in Seq(Frames) /\ input \in [Ends -> Seq(Frames)]
      BY <1>5, <1>6, TailFacts DEF TypeOK
    <2>3. QED
      BY <1>4, <1>5, <2>1, <2>2
  <1>9. \A r \in Numbers : /\ Unsent(r)' <=> Unsent(r)
                           /\ Left(r)' <=> Left(r)
                           /\ Executed(r)' <=> Executed(r)
    BY <1>5 DEF Unsent, Left, Executed
  <1>10. \A r \in Numbers : r # n => (Underway(r)' <=> Underway(r)) /\ (Replied(r)' <=> Replied(r))
    <2>1. ASSUME NEW r \in Numbers, r # n, NEW d \in Ends, NEW type
          PROVE  Has(input'[d], type, r) <=> Has(input[d], type, r)
      <3>1. Has(received[d], type, r) <=> Has(input[d], type, r)
        <4>1. Has(Tail(input[e]), type, r) <=> Has(input[e], type, r)
          BY <1>1, <1>2, <1>5, <1>6, <2>1, HasFacts
        <4>2. QED
          BY <1>8, <4>1
      <3>2. Has(Sent(received, e, g)[d], type, r) <=> Has(received[d], type, r)
        BY <1>5, <1>8, <2>1, HasSent
      <3>3. QED
        BY <1>5, <3>1, <3>2
    <2>2. QED
      BY <2>1, EndFacts DEF Underway, Replied
  <1>11. ~Underway(n)'
    <2>1. \A d \in Ends : Carries(input'[d], n) => d = Client(c)
      BY <1>1, <1>2, <1>5, <1>7, RefuseFacts DEF Is, Numbers
    <2>2. \A d \in Connections : ~Has(input'[Server(d)], "REQU", n)
      BY <2>1, EndFacts DEF Has, Carries, Is, Elements
    <2>3. QED
      BY <2>2 DEF Underway
  <1>12. PlaceOf(n)' \in {"refused", "gone"}
    <2>1. PlaceOf(n) = "sent"
      BY <1>7 DEF Determined
    <2>2. ~Unsent(n) /\ ~Left(n) /\ ~Executed(n)
      BY <1>7, <2>1 DEF Determined
    <2>3. QED
      BY <1>5, <1>7, <1>9, <1>11, <2>2 DEF PlaceOf
  <1>13. \A r \in Numbers : r # n => PlaceOf(r)' = PlaceOf(r)
    BY <1>5, <1>9, <1>10 DEF PlaceOf
  <1>14. place' = [place EXCEPT ![n] = PlaceOf(n)']
    BY <1>7, <1>13, OneMoves
  <1>15. place[n] = "sent"
    BY <1>7 DEF place, Determined
  <1>16. answer' = answer
    <2>1. \A u \in Users : reply[u] # n
      BY <1>5, <1>7 DEF Single, OnItsWay
    <2>2. QED
      BY <1>5, <2>1 DEF answer
  <1>17. C!Refuse(n)
    BY <1>5, <1>12, <1>14, <1>15, <1>16 DEF C!Refuse, C!Goes
  <1>18. QED
    BY <1>7, <1>17

\* What the network, a closed socket or a failing receiver takes with it is lost.
LEMMA FramesLost ==
    ASSUME TypeOK, Located, UNCHANGED <<request, reply, user, requests, serving, leftover, refused>>,
           \A e \in Ends : \/ input'[e] \in {input[e], <<>>}
                           \/ input[e] # <<>> /\ input'[e] = Tail(input[e])
    PROVE  \E R \in SUBSET Numbers : C!Lose(R)
  <1> DEFINE R == {r \in Numbers : PlaceOf(r) \in {"sent", "refused", "replied"} /\ PlaceOf(r)' = "gone"}
  <1>1. ASSUME NEW type, NEW r, NEW e \in Ends, Has(input'[e], type, r)
        PROVE  Has(input[e], type, r)
    <2>1. \A q : Has(q, type, r) <=> \E f \in Elements(q) : f.type = type /\ f.request = r
      BY DEF Has, Elements
    <2>2. input[e] \in Seq(Frames)
      BY DEF TypeOK
    <2>3. Elements(input'[e]) \subseteq Elements(input[e])
      BY <2>2, EmptyFacts, TailFacts
    <2>4. QED
      BY <1>1, <2>1, <2>3
  <1>2. ASSUME NEW r \in Numbers
        PROVE  PlaceOf(r)' = IF r \in R THEN "gone" ELSE PlaceOf(r)
    <2>1. (Unsent(r)' <=> Unsent(r)) /\ (Left(r)' <=> Left(r)) /\ (Executed(r)' <=> Executed(r))
      BY DEF Unsent, Left, Executed
    <2>2. (Underway(r)' => Underway(r)) /\ (Replied(r)' => Replied(r))
      BY <1>1, EndFacts DEF Underway, Replied
    <2>3. Determined(r)
      BY PlaceFacts
    <2>4. PlaceOf(r)' = PlaceOf(r) \/ (PlaceOf(r) \in {"sent", "refused", "replied"} /\ PlaceOf(r)' = "gone")
      BY <2>1, <2>2, <2>3 DEF PlaceOf, Determined
    <2>5. QED
      BY <2>4
  <1>3. \A r \in R : place[r] \in {"sent", "refused", "replied"}
    BY DEF place
  <1> HIDE DEF R
  <1>4. place' = [r \in Numbers |-> IF r \in R THEN "gone" ELSE place[r]]
    BY <1>2 DEF place
  <1>5. C!Lose(R)
    BY <1>3, <1>4 DEF C!Lose, answer
  <1>6. QED
    BY <1>5 DEF R

\* A frame that is received begins the execution at the server, is the reply at
\* the client, which is lost if it is empty, or has to do with the connection only.
LEMMA FrameReceived ==
    ASSUME Inv, Located, NEW e \in Ends, ReceiveFrame(e)
    PROVE  \/ UNCHANGED C!remote
           \/ \E r \in Numbers : C!Execute(r) \/ C!Receive(r)
           \/ \E R \in SUBSET Numbers : C!Lose(R)
  <1>0. PICK f, n : f = Head(input[e]) /\ n = f.request
    OBVIOUS
  <1>1. /\ input[e] # <<>> /\ input' = [input EXCEPT ![e] = Tail(@)]
        /\ Serve(e[2], f) /\ Give(f, Takers(e[2], f))
        /\ UNCHANGED <<user, conn, channel, request, requests, leftover, refused>>
    BY <1>0 DEF ReceiveFrame, HandleFrame, history
  <1>2. /\ input \in [Ends -> Seq(Frames)] /\ input[e] \in Seq(Frames) /\ Tail(input[e]) \in Seq(Frames)
        /\ f \in Elements(input[e]) /\ f \in Frames
        /\ \A u \in Users : reply[u] \in 0..MaxRequests
    BY <1>0, <1>1, TailFacts DEF Inv, TypeOK
  <1>3. \A r \in Numbers : (Unsent(r)' <=> Unsent(r)) /\ (Left(r)' <=> Left(r))
    BY <1>1 DEF Unsent, Left
  <1>4. \A type, r : \A d \in Ends : f.type # type \/ n # r => (Has(input'[d], type, r) <=> Has(input[d], type, r))
    BY <1>0, <1>1, <1>2, HasFacts
  <1>5. CASE f.type \in {"HELO", "BYE"}
    <2>1. serving' = serving
      BY <1>1, <1>5 DEF Serve
    <2>2. reply' = reply
      BY <1>1, <1>5 DEF Give, Takers, Inv, TypeOK
    <2>3. UNCHANGED C!remote
      BY <1>1, <1>3, <1>4, <1>5, <2>1, <2>2, EndFacts, NothingMoves
    <2>4. QED
      BY <2>3
  <1>6. CASE f.type \in {"REQU", "REPL"}
    <2>1. /\ Flying(e[2], f.channel, n) /\ Carries(input[e], n)
          /\ n \in Numbers /\ Single(n) /\ Determined(n)
      <3>1. Flying(e[2], f.channel, n)
        BY <1>0, <1>2, <1>6 DEF Flying
      <3>2. n \in Numbers
        BY <3>1, FlyingNumbers DEF Inv
      <3>3. QED
        BY <1>0, <1>2, <1>6, <3>1, <3>2, PlaceFacts DEF Carries, Is, Located, Numbers, Inv
    <2>2. \A d \in Ends, type \in {"REQU", "REPL"} : ~Has(input'[d], type, n)
      <3>1. ~Carries(Tail(input[e]), n)
        BY <1>0, <1>1, <1>2, <1>6, <2>1, OnceTail DEF Single, Is
      <3>2. \A d \in Ends : ~Carries(input'[d], n)
        BY <1>1, <1>2, <2>1, <3>1 DEF Single
      <3>3. QED
        BY <3>2 DEF Carries, Has, Is, Elements
    <2>3. ~Unsent(n) /\ ~Left(n) /\ ~Executed(n)
      <3>1. /\ OnItsWay(n)
            /\ ~\E s \in serving : s.request = n
            /\ ~\E s \in leftover : s.request = n
        BY <2>1 DEF Single, OnItsWay
      <3>2. QED
        BY <2>1, <3>1 DEF Executed, Left, Determined, PlaceOf
    <2>4. ~Underway(n)' /\ ~Replied(n)'
      BY <2>2, EndFacts DEF Underway, Replied
    <2>5. \A r \in Numbers : r # n => (Underway(r)' <=> Underway(r)) /\ (Replied(r)' <=> Replied(r))
      BY <1>4, EndFacts DEF Underway, Replied
    <2>6. CASE f.type = "REQU"
      <3>1. serving' = serving \cup {[conn |-> e[2], channel |-> f.channel, request |-> n]}
        BY <1>0, <1>1, <2>6 DEF Serve
      <3>2. UNCHANGED reply
        BY <1>1, <2>6 DEF Give, Takers, Inv, TypeOK
      <3>3. Executed(n)' /\ \A r \in Numbers : r # n => (Executed(r)' <=> Executed(r))
        <4>1. \A s \in serving' : s \in serving \/ s.request = n
          BY <3>1
        <4>2. \E s \in serving' : s.request = n
          <5>1. [conn |-> e[2], channel |-> f.channel, request |-> n] \in serving'
            BY <3>1
          <5>2. QED
            BY <5>1
        <4>3. serving \subseteq serving'
          BY <3>1
        <4>4. QED
          BY <4>1, <4>2, <4>3 DEF Executed
      <3>4. Underway(n)
        <4>1. e[1] = "server"
          BY <1>2, <2>6 DEF Located, Sides
        <4>2. e = Server(e[2]) /\ e[2] \in Connections
          BY <4>1, EndFacts
        <4>3. Has(input[e], "REQU", n)
          BY <1>0, <1>2, <2>6 DEF Has, Elements
        <4>4. QED
          BY <4>2, <4>3 DEF Underway
      <3>5. place[n] = "sent"
        BY <2>1, <3>4 DEF place, Determined
      <3>6. place' = [place EXCEPT ![n] = "executed"]
        <4>1. PlaceOf(n)' = "executed"
          BY <1>3, <2>1, <2>3, <3>3 DEF PlaceOf
        <4>2. \A r \in Numbers : r # n => PlaceOf(r)' = PlaceOf(r)
          BY <1>1, <1>3, <2>5, <3>3 DEF PlaceOf
        <4>3. QED
          BY <2>1, <4>1, <4>2, OneMoves
      <3>7. C!Execute(n)
        BY <1>1, <3>2, <3>5, <3>6 DEF C!Execute, C!Goes, answer
      <3>8. QED
        BY <2>1, <3>7
    <2>7. CASE f.type = "REPL"
      <3>1. serving' = serving
        BY <1>1, <2>7 DEF Serve
      <3>2. \A r \in Numbers : Executed(r)' <=> Executed(r)
        BY <3>1 DEF Executed
      <3>3. Replied(n)
        <4>1. e[1] = "client"
          BY <1>2, <2>7 DEF Located, Sides
        <4>2. e = Client(e[2]) /\ e[2] \in Connections
          BY <4>1, EndFacts
        <4>3. Has(input[e], "REPL", n)
          BY <1>0, <1>2, <2>7 DEF Has, Elements
        <4>4. QED
          BY <4>2, <4>3 DEF Replied
      <3>4. place[n] = IF n \in refused THEN "refused" ELSE "replied"
        BY <2>1, <3>3 DEF place, Determined
      <3>5. place' = [place EXCEPT ![n] = "gone"]
        <4>1. PlaceOf(n)' = "gone"
          BY <1>3, <2>1, <2>3, <2>4, <3>2 DEF PlaceOf
        <4>2. \A r \in Numbers : r # n => PlaceOf(r)' = PlaceOf(r)
          BY <1>1, <1>3, <2>5, <3>2 DEF PlaceOf
        <4>3. QED
          BY <2>1, <4>1, <4>2, OneMoves
      <3>6. ASSUME NEW u \in Users
            PROVE  /\ reply'[u] = IF request[u] = n THEN n ELSE reply[u]
                   /\ request[u] = n => reply[u] = NoRequest
        <4>1. reply'[u] = IF u \in Takers(e[2], f) /\ reply[u] = NoRequest THEN n ELSE reply[u]
          BY <1>0, <1>1 DEF Give
        <4>2. n # NoRequest
          BY <2>1, RemotingAssumption DEF Numbers, NoRequest
        <4>3. CASE request[u] = n
          <5>1. user[u] # "idle"
            BY <4>2, <4>3 DEF Located, Numbered
          <5>2. user[u] = "replying" /\ conn[u] = e[2] /\ channel[u] = f.channel
            <6>1. Flying(e[2], f.channel, request[u])
              BY <2>1, <4>3
            <6>2. Numbered
              BY DEF Located
            <6>3. \A c, ch, r : user[u] # "idle" /\ r = request[u] /\ Flying(c, ch, r)
                        => user[u] = "replying" /\ conn[u] = c /\ channel[u] = ch
              BY <6>2, Zenon DEF Numbered
            <6>4. QED
              BY <5>1, <6>1, <6>3, Zenon
          <5>3. u \in Takers(e[2], f)
            BY <2>7, <5>2 DEF Takers
          <5>4. reply[u] = NoRequest
            <6>1. reply[u] # n
              BY <2>1 DEF Single, OnItsWay
            <6>2. QED
              BY <4>3, <6>1 DEF Inv, Tagged
          <5>5. QED
            BY <4>1, <4>3, <5>3, <5>4
        <4>4. CASE request[u] # n
          <5>1. ASSUME u \in Takers(e[2], f)
                PROVE  FALSE
            <6>1. Talking(u, e[2]) /\ channel[u] = f.channel
              BY <5>1 DEF Takers, Talking
            <6>2. e[2] \in Connections /\ f.channel \in Nat /\ n \in 0..MaxRequests
              BY <1>0, <1>2, EndFacts DEF Frames
            <6>3. QED
              BY <2>1, <4>4, <6>1, <6>2 DEF Inv, Tagged
          <5>2. QED
            BY <4>1, <4>4, <5>1
        <4>5. QED
          BY <4>3, <4>4
      <3>7. reply' = [u \in Users |-> IF request[u] = n THEN n ELSE reply[u]]
        <4>1. reply' = [u \in Users |-> IF u \in Takers(e[2], f) /\ reply[u] = NoRequest THEN f.request ELSE reply[u]]
          BY <1>0, <1>1 DEF Give
        <4>2. QED
          BY <3>6, <4>1
      <3>8. CASE n \notin refused
        <4>1. answer' = [u \in Users |-> IF request[u] = n THEN n ELSE answer[u]]
          BY <1>1, <3>7, <3>8 DEF answer
        <4>2. C!Receive(n)
          BY <1>1, <3>4, <3>5, <3>8, <4>1 DEF C!Receive, C!Goes
        <4>3. QED
          BY <2>1, <4>2
      <3>9. CASE n \in refused
        <4>1. answer' = answer
          BY <1>1, <3>6, <3>7, <3>9 DEF answer
        <4>2. place' = [r \in Numbers |-> IF r \in {n} THEN "gone" ELSE place[r]]
          BY <3>5 DEF place
        <4>3. C!Lose({n})
          BY <1>1, <3>4, <3>9, <4>1, <4>2 DEF C!Lose
        <4>4. QED
          BY <2>1, <4>3
      <3>10. QED
        BY <3>8, <3>9
    <2>8. QED
      BY <1>6, <2>6, <2>7
  <1>7. QED
    BY <1>2, <1>5, <1>6 DEF Frames

\* Every step is one of the call, or invisible in it.
LEMMA CallNext ==
    ASSUME Inv, Located, [Next]_vars
    PROVE  [C!Next]_C!remote
  <1> DEFINE Goal == C!Next \/ UNCHANGED C!remote
  <1>0. TypeOK
    BY DEF Inv
  <1>1. CASE UNCHANGED vars
    BY <1>1, NothingMoves DEF vars, ends, users, history, Unsent
  <1>2. ASSUME NEW e \in Ends, EndStep(e) PROVE Goal
    <2>1. CASE ReceiveFrame(e)
      BY <2>1, FrameReceived DEF C!Next
    <2>2. CASE FrameFails(e) \/ FinishClose(e) \/ FinishAbort(e)
      <3>1. /\ UNCHANGED <<request, reply, user, requests, serving, leftover, refused>>
            /\ \/ input' = [input EXCEPT ![e] = <<>>]
               \/ input[e] # <<>> /\ input' = [input EXCEPT ![e] = Tail(@)]
        BY <2>2 DEF FrameFails, FinishClose, FinishAbort, SocketCloses, users, history
      <3>2. \A d \in Ends : \/ input'[d] \in {input[d], <<>>}
                            \/ input[d] # <<>> /\ input'[d] = Tail(input[d])
        BY <1>0, <3>1 DEF TypeOK
      <3>3. \E R \in SUBSET Numbers : C!Lose(R)
        BY <1>0, <3>1, <3>2, FramesLost
      <3>4. QED
        BY <3>3 DEF C!Next
    <2>3. QED
      BY <1>0, <1>2, <2>1, <2>2, ThreadInvisible
  <1>3. ASSUME NEW c \in Connections, Break(c) \/ Stall(c) \/ Refuse(c) PROVE Goal
    <2>1. CASE Break(c)
      <3>1. /\ UNCHANGED <<request, reply, user, requests, serving, leftover, refused>>
            /\ input' = [input EXCEPT ![Client(c)] = <<>>, ![Server(c)] = <<>>]
        BY <2>1 DEF Break, users
      <3>2. \A d \in Ends : input'[d] \in {input[d], <<>>}
        BY <1>0, <3>1 DEF TypeOK
      <3>3. \E R \in SUBSET Numbers : C!Lose(R)
        BY <1>0, <3>1, <3>2, FramesLost
      <3>4. QED
        BY <3>3 DEF C!Next
    <2>2. CASE Stall(c)
      BY <2>2, NothingMoves DEF Stall, ends, users, Unsent
    <2>3. CASE Refuse(c)
      BY <1>0, <2>3, RequestRefused DEF C!Next
    <2>4. QED
      BY <1>3, <2>1, <2>2, <2>3
  <1>4. ASSUME NEW s \in serving, Answer(s) PROVE Goal
    BY <1>0, <1>4, AnswerReplies DEF C!Next
  <1>5. ASSUME NEW s \in leftover, Discard(s) PROVE Goal
    BY <1>0, <1>5, LeftSent DEF C!Next
  <1>6. ASSUME NEW u \in Users, UserStep(u) PROVE Goal
    <2>1. CASE GetConnection(u) \/ CreateConnection(u)
      BY <1>0, <2>1, CallBegins DEF C!Next
    <2>2. CASE Connected(u) \/ ConnectClosing(u) \/ CreateConnectionThrows(u)
      BY <1>0, <2>2, ManagerInvisible
    <2>3. CASE Requests(u)
      BY <1>0, <2>3, RequestSent DEF C!Next
    <2>4. CASE ConnectTimesOut(u) \/ ConnectClosed(u) \/ EndRequest(u) \/ Keeps(u)
      <3>1. /\ user[u] # "idle" /\ Ended(u) /\ UNCHANGED <<input, serving, requests, refused>>
            /\ UNCHANGED leftover \/ Keeps(u)
        BY <2>4 DEF ConnectTimesOut, ConnectClosed, EndRequest, Keeps, Leave, ends, history
      <3>2. QED
        BY <1>0, <3>1, CallEnds DEF C!Next
    <2>5. QED
      BY <1>6, <2>1, <2>2, <2>3, <2>4, Fails DEF UserStep, Getting, Requests
  <1>7. CASE ShutdownStep
    BY <1>0, <1>7, ManagerInvisible
  <1>8. QED
    BY <1>1, <1>2, <1>3, <1>4, <1>5, <1>6, <1>7 DEF Next

\* Initially no request is sent.
LEMMA CallInit == Init => C!Init
  <1> SUFFICES ASSUME Init PROVE C!Init
    OBVIOUS
  <1>1. \A r \in Numbers : PlaceOf(r) = "unsent"
    BY RemotingAssumption DEF Init, Numbers, PlaceOf, Unsent
  <1>2. QED
    BY <1>1 DEF Init, C!Init, place, answer

\* Connections, channels and the manager keep the promise of a remote call: no
\* request is executed twice, though one whose call has failed may be sent late;
\* a call is answered, if at all, by its own reply, and only after it was
\* executed.  The empty reply to a request the server has refused is no answer.
THEOREM RemotingImplementsCall == Spec => ImplementsCall
  BY InvHolds, LocatedHolds, CallInit, CallNext, PTL DEF Spec, ImplementsCall, C!Spec
=============================================================================
