---------------------------- MODULE RemotingCalls ----------------------------
(***************************************************************************)
(* Remoting implements RemoteCall: hiding connections, channels and the     *)
(* manager, a request is where a frame with its number is, the stream that *)
(* holds it, or the thread of the server that executes it.                 *)
(***************************************************************************)
EXTENDS Remoting

Numbers == 1..MaxRequests

\* The buffer q has a frame of this type that belongs to r.
Has(q, type, r) == \E i \in DOMAIN q : q[i].type = type /\ q[i].request = r

Unsent(r) == r > requests \/ \E u \in Users : request[u] = r /\ user[u] # "replying"
Left(r) == \E s \in leftover : s.request = r
Executed(r) == \E s \in serving : s.request = r
Underway(r) == \E c \in Connections : Has(input[Server(c)], "REQU", r)
Replied(r) == \E c \in Connections : Has(input[Client(c)], "REPL", r)

PlaceOf(r) ==
    IF Unsent(r) THEN "unsent"
    ELSE IF Left(r) THEN "left"
    ELSE IF Executed(r) THEN "executed"
    ELSE IF Underway(r) THEN "sent"
    ELSE IF Replied(r) THEN (IF r \in refused THEN "refused" ELSE "replied") ELSE "gone"

place == [r \in Numbers |-> PlaceOf(r)]

\* The deserializer finds no message in an empty reply and throws.
answer == [u \in Users |-> IF reply[u] \in refused THEN NoRequest ELSE reply[u]]

C == INSTANCE RemoteCall WITH Requests <- Numbers, calling <- request

\* Every step at either end is a step of the call or invisible: no request is
\* executed twice, though one whose call has failed may be sent late, and none is
\* answered that was not executed, or with another's reply, on however many
\* connections it and others travel.
ImplementsCall == C!Spec
=============================================================================
