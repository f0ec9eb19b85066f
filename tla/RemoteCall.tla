----------------------------- MODULE RemoteCall -----------------------------
(***************************************************************************)
(* What RemotingNG promises a thread that calls a remote object, without   *)
(* connections, channels, buffers or handshakes: a call is executed at     *)
(* most once, if it is answered at all then with the reply to itself, and  *)
(* only after it was executed; an empty reply, on which the caller gets an  *)
(* exception, is no answer.  Any call may fail, and what becomes of it then *)
(* is unknown to the caller: it may still be executed, and one that failed *)
(* before its request was sent may be sent later.                          *)
(***************************************************************************)
CONSTANTS Users, Requests, NoRequest

VARIABLES
    calling,  \* the call each user is in
    place,    \* where each request is
    answer    \* the request to which a user has got the reply

remote == <<calling, place, answer>>

Init ==
    /\ calling = [u \in Users |-> NoRequest]
    /\ place = [r \in Requests |-> "unsent"]
    /\ answer = [u \in Users |-> NoRequest]

Goes(r, from, to) == place[r] = from /\ place' = [place EXCEPT ![r] = to]

\* The user u begins call r, which nobody has begun.
Begin(u, r) ==
    /\ calling[u] = NoRequest
    /\ place[r] = "unsent" /\ \A v \in Users : calling[v] # r
    /\ calling' = [calling EXCEPT ![u] = r]
    /\ UNCHANGED <<place, answer>>

\* The request is sent, and may be lost at once.
Send(u) ==
    /\ calling[u] \in Requests
    /\ \E to \in {"sent", "gone"} : Goes(calling[u], "unsent", to)
    /\ UNCHANGED <<calling, answer>>

\* What a failed call has left is sent after all, or thrown away.
SendLate(r) ==
    /\ \E to \in {"sent", "gone"} : Goes(r, "left", to)
    /\ UNCHANGED <<calling, answer>>

\* The server does not execute it, and sends an empty reply, if it can.
Refuse(r) ==
    /\ \E to \in {"refused", "gone"} : Goes(r, "sent", to)
    /\ UNCHANGED <<calling, answer>>

\* The server begins to execute it.
Execute(r) ==
    /\ Goes(r, "sent", "executed")
    /\ UNCHANGED <<calling, answer>>

\* The reply is sent, or cannot be.
Reply(r) ==
    /\ \E to \in {"replied", "gone"} : Goes(r, "executed", to)
    /\ UNCHANGED <<calling, answer>>

\* The reply arrives: at the user who is in this call, if there still is one.
Receive(r) ==
    /\ Goes(r, "replied", "gone")
    /\ answer' = [u \in Users |-> IF calling[u] = r THEN r ELSE answer[u]]
    /\ UNCHANGED calling

\* The call of u ends, answered or not; a request not sent by now never will be,
\* or is left with the caller.
End(u) ==
    /\ calling[u] \in Requests
    /\ calling' = [calling EXCEPT ![u] = NoRequest]
    /\ answer' = [answer EXCEPT ![u] = NoRequest]
    /\ \E to \in {"left", "gone"} :
          place' = [place EXCEPT ![calling[u]] = IF @ = "unsent" THEN to ELSE @]

\* Requests and replies on the way are lost, and so is an empty reply when it
\* has come.
Lose(R) ==
    /\ UNCHANGED <<calling, answer>>
    /\ \A r \in R : place[r] \in {"sent", "refused", "replied"}
    /\ place' = [r \in Requests |-> IF r \in R THEN "gone" ELSE place[r]]

Next ==
    \/ \E R \in SUBSET Requests : Lose(R)
    \/ \E r \in Requests : SendLate(r) \/ Refuse(r) \/ Execute(r) \/ Reply(r) \/ Receive(r)
    \/ \E u \in Users : Send(u) \/ End(u) \/ \E r \in Requests : Begin(u, r)

Spec == Init /\ [][Next]_remote
=============================================================================
