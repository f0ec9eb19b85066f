-------------------------- MODULE MCWebEventService --------------------------
(* Model-checking instances of WebEventService. *)
EXTENDS WebEventService, TLC

\* A subject and its parent.
MCParent == <<"a">>
MCChild == <<"a", "b">>
MCSubjects == {MCParent, MCChild}

\* One frame of each kind receiveImpl tells apart; the notifications of this
\* run come from the server, those of clients are in MCLivenessFrames.
MCFrames ==
    {Text("SUBSCRIBE", MCParent), Text("SUBSCRIBE", MCChild), Text("UNSUBSCRIBE", All),
     Text("NOTIFY", SystemPing), Control(OpClose), Malformed}

\* What the runs about one socket need.
MCLivenessFrames == {Text("SUBSCRIBE", MCParent), Text("NOTIFY", MCChild), Malformed}

\* Sockets and workers are interchangeable; for runs of invariants only.
MCSymmetry == Permutations(Sockets) \cup Permutations(Workers)
=============================================================================
