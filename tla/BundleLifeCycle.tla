--------------------------- MODULE BundleLifeCycle ---------------------------
(***************************************************************************)
(* What a bundle goes through, whoever asks for it and whatever fails: the *)
(* state machine of osp/OSP/include/Poco/OSP/Bundle.h with its activator,  *)
(* for the bundles that no two threads have operated on at the same time.  *)
(* Of the others (disturbed) it promises nothing.                          *)
(***************************************************************************)
CONSTANT Bundles

VARIABLES
    state,      \* the state each bundle is in
    running,    \* whether its activator was started and not stopped since
    disturbed   \* the bundles it says no more of

vars == <<state, running, disturbed>>

Init ==
    /\ state = [b \in Bundles |-> "installed"]
    /\ running = [b \in Bundles |-> FALSE]
    /\ disturbed = {}

-----------------------------------------------------------------------------
(* The moves of one bundle. *)

Stays(b) == state'[b] = state[b] /\ running'[b] = running[b]
Moves(b, from, to) == state[b] = from /\ state'[b] = to /\ running'[b] = running[b]

Resolve(b) == Moves(b, "installed", "resolved")

Start(b) == ~running[b] /\ Moves(b, "resolved", "starting")
ActivatorStarts(b) ==
    state[b] = "starting" /\ state'[b] = "starting" /\ ~running[b] /\ running'[b]
Started(b) == Moves(b, "starting", "active")
\* Whatever fails, fails before the activator is started.
StartFails(b) == ~running[b] /\ Moves(b, "starting", "resolved")

Stop(b) == Moves(b, "active", "stopping")
ActivatorStops(b) ==
    state[b] = "stopping" /\ state'[b] = "stopping" /\ running[b] /\ ~running'[b]
Stopped(b) == ~running[b] /\ Moves(b, "stopping", "resolved")
StopFails(b) == Moves(b, "stopping", "active")

\* A bundle is not uninstalled before it is stopped, and never comes back.
Uninstall(b) ==
    ~running[b] /\ (Moves(b, "installed", "uninstalled") \/ Moves(b, "resolved", "uninstalled"))

Lives(b) ==
    \/ Resolve(b) \/ Uninstall(b)
    \/ Start(b) \/ ActivatorStarts(b) \/ Started(b) \/ StartFails(b)
    \/ Stop(b) \/ ActivatorStops(b) \/ Stopped(b) \/ StopFails(b)

\* One bundle moves at a time; one that is disturbed may change anyhow.
Next ==
    /\ disturbed \subseteq disturbed'
    /\ \E b \in Bundles :
          /\ b \in disturbed \/ Stays(b) \/ Lives(b)
          /\ \A d \in Bundles \ {b} : Stays(d)

Spec == Init /\ [][Next]_vars
=============================================================================
