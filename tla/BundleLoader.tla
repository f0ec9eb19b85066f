---------------------------- MODULE BundleLoader ----------------------------
(***************************************************************************)
(* The life cycle of OSP bundles (osp/OSP/src/Bundle.cpp, BundleLoader.cpp *)
(* and OSPSubsystem.cpp): bundles are resolved, started, stopped and       *)
(* uninstalled, their dependencies with them, by the main thread at start  *)
(* and shutdown and by the administrators' HTTP threads in between         *)
(* (OSP/BundleAdmin/src/BundleInfoHandler.cpp).                            *)
(*                                                                         *)
(* resolve() and start() call themselves for the bundles a bundle needs:   *)
(* each thread has a stack of calls.  The state of a bundle is read and    *)
(* written without a lock; the loader's recursive mutex protects the work  *)
(* in between.  An exception unwinds the stack call by call.               *)
(***************************************************************************)
EXTENDS Integers, Sequences, FiniteSets

CONSTANTS
    Bundles,     \* the bundles of the repository, by symbolic name
    Admins,      \* the HTTP threads of administrators
    Main,        \* the main thread
    None,        \* no thread, no bundle
    Manifests,   \* the possible [Bundles -> Manifest]
    Admissible,  \* bound: what administrators ask for, a subset of Operations
    MaxCalls,    \* bound: calls administrators make
    MaxFailures  \* bound: failures of libraries, files and activators

Threads == Admins \cup {Main}
Operations == {"resolve", "start", "stop", "uninstall"}
BundleStates == {"installed", "uninstalled", "resolved", "starting", "active", "stopping"}

\* What the manifest of a bundle says.  A required bundle that is missing, or
\* present in another version, is one that is not in Bundles.
IsManifest(m) ==
    /\ \A i \in DOMAIN m.requires : m.requires[i] \in Bundles \cup {None}
    /\ m.extends \in Bundles \cup {None}
    /\ m.runLevel \in Nat
    /\ m.lazyStart \in BOOLEAN /\ m.hasActivator \in BOOLEAN

ASSUME BundleAssumption ==
    /\ Main \notin Admins /\ None \notin Bundles \cup Threads \cup BundleStates
    /\ Admissible \subseteq Operations
    /\ \A m \in Manifests : \A b \in Bundles : m[b].requires \in Seq(Bundles \cup {None}) /\ IsManifest(m[b])

VARIABLES
    manifest,     \* the manifests of this system; never changes
    state,        \* Bundle::_state
    bundles,      \* BundleLoader::_bundles
    resolving,    \* BundleLoader::_resolvingBundles
    classLoader,  \* BundleInfo::pClassLoader: null, or with a library or without
    activator,    \* whether Bundle::_pActivator is set
    running,      \* whether the activator was started and not stopped since
    extensions,   \* Bundle::_extensionBundles
    stack,        \* the calls each thread is in, the innermost last
    throwing,     \* whether an exception is unwinding the thread's stack
    phase,        \* where the main thread is in OSPSubsystem
    todo,         \* the bundles its current loop has still to come to
    order,        \* what sortBundles() has sorted, in reverse
    disturbed,    \* history: bundles two threads operated on at the same time
    budget        \* calls and failures still to come

loader == <<bundles, resolving, classLoader, activator, running, extensions>>
subsystem == <<phase, todo, order>>
vars == <<manifest, state, loader, stack, throwing, subsystem, disturbed, budget>>

\* Bundle::isResolved(), isActive().
IsResolved(b) == state[b] \in {"resolved", "starting", "active", "stopping"}
IsActive(b) == state[b] = "active"
Required(b) == {manifest[b].requires[i] : i \in DOMAIN manifest[b].requires}

Init ==
    /\ manifest \in Manifests
    /\ state = [b \in Bundles |-> "installed"]
    /\ bundles = Bundles
    /\ resolving = {}
    /\ classLoader = [b \in Bundles |-> "null"]
    /\ activator = [b \in Bundles |-> FALSE]
    /\ running = [b \in Bundles |-> FALSE]
    /\ extensions = [b \in Bundles |-> {}]
    /\ stack = [t \in Threads |-> <<>>]
    /\ throwing = [t \in Threads |-> FALSE]
    /\ phase = "loaded" /\ todo = {} /\ order = <<>>
    /\ disturbed = {}
    /\ budget = [calls |-> MaxCalls, failures |-> MaxFailures]

-----------------------------------------------------------------------------
(* Calls.  next is the required bundle to look at next; old is what the      *)
(* StateChange object of the call will put back, unless the call commits.    *)
Call(op, b) == [op |-> op, bundle |-> b, pc |-> "check", next |-> 1, old |-> None]

Top(t) == stack[t][Len(stack[t])]
In(t, op, pc) ==
    stack[t] # <<>> /\ ~throwing[t] /\ Top(t).op = op /\ Top(t).pc = pc
GoTo(t, pc) == stack' = [stack EXCEPT ![t][Len(stack[t])].pc = pc]
Push(t, call) == stack' = [stack EXCEPT ![t] = Append(@, call)]
Pop(t) == stack' = [stack EXCEPT ![t] = SubSeq(@, 1, Len(@) - 1)]
Throw(t) == throwing' = [throwing EXCEPT ![t] = TRUE] /\ UNCHANGED stack

\* A step that may fail throws, if it does.
Fails == budget.failures > 0 /\ budget' = [budget EXCEPT !.failures = @ - 1]

\* The part of a call that holds the loader's mutex.  The mutex is recursive.
Locked == {"deps", "install", "extend", "activate", "deactivate", "remove"}
Holds(t) ==
    \/ \E i \in DOMAIN stack[t] : stack[t][i].pc \in Locked
    \/ t = Main /\ phase = "resolveAll"
\* Variant: the mutex is not recursive.
MutexFree_NotRecursive(t) == \A u \in Threads : ~Holds(u)
MutexFree(t) == \A u \in Threads \ {t} : ~Holds(u)

-----------------------------------------------------------------------------
(* The beginning and the end of every call. *)

\* Variant: uninstall() does not look at the state.
Requirement_UninstallAny(op) ==
    CASE op = "resolve" -> {"installed"}
      [] op = "start" -> {"resolved"}
      [] op = "stop" -> {"active"}
      [] op = "uninstall" -> {"installed", "resolved", "active", "uninstalled"}

\* The states an operation requires.
Requirement(op) ==
    CASE op = "resolve" -> {"installed"}
      [] op = "start" -> {"resolved"}
      [] op = "stop" -> {"active"}
      [] op = "uninstall" -> {"installed", "resolved"}

\* The test at the head of resolve(), start(), stop() and uninstall().
Check(t, op) ==
    /\ In(t, op, "check")
    /\ \/ /\ state[Top(t).bundle] \in Requirement(op)
          /\ GoTo(t, IF op \in {"start", "stop"} THEN "enter" ELSE "lock")
          /\ UNCHANGED throwing
       \/ /\ state[Top(t).bundle] \notin Requirement(op)
          /\ Throw(t)
    /\ UNCHANGED <<manifest, state, loader, subsystem, budget>>

\* Variant: the old state is not remembered.
Enter_NotRemembered(t) ==
    /\ In(t, "start", "enter") \/ In(t, "stop", "enter")
    /\ GoTo(t, "lock")
    /\ state' = [state EXCEPT ![Top(t).bundle] = IF Top(t).op = "start" THEN "starting" ELSE "stopping"]
    /\ UNCHANGED <<manifest, loader, throwing, subsystem, budget>>

\* StateChange: remembers the state, whatever it is by now, and changes it.
Enter(t) ==
    LET c == Top(t) IN
    /\ In(t, "start", "enter") \/ In(t, "stop", "enter")
    /\ stack' = [stack EXCEPT ![t][Len(stack[t])] = [c EXCEPT !.old = state[c.bundle], !.pc = "lock"]]
    /\ state' = [state EXCEPT ![c.bundle] = IF c.op = "start" THEN "starting" ELSE "stopping"]
    /\ UNCHANGED <<manifest, loader, throwing, subsystem, budget>>

\* The state an operation ends in.
Outcome(op) ==
    CASE op = "resolve" -> "resolved"
      [] op = "start" -> "active"
      [] op = "stop" -> "resolved"
      [] op = "uninstall" -> "uninstalled"

\* It is set after the call has released the mutex.  start() and stop() have
\* still to report it before their StateChange is destroyed.
Commit(t) ==
    /\ stack[t] # <<>> /\ ~throwing[t] /\ Top(t).pc = "commit"
    /\ state' = [state EXCEPT ![Top(t).bundle] = Outcome(Top(t).op)]
    /\ \/ Top(t).op \in {"resolve", "uninstall"} /\ Pop(t)
       \/ /\ Top(t).op \in {"start", "stop"}
          /\ stack' = [stack EXCEPT ![t][Len(stack[t])] = [Top(t) EXCEPT !.old = None, !.pc = "return"]]
    /\ UNCHANGED <<manifest, loader, throwing, subsystem, budget>>

\* ~StateChange() sets the state that was committed once more, whatever the
\* bundle has been through since.
Return(t) ==
    /\ stack[t] # <<>> /\ ~throwing[t] /\ Top(t).pc = "return"
    /\ state' = [state EXCEPT ![Top(t).bundle] = Outcome(Top(t).op)]
    /\ Pop(t)
    /\ UNCHANGED <<manifest, loader, throwing, subsystem, budget>>

\* Variant: the bundle is not taken out of _resolvingBundles.
Unwind_StaysResolving(t) ==
    LET c == Top(t) IN
    /\ throwing[t]
    /\ state' = IF c.old = None THEN state ELSE [state EXCEPT ![c.bundle] = c.old]
    /\ Pop(t)
    /\ throwing' = [throwing EXCEPT ![t] = Len(stack[t]) > 1]
    /\ phase' = IF t = Main /\ phase = "stopAll" THEN "aborted" ELSE phase
    /\ UNCHANGED <<manifest, loader, todo, order, budget>>

\* Variant: the exception leaves the bundle in its transient state.
Unwind_NoRollback(t) ==
    LET c == Top(t) IN
    /\ throwing[t]
    /\ resolving' = IF c.op = "resolve" /\ c.pc = "deps" THEN resolving \ {c.bundle} ELSE resolving
    /\ Pop(t)
    /\ throwing' = [throwing EXCEPT ![t] = Len(stack[t]) > 1]
    /\ phase' = IF t = Main /\ phase = "stopAll" THEN "aborted" ELSE phase
    /\ UNCHANGED <<manifest, state, bundles, classLoader, activator, running, extensions,
                   todo, order, budget>>

\* An exception leaves the innermost call: resolveBundle() takes the bundle
\* out of _resolvingBundles, the lock is released, ~StateChange() puts the old
\* state back.  Who called the outermost call logs the exception; but
\* stopAllBundles() lets it pass.
Unwind(t) ==
    LET c == Top(t) IN
    /\ throwing[t]
    /\ resolving' = IF c.op = "resolve" /\ c.pc = "deps" THEN resolving \ {c.bundle} ELSE resolving
    /\ state' = IF c.old = None THEN state ELSE [state EXCEPT ![c.bundle] = c.old]
    /\ Pop(t)
    /\ throwing' = [throwing EXCEPT ![t] = Len(stack[t]) > 1]
    /\ phase' = IF t = Main /\ phase = "stopAll" THEN "aborted" ELSE phase
    /\ UNCHANGED <<manifest, bundles, classLoader, activator, running, extensions,
                   todo, order, budget>>

-----------------------------------------------------------------------------
(* resolveBundle(). *)

\* "poco_assert (!isResolving(pBundle))" throws in a thread that resolves a
\* bundle it is resolving already.
ResolveBegins(t) ==
    LET b == Top(t).bundle IN
    /\ In(t, "resolve", "lock")
    /\ MutexFree(t)
    /\ \/ /\ b \notin resolving
          /\ resolving' = resolving \cup {b}
          /\ GoTo(t, "deps")
          /\ UNCHANGED throwing
       \/ /\ b \in resolving
          /\ Throw(t)
          /\ UNCHANGED resolving
    /\ UNCHANGED <<manifest, state, bundles, classLoader, activator, running, extensions,
                   subsystem, budget>>

\* The bundle required next, and the step to the one after it.
NextRequired(t) == manifest[Top(t).bundle].requires[Top(t).next]
HasNext(t) == Top(t).next <= Len(manifest[Top(t).bundle].requires)
Advance(t) == stack' = [stack EXCEPT ![t][Len(stack[t])].next = @ + 1]

\* Variant: a bundle that is being resolved counts as resolved.
ResolveDependency_NoCycles(t) ==
    LET d == NextRequired(t) IN
    /\ In(t, "resolve", "deps") /\ HasNext(t)
    /\ \/ /\ d \in bundles /\ (IsResolved(d) \/ d \in resolving)
          /\ Advance(t)
          /\ UNCHANGED throwing
       \/ /\ d \in bundles /\ ~IsResolved(d) /\ d \notin resolving
          /\ Push(t, Call("resolve", d))
          /\ UNCHANGED throwing
       \/ /\ d \notin bundles
          /\ Throw(t)
    /\ UNCHANGED <<manifest, state, loader, subsystem, budget>>

\* resolveDependency(): a missing bundle and a circular reference throw.
ResolveDependency(t) ==
    LET d == NextRequired(t) IN
    /\ In(t, "resolve", "deps") /\ HasNext(t)
    /\ \/ /\ d \in bundles /\ IsResolved(d)
          /\ Advance(t)
          /\ UNCHANGED throwing
       \/ /\ d \in bundles /\ ~IsResolved(d) /\ d \notin resolving
          /\ Push(t, Call("resolve", d))
          /\ UNCHANGED throwing
       \/ /\ d \in bundles => ~IsResolved(d) /\ d \in resolving
          /\ Throw(t)
    /\ UNCHANGED <<manifest, state, loader, subsystem, budget>>

ResolveInstalls(t) ==
    /\ In(t, "resolve", "deps") /\ ~HasNext(t)
    /\ resolving' = resolving \ {Top(t).bundle}
    /\ GoTo(t, "install")
    /\ UNCHANGED <<manifest, state, bundles, classLoader, activator, running, extensions,
                   throwing, subsystem, budget>>

\* installLibraries(), which copies files.
InstallLibraries(t) ==
    /\ In(t, "resolve", "install")
    /\ \/ /\ GoTo(t, IF manifest[Top(t).bundle].extends = None THEN "commit" ELSE "extend")
          /\ UNCHANGED <<throwing, budget>>
       \/ Fails /\ Throw(t)
    /\ UNCHANGED <<manifest, state, loader, subsystem>>

\* An extension bundle: the bundle it extends is resolved first.
Extend(t) ==
    LET b == Top(t).bundle
        e == manifest[b].extends IN
    /\ In(t, "resolve", "extend")
    /\ \/ /\ e \in bundles /\ ~IsResolved(e)
          /\ Push(t, Call("resolve", e))
          /\ UNCHANGED extensions
       \/ /\ e \in bundles /\ IsResolved(e)
          /\ extensions' = [extensions EXCEPT ![e] = @ \cup {b}]
          /\ GoTo(t, "commit")
       \/ /\ e \notin bundles
          /\ GoTo(t, "commit")
          /\ UNCHANGED extensions
    /\ UNCHANGED <<manifest, state, bundles, resolving, classLoader, activator, running,
                   throwing, subsystem, budget>>

Resolve(t) == ResolveBegins(t) \/ ResolveDependency(t) \/ ResolveInstalls(t)
              \/ InstallLibraries(t) \/ Extend(t)

-----------------------------------------------------------------------------
(* startBundle(), stopBundle() and uninstallBundle(). *)

\* The loader looks its bundle up.
StartOrStopBegins(t) ==
    /\ In(t, "start", "lock") \/ In(t, "stop", "lock")
    /\ MutexFree(t)
    /\ \/ /\ Top(t).bundle \in bundles
          /\ GoTo(t, IF Top(t).op = "start" THEN "deps" ELSE "deactivate")
          /\ UNCHANGED throwing
       \/ /\ Top(t).bundle \notin bundles
          /\ Throw(t)
    /\ UNCHANGED <<manifest, state, loader, subsystem, budget>>

\* Variant: required bundles are looked up, not started.
StartDependency_NotStarted(t) ==
    LET d == NextRequired(t) IN
    /\ In(t, "start", "deps") /\ HasNext(t)
    /\ \/ /\ d \in bundles
          /\ Advance(t)
          /\ UNCHANGED throwing
       \/ /\ d \notin bundles
          /\ Throw(t)
    /\ UNCHANGED <<manifest, state, loader, subsystem, budget>>

\* startDependencies().
StartDependency(t) ==
    LET d == NextRequired(t) IN
    /\ In(t, "start", "deps") /\ HasNext(t)
    /\ \/ /\ d \in bundles /\ IsActive(d)
          /\ Advance(t)
          /\ UNCHANGED throwing
       \/ /\ d \in bundles /\ ~IsActive(d)
          /\ Push(t, Call("start", d))
          /\ UNCHANGED throwing
       \/ /\ d \notin bundles
          /\ Throw(t)
    /\ UNCHANGED <<manifest, state, loader, subsystem, budget>>

\* loadActivator(): the class loader is stored before it has loaded the
\* library.  With a class loader there, the activator is whatever was set.
LoadActivator(t) ==
    LET b == Top(t).bundle IN
    /\ In(t, "start", "deps") /\ ~HasNext(t)
    /\ \/ /\ classLoader[b] = "null" /\ manifest[b].hasActivator
          /\ classLoader' = [classLoader EXCEPT ![b] = "loaded"]
          /\ activator' = [activator EXCEPT ![b] = TRUE]
          /\ GoTo(t, "activate")
          /\ UNCHANGED <<throwing, budget>>
       \/ \* loadLibrary() fails, or finding and creating the activator does.
          /\ classLoader[b] = "null" /\ manifest[b].hasActivator
          /\ \E left \in {"empty", "loaded"} : classLoader' = [classLoader EXCEPT ![b] = left]
          /\ Fails /\ Throw(t)
          /\ UNCHANGED activator
       \/ /\ classLoader[b] = "null" /\ ~manifest[b].hasActivator
          /\ classLoader' = [classLoader EXCEPT ![b] = "empty"]
          /\ GoTo(t, "commit")
          /\ UNCHANGED <<activator, throwing, budget>>
       \/ /\ classLoader[b] # "null"
          /\ GoTo(t, IF activator[b] THEN "activate" ELSE "commit")
          /\ UNCHANGED <<classLoader, activator, throwing, budget>>
    /\ UNCHANGED <<manifest, state, bundles, resolving, running, extensions, subsystem>>

\* BundleActivator::start().
ActivatorStarts(t) ==
    /\ In(t, "start", "activate")
    /\ \/ /\ running' = [running EXCEPT ![Top(t).bundle] = TRUE]
          /\ GoTo(t, "commit")
          /\ UNCHANGED <<throwing, budget>>
       \/ /\ Fails /\ Throw(t)
          /\ UNCHANGED running
    /\ UNCHANGED <<manifest, state, bundles, resolving, classLoader, activator, extensions,
                   subsystem>>

\* BundleActivator::stop(), if there is an activator.
ActivatorStops(t) ==
    LET b == Top(t).bundle IN
    /\ In(t, "stop", "deactivate")
    /\ \/ /\ running' = IF activator[b] THEN [running EXCEPT ![b] = FALSE] ELSE running
          /\ GoTo(t, "commit")
          /\ UNCHANGED <<throwing, budget>>
       \/ /\ activator[b]
          /\ Fails /\ Throw(t)
          /\ UNCHANGED running
    /\ UNCHANGED <<manifest, state, bundles, resolving, classLoader, activator, extensions,
                   subsystem>>

UninstallBegins(t) ==
    /\ In(t, "uninstall", "lock")
    /\ MutexFree(t)
    /\ GoTo(t, "remove")
    /\ UNCHANGED <<manifest, state, loader, throwing, subsystem, budget>>

\* Variant: the extension stays with what it extends.
Unextended_Kept(b) == extensions

\* What it extended no longer has its resources.
Unextended(b) ==
    LET e == manifest[b].extends IN
    IF e \in bundles THEN [extensions EXCEPT ![e] = @ \ {b}] ELSE extensions

\* unloadLibrary() finds no library to unload: loadLibrary() had failed.
CannotUnload(b) == manifest[b].hasActivator /\ classLoader[b] = "empty"

\* The activator is unloaded, the files are removed, and the bundle is erased
\* from the map.  Removing may fail, and does if another thread has done it:
\* File::remove() throws if there is no file, before _bundles.erase(it) is
\* reached with the end iterator.
UninstallRemoves(t) ==
    LET b == Top(t).bundle IN
    /\ In(t, "uninstall", "remove")
    /\ extensions' = Unextended(b)
    /\ \/ /\ b \in bundles /\ ~CannotUnload(b)
          /\ classLoader' = [classLoader EXCEPT ![b] = "null"]
          /\ \/ /\ bundles' = bundles \ {b}
                /\ GoTo(t, "commit")
                /\ UNCHANGED <<throwing, budget>>
             \/ /\ Fails /\ Throw(t)
                /\ UNCHANGED bundles
       \/ /\ b \in bundles => CannotUnload(b)
          /\ Throw(t)
          /\ UNCHANGED <<bundles, classLoader, budget>>
    /\ UNCHANGED <<manifest, state, resolving, activator, running, subsystem>>

StartStopUninstall(t) ==
    \/ StartOrStopBegins(t) \/ StartDependency(t) \/ LoadActivator(t) \/ ActivatorStarts(t)
    \/ ActivatorStops(t) \/ UninstallBegins(t) \/ UninstallRemoves(t)

Step(t) ==
    \/ \E op \in Operations : Check(t, op)
    \/ Enter(t) \/ Commit(t) \/ Return(t) \/ Unwind(t)
    \/ Resolve(t)
    \/ StartStopUninstall(t)

-----------------------------------------------------------------------------
(* OSPSubsystem, on the main thread. *)

Idle(t) == stack[t] = <<>>

\* A loop over all bundles begins; resolveAllBundles() holds the mutex.
LoopBegins(from, to) ==
    /\ Idle(Main) /\ phase = from
    /\ MutexFree(Main)
    /\ phase' = to
    /\ todo' = bundles
    /\ UNCHANGED <<manifest, state, loader, stack, throwing, order, budget>>

ResolveAllBundles ==
    \/ LoopBegins("loaded", "resolveAll")
    \/ \E b \in todo :
          /\ phase = "resolveAll" /\ Idle(Main)
          /\ todo' = todo \ {b}
          /\ IF IsResolved(b) THEN UNCHANGED stack ELSE Push(Main, Call("resolve", b))
          /\ UNCHANGED <<manifest, state, loader, throwing, phase, order, budget>>

\* The bundles no other one of the set S has to come before, by run level.
Lowest(S) == {b \in S : \A c \in S : manifest[b].runLevel <= manifest[c].runLevel}

StartAllBundles ==
    \/ todo = {} /\ LoopBegins("resolveAll", "startAll")
    \/ \E b \in Lowest(todo) :
          /\ phase = "startAll" /\ Idle(Main)
          /\ todo' = todo \ {b}
          /\ IF state[b] = "resolved" /\ ~manifest[b].lazyStart
             THEN Push(Main, Call("start", b)) ELSE UNCHANGED stack
          /\ UNCHANGED <<manifest, state, loader, throwing, phase, order, budget>>

\* Variant: the bundles are stopped in the order they were sorted in.
SortBundles_NotReversed ==
    \/ todo = {} /\ LoopBegins("startAll", "sort")
    \/ LET sorted == {order[i] : i \in DOMAIN order} IN
       \E b \in Lowest({c \in todo : IsResolved(c) => Required(c) \subseteq sorted}) :
          /\ phase = "sort"
          /\ todo' = todo \ {b}
          /\ order' = Append(order, b)
          /\ UNCHANGED <<manifest, state, loader, stack, throwing, phase, budget>>

\* sortBundles(): again and again the first bundle, by run level, whose
\* required bundles are sorted already.
SortBundles ==
    \/ todo = {} /\ LoopBegins("startAll", "sort")
    \/ LET sorted == {order[i] : i \in DOMAIN order} IN
       \E b \in Lowest({c \in todo : IsResolved(c) => Required(c) \subseteq sorted}) :
          /\ phase = "sort"
          /\ todo' = todo \ {b}
          /\ order' = <<b>> \o order
          /\ UNCHANGED <<manifest, state, loader, stack, throwing, phase, budget>>

\* stopAllBundles().
StopAllBundles ==
    \/ /\ phase = "sort" /\ todo = {}
       /\ phase' = "stopAll"
       /\ UNCHANGED <<manifest, state, loader, stack, throwing, todo, order, budget>>
    \/ /\ phase = "stopAll" /\ Idle(Main) /\ order # <<>>
       /\ order' = Tail(order)
       /\ IF IsActive(Head(order)) THEN Push(Main, Call("stop", Head(order))) ELSE UNCHANGED stack
       /\ UNCHANGED <<manifest, state, loader, throwing, phase, todo, budget>>
    \/ /\ phase = "stopAll" /\ Idle(Main) /\ order = <<>>
       /\ phase' = "stopped"
       /\ UNCHANGED <<manifest, state, loader, stack, throwing, todo, order, budget>>

MainLoop == ResolveAllBundles \/ StartAllBundles \/ SortBundles \/ StopAllBundles

-----------------------------------------------------------------------------
\* performAction() of the bundle administration's BundleInfoHandler, which is
\* a bundle itself: there are administrators when bundles have been started.
PerformAction(t, op, b) ==
    /\ Idle(t)
    /\ phase \notin {"loaded", "resolveAll"}
    /\ budget.calls > 0
    /\ budget' = [budget EXCEPT !.calls = @ - 1]
    /\ Push(t, Call(op, b))
    /\ UNCHANGED <<manifest, state, loader, throwing, subsystem>>

\* The bundles a thread operates on; shutdown operates on all of them.
Operands(t) ==
    IF t = Main /\ phase \in {"sort", "stopAll", "stopped", "aborted"} THEN Bundles
    ELSE {stack[t][i].bundle : i \in DOMAIN stack[t]}
Overlap == {b \in Bundles : \E t, u \in Threads : t # u /\ b \in Operands(t) \cap Operands(u)}

Tracked == disturbed' = disturbed \cup Overlap'

ThreadRuns(t) == Step(t) /\ Tracked
MainRuns == MainLoop /\ Tracked

Next ==
    \/ \E t \in Threads : ThreadRuns(t)
    \/ MainRuns
    \/ /\ \E t \in Admins, op \in Admissible, b \in Bundles : PerformAction(t, op, b)
       /\ Tracked

Spec == Init /\ [][Next]_vars

\* Every thread is scheduled.  Administrators need not ask for anything; the
\* application is shut down at some time.
FairSpec ==
    /\ Spec
    /\ \A t \in Threads : WF_vars(ThreadRuns(t))
    /\ WF_vars(MainRuns)

-----------------------------------------------------------------------------
CallRecord ==
    [op : Operations, bundle : Bundles, pc : {"check", "enter", "lock", "commit", "return"} \cup Locked,
     next : Nat \ {0}, old : BundleStates \cup {None}]

\* A call looks at no more bundles than are required, and remembers a state
\* while it has changed it.
IsCall(c) ==
    /\ c.next <= Len(manifest[c.bundle].requires) + 1
    /\ c.old # None <=> c.op \in {"start", "stop"} /\ c.pc \notin {"check", "enter", "return"}
    /\ c.pc = "return" => c.op \in {"start", "stop"}

\* Types of the variables of the bundles, the loader and its callers.
TypeOK ==
    /\ manifest \in Manifests
    /\ state \in [Bundles -> BundleStates]
    /\ bundles \subseteq Bundles /\ resolving \subseteq Bundles
    /\ classLoader \in [Bundles -> {"null", "empty", "loaded"}] /\ activator \in [Bundles -> BOOLEAN]
    /\ running \in [Bundles -> BOOLEAN]
    /\ extensions \in [Bundles -> SUBSET Bundles]
    /\ stack \in [Threads -> Seq(CallRecord)]
    /\ \A t \in Threads : \A i \in DOMAIN stack[t] : IsCall(stack[t][i])
    /\ throwing \in [Threads -> BOOLEAN]
    /\ \A t \in Threads : throwing[t] => stack[t] # <<>>
    /\ phase \in {"loaded", "resolveAll", "startAll", "sort", "stopAll", "stopped", "aborted"}
    /\ todo \subseteq Bundles /\ order \in Seq(Bundles)
    /\ disturbed \subseteq Bundles

Calls == UNION {{stack[t][i] : i \in DOMAIN stack[t]} : t \in Threads}
InCall(b) == \E c \in Calls : c.bundle = b

\* A bundle is never resolved before all it requires are, whoever resolves
\* them and however they fail, in a graph with cycles too.
Available(d) == d \in Bundles /\ (d \in bundles => IsResolved(d))
DependenciesResolved ==
    \A b \in Bundles : IsResolved(b) => \A d \in Required(b) : Available(d)

\* Why: a call knows of required bundles what it will make of its own bundle.
CallKnows(c) ==
    /\ c.op \in {"start", "stop"} /\ c.pc # "check" =>
          state[c.bundle] # "installed" /\ \A d \in Required(c.bundle) : Available(d)
    /\ c.old # "installed"
    /\ c.old = "uninstalled" => c.bundle \notin bundles
    /\ c.op = "resolve" /\ c.pc \in {"check", "lock", "deps"} =>
          \A i \in 1 .. c.next - 1 : Available(manifest[c.bundle].requires[i])
    /\ c.op = "resolve" /\ c.pc \in {"install", "extend", "commit"} =>
          \A d \in Required(c.bundle) : Available(d)
    /\ c.op = "uninstall" /\ c.pc = "commit" => c.bundle \notin bundles
CallsKnow ==
    /\ \A t \in Threads : \A i \in DOMAIN stack[t] : CallKnows(stack[t][i])
    /\ \A b \in Bundles : state[b] = "uninstalled" => b \notin bundles

\* _resolvingBundles holds the bundles whose dependencies are being resolved
\* and no other: one left behind would make every later attempt to resolve a
\* bundle that requires it a circular reference.
ResolvingIsOnStack ==
    resolving = {c.bundle : c \in {d \in Calls : d.op = "resolve" /\ d.pc = "deps"}}

\* No failure leaves a bundle in a transient state with nobody working on it.
Settled ==
    \A b \in Bundles \ disturbed : state[b] \in {"starting", "stopping"} => InCall(b)

\* Unless threads worked on one bundle at the same time, a started activator
\* is one of a bundle that is active, or will be when the call returns.
RunningIsActive ==
    \A b \in Bundles \ disturbed : running[b] /\ ~InCall(b) => IsActive(b)

\* When an activator is started, all bundles required by its bundle are in the
\* state active, or another thread is in stop() and has not got to the
\* activator.  It says nothing of their activators: after a failure an active
\* bundle may have none that runs (LoadActivator).
DependenciesFirst ==
    [][\A b \in Bundles : running'[b] /\ ~running[b] =>
          \A d \in Required(b) \ disturbed : state[d] \in {"active", "stopping"}]_vars

\* At shutdown an activator is stopped after those of all bundles that require
\* its bundle, unless an administrator works on the two during the shutdown.
StopOrder ==
    [][phase = "stopAll" =>
          \A d \in Bundles \ disturbed : running[d] /\ ~running'[d] =>
              \A b \in Bundles \ disturbed : d \in Required(b) => ~running[b]]_vars

\* A bundle that extends another is in the loader's map: the extended bundle
\* does not look for resources in one that is gone.
ExtensionsAreLoaded ==
    \A e \in bundles : \A b \in extensions[e] \ disturbed : b \in bundles

LifeCycle == INSTANCE BundleLifeCycle

\* A bundle goes through its life cycle move by move: no two threads' calls,
\* failures or recursion let it skip a state, leave a state it did not enter,
\* or have its activator started or stopped in any other.
ImplementsLifeCycle == LifeCycle!Spec

\* Every call returns: the mutex is released on every path and recursion ends.
CallsReturn == \A t \in Threads : ~Idle(t) ~> Idle(t)

-----------------------------------------------------------------------------
(* What the repository says of this code and the code does not do. *)

\* 00200-OSPBundles.page: "Eventually, at least at shutdown time, the bundle
\* will be stopped."  (Here: unless an exception ends stopAllBundles().)
ShutdownStops ==
    \A b \in Bundles : (phase = "sort" /\ running[b]) ~> (~running[b] \/ phase = "aborted")
=============================================================================
