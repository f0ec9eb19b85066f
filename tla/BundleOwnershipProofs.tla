------------------------ MODULE BundleOwnershipProofs ------------------------
(***************************************************************************)
(* More proofs about BundleLoader: what holds of a bundle only one thread  *)
(* works on at a time (it is not in disturbed).  Its state and its         *)
(* activator then follow the calls that thread is in: Owned.  Everything   *)
(* else rests on this: no failure leaves it in a transient state, it is    *)
(* started after what it requires and stopped before.                      *)
(***************************************************************************)
EXTENDS BundleLoaderProofs

-----------------------------------------------------------------------------
(* What a step does to the stack of the thread that makes it.                *)

OthersStay(t) == \A u \in Threads : u # t => stack'[u] = stack[u]

\* The innermost call of the thread becomes c.
Replaces(t, c) ==
    /\ OthersStay(t)
    /\ Len(stack'[t]) = Len(stack[t]) /\ DOMAIN stack'[t] = DOMAIN stack[t]
    /\ stack'[t][Len(stack[t])] = c
    /\ \A i \in DOMAIN stack[t] : i # Len(stack[t]) => stack'[t][i] = stack[t][i]

\* The thread makes the call c.
Makes(t, c) ==
    /\ OthersStay(t)
    /\ Len(stack'[t]) = Len(stack[t]) + 1 /\ DOMAIN stack'[t] = 1 .. Len(stack[t]) + 1
    /\ stack'[t][Len(stack[t]) + 1] = c
    /\ \A i \in DOMAIN stack[t] : stack'[t][i] = stack[t][i]

\* The thread returns from its innermost call.
Leaves(t) ==
    /\ OthersStay(t)
    /\ Len(stack'[t]) = Len(stack[t]) - 1 /\ DOMAIN stack'[t] = 1 .. Len(stack[t]) - 1
    /\ \A i \in DOMAIN stack'[t] : stack'[t][i] = stack[t][i]

LEMMA StackFacts ==
    ASSUME Typed, NEW t \in Threads
    PROVE  /\ stack \in [Threads -> Seq(CallRecord)] /\ stack[t] \in Seq(CallRecord)
           /\ Len(stack[t]) \in Nat /\ DOMAIN stack[t] = 1 .. Len(stack[t])
           /\ stack[t] # <<>> => Len(stack[t]) \in DOMAIN stack[t] /\ Len(stack[t]) > 0
           /\ stack[t] = <<>> <=> Len(stack[t]) = 0
           /\ \A i \in DOMAIN stack[t] : stack[t][i] \in CallRecord
  <1>1. stack \in [Threads -> Seq(CallRecord)] /\ stack[t] \in Seq(CallRecord)
    BY DEF Typed
  <1>2. Len(stack[t]) \in Nat /\ DOMAIN stack[t] = 1 .. Len(stack[t])
    BY <1>1, LenProperties
  <1>3. stack[t] = <<>> <=> Len(stack[t]) = 0
    BY <1>1, EmptySeq
  <1>4. \A i \in DOMAIN stack[t] : stack[t][i] \in CallRecord
    BY <1>1, <1>2, ElementOfSeq
  <1>5. QED
    BY <1>1, <1>2, <1>3, <1>4

LEMMA ReplacesFacts ==
    ASSUME Typed, NEW t \in Threads, stack[t] # <<>>, NEW c,
           stack' = [stack EXCEPT ![t][Len(stack[t])] = c]
    PROVE  Replaces(t, c)
  <1> DEFINE n == Len(stack[t])
             s == [stack[t] EXCEPT ![n] = c]
  <1>1. /\ stack \in [Threads -> Seq(CallRecord)] /\ stack[t] \in Seq(CallRecord)
        /\ n \in DOMAIN stack[t] /\ DOMAIN stack[t] = 1 .. n /\ n \in Nat
    BY StackFacts
  <1>2. /\ DOMAIN s = DOMAIN stack[t] /\ s[n] = c
        /\ \A i \in DOMAIN stack[t] : i # n => s[i] = stack[t][i]
    BY <1>1
  <1>3. s \in Seq(CallRecord \cup {c})
    BY <1>1, <1>2, SeqDef
  <1>4. Len(s) = n
    BY <1>1, <1>2, <1>3, LenProperties
  <1>5. stack' = [stack EXCEPT ![t] = s]
    BY <1>1
  <1> HIDE DEF s
  <1>6. stack'[t] = s /\ OthersStay(t)
    BY <1>1, <1>5 DEF OthersStay
  <1>7. QED
    BY <1>2, <1>4, <1>6 DEF Replaces

LEMMA MakesFacts ==
    ASSUME Typed, NEW t \in Threads, NEW c, Push(t, c)
    PROVE  Makes(t, c)
  <1> DEFINE n == Len(stack[t])
             s == Append(stack[t], c)
  <1>1. /\ stack \in [Threads -> Seq(CallRecord)] /\ stack[t] \in Seq(CallRecord \cup {c})
        /\ DOMAIN stack[t] = 1 .. n /\ n \in Nat
    BY StackFacts, SeqDef
  <1>2. /\ Len(s) = n + 1 /\ DOMAIN s = 1 .. n + 1 /\ s[n + 1] = c
        /\ \A i \in 1 .. n : s[i] = stack[t][i]
    BY <1>1, AppendProperties, LenProperties
  <1>3. stack' = [stack EXCEPT ![t] = s]
    BY DEF Push
  <1> HIDE DEF s
  <1>4. stack'[t] = s /\ OthersStay(t)
    BY <1>1, <1>3 DEF OthersStay
  <1>5. QED
    BY <1>1, <1>2, <1>4 DEF Makes

LEMMA LeavesFacts ==
    ASSUME Typed, NEW t \in Threads, stack[t] # <<>>, Pop(t)
    PROVE  Leaves(t)
  <1> DEFINE n == Len(stack[t])
             s == SubSeq(stack[t], 1, n - 1)
  <1>1. /\ stack \in [Threads -> Seq(CallRecord)] /\ stack[t] \in Seq(CallRecord)
        /\ DOMAIN stack[t] = 1 .. n /\ n \in Nat /\ n > 0
    BY StackFacts
  <1>2. Len(s) = n - 1 /\ DOMAIN s = 1 .. n - 1 /\ \A i \in 1 .. n - 1 : s[i] = stack[t][i]
    BY <1>1, SubSeqProperties, LenProperties
  <1>3. stack' = [stack EXCEPT ![t] = s]
    BY DEF Pop
  <1> HIDE DEF s
  <1>4. stack'[t] = s /\ OthersStay(t)
    BY <1>1, <1>3 DEF OthersStay
  <1>5. QED
    BY <1>2, <1>4 DEF Leaves

\* The innermost call goes on to the place pc.
LEMMA GoToFacts ==
    ASSUME Typed, NEW t \in Threads, stack[t] # <<>>, NEW pc, GoTo(t, pc)
    PROVE  \E c : /\ Replaces(t, c)
                  /\ c.pc = pc /\ c.op = Top(t).op /\ c.bundle = Top(t).bundle
                  /\ c.next = Top(t).next /\ c.old = Top(t).old
  <1> DEFINE c == [Top(t) EXCEPT !.pc = pc]
  <1>1. Top(t) \in CallRecord
    BY StackFacts DEF Top
  <1>2. /\ c.pc = pc /\ c.op = Top(t).op /\ c.bundle = Top(t).bundle
        /\ c.next = Top(t).next /\ c.old = Top(t).old
    BY <1>1 DEF CallRecord
  <1>3. stack' = [stack EXCEPT ![t][Len(stack[t])] = c]
    BY DEF GoTo, Top
  <1> HIDE DEF c
  <1>4. Replaces(t, c)
    BY <1>3, ReplacesFacts
  <1>5. QED
    BY <1>2, <1>4

\* The innermost call goes on to the next required bundle.
LEMMA AdvanceFacts ==
    ASSUME Typed, NEW t \in Threads, stack[t] # <<>>, Advance(t)
    PROVE  \E c : /\ Replaces(t, c)
                  /\ c.pc = Top(t).pc /\ c.op = Top(t).op /\ c.bundle = Top(t).bundle
                  /\ c.next = Top(t).next + 1 /\ c.old = Top(t).old
  <1> DEFINE c == [Top(t) EXCEPT !.next = @ + 1]
  <1>1. Top(t) \in CallRecord
    BY StackFacts DEF Top
  <1>2. /\ c.pc = Top(t).pc /\ c.op = Top(t).op /\ c.bundle = Top(t).bundle
        /\ c.next = Top(t).next + 1 /\ c.old = Top(t).old
    BY <1>1 DEF CallRecord
  <1>3. stack' = [stack EXCEPT ![t][Len(stack[t])] = c]
    BY DEF Advance, Top
  <1> HIDE DEF c
  <1>4. Replaces(t, c)
    BY <1>3, ReplacesFacts
  <1>5. QED
    BY <1>2, <1>4

-----------------------------------------------------------------------------
(* The invariant.                                                            *)

\* The calls of a thread are of one kind; all but the innermost wait for a
\* bundle they depend on or extend.  No call throws that has done its work.
Shaped ==
    \A t \in Threads :
        /\ \A i \in DOMAIN stack[t] :
              /\ stack[t][i].op = Top(t).op
              /\ i # Len(stack[t]) =>
                    stack[t][i].op \in {"resolve", "start"} /\ stack[t][i].pc \in {"deps", "extend"}
        /\ throwing[t] => Top(t).pc \notin {"commit", "return"}

\* What a call relies on of its bundle, if no other thread works on it.
Owns(c) ==
    /\ c.pc = "enter" => state[c.bundle] \in Requirement(c.op)
    /\ c.pc = "return" => state[c.bundle] = Outcome(c.op)
    /\ c.old # None => /\ c.old \in Requirement(c.op)
                       /\ state[c.bundle] = IF c.op = "start" THEN "starting" ELSE "stopping"
    /\ c.op \in {"resolve", "uninstall"} /\ c.pc # "check" =>
          state[c.bundle] \in {"installed", "resolved"}

\* A call of a bundle whose activator is started and whose state is transient.
Runs(c) ==
    \/ c.op = "start" /\ c.pc = "commit"
    \/ c.op = "stop" /\ c.old # None /\ c.pc # "commit"

Erased(c) == c.op = "uninstall" /\ c.pc = "commit"

\* The state of a bundle follows from the calls on it: at most one has changed
\* the state and will put it back or forward; without one the state is not
\* transient, the activator runs in an active bundle only, and the bundle is
\* in the map until it is uninstalled.
Owned(b) ==
    /\ \A t \in Threads : \A i \in DOMAIN stack[t] : stack[t][i].bundle = b => Owns(stack[t][i])
    /\ \A t \in Threads : \A i, j \in DOMAIN stack[t] :
          stack[t][i].bundle = b /\ stack[t][j].bundle = b
              /\ stack[t][i].old # None /\ stack[t][j].old # None => i = j
    /\ state[b] \in {"starting", "stopping"} =>
          \E t \in Threads : \E i \in DOMAIN stack[t] : stack[t][i].bundle = b /\ stack[t][i].old # None
    /\ running[b] =>
          \/ IsActive(b)
          \/ \E t \in Threads : \E i \in DOMAIN stack[t] : stack[t][i].bundle = b /\ Runs(stack[t][i])
    /\ b \notin bundles =>
          \/ state[b] = "uninstalled"
          \/ \E t \in Threads : \E i \in DOMAIN stack[t] : stack[t][i].bundle = b /\ Erased(stack[t][i])

\* An activator that was started, or will be, is there to be stopped.
ActivatorsKnown ==
    /\ \A b \in Bundles : running[b] => activator[b]
    /\ \A t \in Threads : \A i \in DOMAIN stack[t] :
          stack[t][i].pc = "activate" => activator[stack[t][i].bundle]

OInv ==
    /\ Inv /\ Shaped /\ ActivatorsKnown
    /\ Overlap \subseteq disturbed
    /\ \A b \in Bundles \ disturbed : Owned(b)

\* Two threads in calls on one bundle disturb it; so does a thread in such a
\* call while the main thread shuts down.
LEMMA Unshared ==
    ASSUME Overlap \subseteq disturbed, NEW b \in Bundles, b \notin disturbed,
           NEW t \in Threads, NEW i \in DOMAIN stack[t], stack[t][i].bundle = b
    PROVE  /\ \A u \in Threads : \A j \in DOMAIN stack[u] : stack[u][j].bundle = b => u = t
           /\ phase \in {"sort", "stopAll", "stopped", "aborted"} => t = Main
  <1>1. b \in Operands(t)
    BY DEF Operands
  <1>2. \A u \in Threads : u # t => b \notin Operands(u)
    BY <1>1 DEF Overlap
  <1>3. Main \in Threads
    BY DEF Threads
  <1>4. QED
    BY <1>2, <1>3 DEF Operands

-----------------------------------------------------------------------------
(* The steps that change no state, no activator and not the map.             *)

\* How start() goes on from c to d.
StartGoesOn(c, d) ==
    \/ c.pc = "check" /\ d.pc = "enter" /\ d.next = c.next
    \/ c.pc = "lock" /\ d.pc = "deps" /\ d.next = c.next
    \/ /\ c.pc = "deps" /\ d.pc = "deps" /\ d.next = c.next + 1
       /\ manifest[c.bundle].requires[c.next] \in bundles
       /\ IsActive(manifest[c.bundle].requires[c.next])
    \/ /\ c.pc = "deps" /\ d.pc = "activate" /\ c.next > Len(manifest[c.bundle].requires)
       /\ activator'[c.bundle]
    \/ d.pc = "commit"

\* The innermost call goes on to d, having looked at the state if it has to.
GoesOn(t, d) ==
    LET c == Top(t) IN
    /\ d.op = c.op /\ d.bundle = c.bundle /\ d.old = c.old
    /\ c.pc \notin {"commit", "return"} /\ d.pc \notin {"check", "return"}
    /\ c.pc = "check" => state[c.bundle] \in Requirement(c.op)
    /\ d.pc = "enter" => c.pc = "check"
    /\ c.op \in {"stop", "uninstall"} => d.pc # "commit"
    /\ c.op = "stop" /\ d.pc # "enter" => MutexFree(t)
    /\ IF c.op = "start" THEN StartGoesOn(c, d) ELSE d.pc # "activate"

\* A call throws, goes on, or makes another one.
Quiet(t) ==
    /\ manifest' = manifest /\ state' = state /\ running' = running /\ bundles' = bundles
    /\ phase' = phase /\ todo' = todo /\ order' = order
    /\ \A b \in Bundles : activator[b] => activator'[b]
    /\ stack[t] # <<>> /\ ~throwing[t] /\ Top(t).pc \notin {"commit", "return"}
    /\ \/ stack' = stack /\ throwing' = [throwing EXCEPT ![t] = TRUE]
       \/ throwing' = throwing /\ \E c : Replaces(t, c) /\ GoesOn(t, c)
       \/ /\ throwing' = throwing
          /\ Top(t).op \in {"resolve", "start"} /\ Top(t).pc \in {"deps", "extend"}
          /\ \E d \in Bundles : Makes(t, Call(Top(t).op, d))

\* A call other than start() goes on without a look at the state.
LEMMA QuietGoTo ==
    ASSUME Typed, NEW t \in Threads, stack[t] # <<>>, NEW pc, GoTo(t, pc), UNCHANGED throwing,
           ~throwing[t], Top(t).pc \notin {"check", "commit", "return"},
           pc \notin {"check", "enter", "activate", "return"},
           Top(t).op # "start", Top(t).op \in {"stop", "uninstall"} => pc # "commit",
           Top(t).op = "stop" => MutexFree(t), activator' = activator,
           manifest' = manifest, state' = state, running' = running, bundles' = bundles,
           UNCHANGED subsystem
    PROVE  Quiet(t)
  <1>1. PICK c : /\ Replaces(t, c)
                 /\ c.pc = pc /\ c.op = Top(t).op /\ c.bundle = Top(t).bundle
                 /\ c.next = Top(t).next /\ c.old = Top(t).old
    BY GoToFacts
  <1>2. GoesOn(t, c)
    BY <1>1 DEF GoesOn
  <1>3. QED
    BY <1>1, <1>2 DEF Quiet, subsystem

LEMMA QuietThrow ==
    ASSUME \A b \in Bundles : activator[b] => activator'[b], NEW t \in Threads, stack[t] # <<>>, Throw(t), ~throwing[t],
           Top(t).pc \notin {"commit", "return"},
           manifest' = manifest, state' = state, running' = running, bundles' = bundles,
           UNCHANGED subsystem
    PROVE  Quiet(t)
  BY DEF Quiet, Throw, subsystem

LEMMA QuietCheck ==
    ASSUME Typed, NEW t \in Threads, NEW op \in Operations, Check(t, op)
    PROVE  Quiet(t)
  <1>1. /\ stack[t] # <<>> /\ ~throwing[t] /\ Top(t).op = op /\ Top(t).pc = "check"
        /\ manifest' = manifest /\ state' = state /\ running' = running /\ bundles' = bundles
        /\ activator' = activator /\ UNCHANGED subsystem
    BY DEF Check, In, loader
  <1>2. CASE Throw(t)
    BY <1>1, <1>2, QuietThrow
  <1>3. ASSUME NEW pc, pc = (IF op \in {"start", "stop"} THEN "enter" ELSE "lock"),
               GoTo(t, pc), UNCHANGED throwing, state[Top(t).bundle] \in Requirement(op)
        PROVE  Quiet(t)
    <2>1. PICK c : /\ Replaces(t, c)
                   /\ c.pc = pc /\ c.op = Top(t).op /\ c.bundle = Top(t).bundle
                   /\ c.next = Top(t).next /\ c.old = Top(t).old
      BY <1>1, <1>3, GoToFacts
    <2>2. GoesOn(t, c)
      BY <1>1, <1>3, <2>1 DEF GoesOn, StartGoesOn
    <2>3. QED
      BY <1>1, <1>3, <2>1, <2>2 DEF Quiet, subsystem
  <1>4. QED
    BY <1>2, <1>3 DEF Check

LEMMA QuietResolve ==
    ASSUME Typed, NEW t \in Threads, Resolve(t)
    PROVE  Quiet(t)
  <1>1. /\ stack[t] # <<>> /\ ~throwing[t] /\ Top(t).op = "resolve"
        /\ Top(t).pc \in {"lock", "deps", "install", "extend"}
        /\ manifest' = manifest /\ state' = state /\ running' = running /\ bundles' = bundles
        /\ activator' = activator /\ UNCHANGED subsystem
    BY DEF Resolve, ResolveBegins, ResolveDependency, ResolveInstalls, InstallLibraries, Extend,
           In, loader
  <1>2. CASE Throw(t)
    BY <1>1, <1>2, QuietThrow
  <1>3. ASSUME NEW pc \in {"deps", "install", "extend", "commit"}, GoTo(t, pc), UNCHANGED throwing
        PROVE  Quiet(t)
    BY <1>1, <1>3, QuietGoTo
  <1>4. CASE Top(t).pc = "deps" /\ Advance(t) /\ UNCHANGED throwing
    <2>1. PICK c : /\ Replaces(t, c)
                   /\ c.pc = Top(t).pc /\ c.op = Top(t).op /\ c.bundle = Top(t).bundle
                   /\ c.next = Top(t).next + 1 /\ c.old = Top(t).old
      BY <1>1, <1>4, AdvanceFacts
    <2>2. GoesOn(t, c)
      BY <1>1, <1>4, <2>1 DEF GoesOn
    <2>3. QED
      BY <1>1, <1>4, <2>1, <2>2 DEF Quiet, subsystem
  <1>5. ASSUME NEW d \in bundles, Push(t, Call("resolve", d)), UNCHANGED throwing,
               Top(t).pc \in {"deps", "extend"}
        PROVE  Quiet(t)
    <2>1. Makes(t, Call("resolve", d)) /\ d \in Bundles
      BY <1>5, MakesFacts DEF Typed
    <2>2. QED
      BY <1>1, <1>5, <2>1 DEF Quiet, subsystem
  <1>6. CASE ResolveBegins(t)
    BY <1>2, <1>3, <1>6 DEF ResolveBegins
  <1>7. CASE ResolveDependency(t)
    BY <1>2, <1>4, <1>5, <1>7 DEF ResolveDependency, In
  <1>8. CASE ResolveInstalls(t) \/ InstallLibraries(t)
    BY <1>2, <1>3, <1>8 DEF ResolveInstalls, InstallLibraries
  <1>9. CASE Extend(t)
    BY <1>3, <1>5, <1>9 DEF Extend, In
  <1>10. QED
    BY <1>6, <1>7, <1>8, <1>9 DEF Resolve

LEMMA QuietBegins ==
    ASSUME Typed, NEW t \in Threads, StartOrStopBegins(t) \/ UninstallBegins(t)
    PROVE  Quiet(t)
  <1>1. /\ stack[t] # <<>> /\ ~throwing[t] /\ Top(t).pc = "lock" /\ MutexFree(t)
        /\ manifest' = manifest /\ state' = state /\ running' = running /\ bundles' = bundles
        /\ activator' = activator /\ UNCHANGED subsystem
    BY DEF StartOrStopBegins, UninstallBegins, In, loader
  <1>2. CASE Throw(t)
    BY <1>1, <1>2, QuietThrow
  <1>3. CASE Top(t).op = "start" /\ GoTo(t, "deps") /\ UNCHANGED throwing
    <2>1. PICK c : /\ Replaces(t, c)
                   /\ c.pc = "deps" /\ c.op = Top(t).op /\ c.bundle = Top(t).bundle
                   /\ c.next = Top(t).next /\ c.old = Top(t).old
      BY <1>1, <1>3, GoToFacts
    <2>2. GoesOn(t, c)
      BY <1>1, <1>3, <2>1 DEF GoesOn, StartGoesOn
    <2>3. QED
      BY <1>1, <1>3, <2>1, <2>2 DEF Quiet, subsystem
  <1>4. ASSUME NEW pc \in {"deactivate", "remove"}, GoTo(t, pc), UNCHANGED throwing,
               Top(t).op \in {"stop", "uninstall"}
        PROVE  Quiet(t)
    BY <1>1, <1>4, QuietGoTo
  <1>5. CASE StartOrStopBegins(t)
    BY <1>2, <1>3, <1>4, <1>5 DEF StartOrStopBegins, In
  <1>6. CASE UninstallBegins(t)
    BY <1>4, <1>6 DEF UninstallBegins, In
  <1>7. QED
    BY <1>5, <1>6

LEMMA QuietStart ==
    ASSUME Typed, NEW t \in Threads, StartDependency(t) \/ LoadActivator(t)
    PROVE  Quiet(t)
  <1> DEFINE b == Top(t).bundle
  <1>1. /\ stack[t] # <<>> /\ ~throwing[t] /\ Top(t).op = "start" /\ Top(t).pc = "deps"
        /\ manifest' = manifest /\ state' = state /\ running' = running /\ bundles' = bundles
        /\ UNCHANGED subsystem
    BY DEF StartDependency, LoadActivator, In, loader
  <1>2. b \in Bundles /\ Len(manifest[b].requires) \in Nat /\ Top(t).next \in Nat
    <2>1. Top(t) \in CallRecord
      BY <1>1, StackFacts DEF Top
    <2>2. QED
      BY <2>1, ManifestFacts DEF CallRecord
  <1>3. \A a \in Bundles : activator[a] => activator'[a]
    BY <1>2 DEF StartDependency, LoadActivator, loader, Typed
  <1>4. CASE Throw(t)
    BY <1>1, <1>3, <1>4, QuietThrow
  <1>5. ASSUME NEW pc \in {"activate", "commit"}, GoTo(t, pc), UNCHANGED throwing,
               pc = "activate" => ~HasNext(t) /\ activator'[b]
        PROVE  Quiet(t)
    <2>1. PICK c : /\ Replaces(t, c)
                   /\ c.pc = pc /\ c.op = Top(t).op /\ c.bundle = Top(t).bundle
                   /\ c.next = Top(t).next /\ c.old = Top(t).old
      BY <1>1, <1>5, GoToFacts
    <2>2. GoesOn(t, c)
      BY <1>1, <1>2, <1>5, <2>1 DEF GoesOn, StartGoesOn, HasNext
    <2>3. QED
      BY <1>1, <1>3, <1>5, <2>1, <2>2 DEF Quiet, subsystem
  <1>6. CASE Advance(t) /\ UNCHANGED throwing /\ NextRequired(t) \in bundles /\ IsActive(NextRequired(t))
    <2>1. PICK c : /\ Replaces(t, c)
                   /\ c.pc = Top(t).pc /\ c.op = Top(t).op /\ c.bundle = Top(t).bundle
                   /\ c.next = Top(t).next + 1 /\ c.old = Top(t).old
      BY <1>1, <1>6, AdvanceFacts
    <2>2. GoesOn(t, c)
      BY <1>1, <1>6, <2>1 DEF GoesOn, StartGoesOn, NextRequired
    <2>3. QED
      BY <1>1, <1>3, <1>6, <2>1, <2>2 DEF Quiet, subsystem
  <1>7. ASSUME NEW d \in bundles, Push(t, Call("start", d)), UNCHANGED throwing
        PROVE  Quiet(t)
    <2>1. Makes(t, Call("start", d)) /\ d \in Bundles
      BY <1>7, MakesFacts DEF Typed
    <2>2. QED
      BY <1>1, <1>3, <1>7, <2>1 DEF Quiet, subsystem
  <1>8. CASE StartDependency(t)
    BY <1>4, <1>6, <1>7, <1>8 DEF StartDependency
  <1>9. CASE LoadActivator(t)
    <2>1. ~HasNext(t)
      BY <1>9 DEF LoadActivator
    <2>2. CASE GoTo(t, "activate") /\ activator' = [activator EXCEPT ![b] = TRUE] /\ UNCHANGED throwing
      BY <1>2, <1>5, <2>1, <2>2 DEF Typed
    <2>3. CASE GoTo(t, IF activator[b] THEN "activate" ELSE "commit")
               /\ activator' = activator /\ UNCHANGED throwing
      BY <1>5, <2>1, <2>3
    <2>4. CASE GoTo(t, "commit") /\ UNCHANGED throwing
      BY <1>5, <2>1, <2>4
    <2>5. QED
      BY <1>4, <1>9, <2>2, <2>3, <2>4 DEF LoadActivator
  <1>10. QED
    BY <1>8, <1>9

-----------------------------------------------------------------------------
(* The steps that change the activator, the map or a state.                  *)

\* The innermost call has done its work and will commit.
Finishes(t) ==
    /\ stack[t] # <<>> /\ ~throwing[t] /\ throwing' = throwing /\ UNCHANGED subsystem
    /\ \E c : /\ Replaces(t, c)
              /\ c.pc = "commit" /\ c.op = Top(t).op /\ c.bundle = Top(t).bundle
              /\ c.next = Top(t).next /\ c.old = Top(t).old

LEMMA FinishesByGoTo ==
    ASSUME Typed, NEW t \in Threads, stack[t] # <<>>, ~throwing[t], GoTo(t, "commit"),
           throwing' = throwing, UNCHANGED subsystem
    PROVE  Finishes(t)
  BY GoToFacts DEF Finishes

LEMMA ActivatorStartsEffect ==
    ASSUME Typed, NEW t \in Threads, ActivatorStarts(t)
    PROVE  \/ Quiet(t)
           \/ /\ Finishes(t) /\ Top(t).op = "start" /\ Top(t).pc = "activate"
              /\ running' = [running EXCEPT ![Top(t).bundle] = TRUE]
              /\ UNCHANGED <<manifest, state, bundles, activator>>
  <1>1. /\ stack[t] # <<>> /\ ~throwing[t] /\ Top(t).op = "start" /\ Top(t).pc = "activate"
        /\ manifest' = manifest /\ state' = state /\ bundles' = bundles /\ activator' = activator
        /\ UNCHANGED subsystem
    BY DEF ActivatorStarts, In
  <1>2. CASE Throw(t) /\ running' = running
    BY <1>1, <1>2, QuietThrow
  <1>3. CASE GoTo(t, "commit") /\ throwing' = throwing
             /\ running' = [running EXCEPT ![Top(t).bundle] = TRUE]
    BY <1>1, <1>3, FinishesByGoTo
  <1>4. QED
    BY <1>2, <1>3 DEF ActivatorStarts

LEMMA ActivatorStopsEffect ==
    ASSUME Typed, NEW t \in Threads, ActivatorStops(t)
    PROVE  \/ Quiet(t)
           \/ /\ Finishes(t) /\ Top(t).op = "stop" /\ Top(t).pc = "deactivate"
              /\ running' = IF activator[Top(t).bundle]
                            THEN [running EXCEPT ![Top(t).bundle] = FALSE] ELSE running
              /\ UNCHANGED <<manifest, state, bundles, activator>>
  <1>1. /\ stack[t] # <<>> /\ ~throwing[t] /\ Top(t).op = "stop" /\ Top(t).pc = "deactivate"
        /\ manifest' = manifest /\ state' = state /\ bundles' = bundles /\ activator' = activator
        /\ UNCHANGED subsystem
    BY DEF ActivatorStops, In
  <1>2. CASE Throw(t) /\ running' = running
    BY <1>1, <1>2, QuietThrow
  <1>3. CASE GoTo(t, "commit") /\ throwing' = throwing
             /\ running' = IF activator[Top(t).bundle]
                           THEN [running EXCEPT ![Top(t).bundle] = FALSE] ELSE running
    BY <1>1, <1>3, FinishesByGoTo
  <1>4. QED
    BY <1>2, <1>3 DEF ActivatorStops

LEMMA UninstallRemovesEffect ==
    ASSUME Typed, NEW t \in Threads, UninstallRemoves(t)
    PROVE  \/ Quiet(t)
           \/ /\ Finishes(t) /\ Top(t).op = "uninstall" /\ Top(t).pc = "remove"
              /\ bundles' = bundles \ {Top(t).bundle}
              /\ UNCHANGED <<manifest, state, running, activator>>
  <1>1. /\ stack[t] # <<>> /\ ~throwing[t] /\ Top(t).op = "uninstall" /\ Top(t).pc = "remove"
        /\ manifest' = manifest /\ state' = state /\ running' = running /\ activator' = activator
        /\ UNCHANGED subsystem
    BY DEF UninstallRemoves, In
  <1>2. CASE Throw(t) /\ bundles' = bundles
    BY <1>1, <1>2, QuietThrow
  <1>3. CASE GoTo(t, "commit") /\ throwing' = throwing /\ bundles' = bundles \ {Top(t).bundle}
    BY <1>1, <1>3, FinishesByGoTo
  <1>4. QED
    BY <1>2, <1>3 DEF UninstallRemoves

\* StateChange: the call remembers the state.
LEMMA EnterEffect ==
    ASSUME Typed, NEW t \in Threads, Enter(t)
    PROVE  /\ stack[t] # <<>> /\ ~throwing[t]
           /\ Top(t).pc = "enter" /\ Top(t).op \in {"start", "stop"}
           /\ \E c : /\ Replaces(t, c)
                     /\ c.pc = "lock" /\ c.op = Top(t).op /\ c.bundle = Top(t).bundle
                     /\ c.next = Top(t).next /\ c.old = state[Top(t).bundle]
           /\ state' = [state EXCEPT ![Top(t).bundle] =
                           IF Top(t).op = "start" THEN "starting" ELSE "stopping"]
           /\ UNCHANGED <<manifest, loader, throwing, subsystem>>
  <1> DEFINE c == [Top(t) EXCEPT !.old = state[Top(t).bundle], !.pc = "lock"]
  <1>1. stack[t] # <<>> /\ ~throwing[t] /\ Top(t).pc = "enter" /\ Top(t).op \in {"start", "stop"}
    BY DEF Enter, In
  <1>2. Top(t) \in CallRecord
    BY <1>1, StackFacts DEF Top
  <1>3. /\ c.pc = "lock" /\ c.op = Top(t).op /\ c.bundle = Top(t).bundle
        /\ c.next = Top(t).next /\ c.old = state[Top(t).bundle]
    BY <1>2 DEF CallRecord
  <1>4. stack' = [stack EXCEPT ![t][Len(stack[t])] = c]
    BY DEF Enter
  <1> HIDE DEF c
  <1>5. Replaces(t, c)
    BY <1>1, <1>4, ReplacesFacts
  <1>6. QED
    BY <1>1, <1>3, <1>5 DEF Enter

LEMMA CommitEffect ==
    ASSUME Typed, NEW t \in Threads, Commit(t)
    PROVE  /\ stack[t] # <<>> /\ ~throwing[t] /\ Top(t).pc = "commit"
           /\ \/ Top(t).op \in {"resolve", "uninstall"} /\ Leaves(t)
              \/ /\ Top(t).op \in {"start", "stop"}
                 /\ \E c : /\ Replaces(t, c)
                           /\ c.pc = "return" /\ c.op = Top(t).op /\ c.bundle = Top(t).bundle
                           /\ c.next = Top(t).next /\ c.old = None
           /\ state' = [state EXCEPT ![Top(t).bundle] = Outcome(Top(t).op)]
           /\ UNCHANGED <<manifest, loader, throwing, subsystem>>
  <1> DEFINE c == [Top(t) EXCEPT !.old = None, !.pc = "return"]
  <1>1. stack[t] # <<>>
    BY DEF Commit
  <1>2. Top(t) \in CallRecord
    BY <1>1, StackFacts DEF Top
  <1>3. /\ c.pc = "return" /\ c.op = Top(t).op /\ c.bundle = Top(t).bundle
        /\ c.next = Top(t).next /\ c.old = None
    BY <1>2 DEF CallRecord
  <1> HIDE DEF c
  <1>4. CASE Top(t).op \in {"resolve", "uninstall"} /\ Pop(t)
    BY <1>1, <1>4, LeavesFacts DEF Commit
  <1>5. CASE Top(t).op \in {"start", "stop"} /\ stack' = [stack EXCEPT ![t][Len(stack[t])] = c]
    <2>1. Replaces(t, c)
      BY <1>1, <1>5, ReplacesFacts
    <2>2. QED
      BY <1>3, <1>5, <2>1 DEF Commit
  <1>6. QED
    BY <1>4, <1>5 DEF Commit, c

\* ~StateChange of a call that has committed.
LEMMA ReturnEffect ==
    ASSUME Typed, NEW t \in Threads, Return(t)
    PROVE  /\ stack[t] # <<>> /\ ~throwing[t] /\ Top(t).pc = "return" /\ Leaves(t)
           /\ Top(t).op \in {"start", "stop"} /\ Top(t).old = None
           /\ state' = [state EXCEPT ![Top(t).bundle] = Outcome(Top(t).op)]
           /\ UNCHANGED <<manifest, loader, throwing, subsystem>>
  <1>1. stack[t] # <<>> /\ Top(t).pc = "return" /\ Pop(t)
    BY DEF Return
  <1>2. Leaves(t)
    BY <1>1, LeavesFacts
  <1>3. IsCall(Top(t))
    BY <1>1, StackFacts DEF Typed, Top
  <1>4. QED
    BY <1>1, <1>2, <1>3 DEF Return, IsCall

LEMMA UnwindEffect ==
    ASSUME Typed, NEW t \in Threads, Unwind(t)
    PROVE  /\ stack[t] # <<>> /\ throwing[t] /\ Leaves(t)
           /\ state' = IF Top(t).old = None THEN state ELSE [state EXCEPT ![Top(t).bundle] = Top(t).old]
           /\ throwing' = [throwing EXCEPT ![t] = Len(stack[t]) > 1]
           /\ phase' = IF t = Main /\ phase = "stopAll" THEN "aborted" ELSE phase
           /\ UNCHANGED <<manifest, bundles, activator, running, extensions, todo, order>>
  <1>1. throwing[t] /\ stack[t] # <<>> /\ Pop(t)
    BY DEF Unwind, Typed
  <1>2. Leaves(t)
    BY <1>1, LeavesFacts
  <1>3. QED
    BY <1>1, <1>2 DEF Unwind

\* The main thread and the administrators begin calls and change nothing else
\* of the bundles.
Begins ==
    /\ manifest' = manifest /\ state' = state /\ UNCHANGED loader /\ throwing' = throwing
    /\ \/ stack' = stack
       \/ \E t \in Threads, op \in Operations, b \in Bundles :
             stack[t] = <<>> /\ Makes(t, Call(op, b))

LEMMA PerformActionEffect ==
    ASSUME Typed, Admissible \subseteq Operations,
           NEW t \in Admins, NEW op \in Admissible, NEW b \in Bundles, PerformAction(t, op, b)
    PROVE  Begins /\ UNCHANGED subsystem /\ stack[t] = <<>> /\ Makes(t, Call(op, b))
  <1>1. t \in Threads /\ op \in Operations /\ Push(t, Call(op, b)) /\ stack[t] = <<>>
    BY DEF Threads, PerformAction, Idle
  <1>2. Makes(t, Call(op, b))
    BY <1>1, MakesFacts
  <1>3. QED
    BY <1>1, <1>2 DEF PerformAction, Begins

LEMMA MainLoopEffect ==
    ASSUME Typed, MainLoop
    PROVE  Begins
  <1>1. manifest' = manifest /\ state' = state /\ UNCHANGED loader /\ throwing' = throwing
    BY DEF MainLoop, ResolveAllBundles, StartAllBundles, SortBundles, StopAllBundles, LoopBegins
  <1>2. Main \in Threads /\ todo \subseteq Bundles /\ order \in Seq(Bundles)
    BY DEF Threads, Typed
  <1>3. order # <<>> => Head(order) \in Bundles
    BY <1>2
  <1>4. ASSUME NEW op \in Operations, NEW b \in Bundles, Push(Main, Call(op, b)), stack[Main] = <<>>
        PROVE  Begins
    BY <1>1, <1>2, <1>4, MakesFacts DEF Begins
  <1>5. CASE stack' = stack
    BY <1>1, <1>5 DEF Begins
  <1>6. \/ stack' = stack
        \/ stack[Main] = <<>> /\ \E b \in todo : Push(Main, Call("resolve", b))
        \/ stack[Main] = <<>> /\ \E b \in todo : Push(Main, Call("start", b))
        \/ stack[Main] = <<>> /\ order # <<>> /\ Push(Main, Call("stop", Head(order)))
    BY DEF MainLoop, ResolveAllBundles, StartAllBundles, SortBundles, StopAllBundles, LoopBegins,
           Lowest, Idle
  <1>7. QED
    BY <1>2, <1>3, <1>4, <1>5, <1>6 DEF Operations

-----------------------------------------------------------------------------
(* Shaped.                                                                   *)

\* What is shown of the thread that makes the step.
ShapeOf(t) ==
    /\ \A i \in DOMAIN stack[t] :
          /\ stack[t][i].op = Top(t).op
          /\ i # Len(stack[t]) =>
                stack[t][i].op \in {"resolve", "start"} /\ stack[t][i].pc \in {"deps", "extend"}
    /\ throwing[t] => Top(t).pc \notin {"commit", "return"}

LEMMA ShapedByThread ==
    ASSUME Shaped, NEW t \in Threads, OthersStay(t), ShapeOf(t)',
           \A u \in Threads : u # t => throwing'[u] = throwing[u]
    PROVE  Shaped'
  <1>1. ASSUME NEW u \in Threads, u # t
        PROVE  ShapeOf(u)'
    <2>1. stack'[u] = stack[u] /\ throwing'[u] = throwing[u]
      BY <1>1 DEF OthersStay
    <2>2. ShapeOf(u)
      BY DEF Shaped, ShapeOf
    <2>3. QED
      BY <2>1, <2>2 DEF ShapeOf, Top
  <1>2. \A u \in Threads : ShapeOf(u)'
    BY <1>1
  <1>3. QED
    BY <1>2 DEF Shaped, ShapeOf

LEMMA ShapedReplaces ==
    ASSUME Typed, Shaped, NEW t \in Threads, stack[t] # <<>>, NEW c, Replaces(t, c),
           c.op = Top(t).op, ~throwing[t], throwing' = throwing
    PROVE  Shaped'
  <1>1. Len(stack[t]) \in DOMAIN stack[t]
    BY StackFacts
  <1>2. Top(t)' = c
    BY DEF Replaces, Top
  <1>3. ASSUME NEW i \in DOMAIN stack'[t]
        PROVE  /\ stack'[t][i].op = c.op
               /\ i # Len(stack'[t]) =>
                     stack'[t][i].op \in {"resolve", "start"} /\ stack'[t][i].pc \in {"deps", "extend"}
    BY <1>1 DEF Replaces, Shaped
  <1>4. ShapeOf(t)'
    BY <1>2, <1>3 DEF ShapeOf
  <1>5. QED
    BY <1>4, ShapedByThread DEF Replaces

LEMMA ShapedMakes ==
    ASSUME Typed, Shaped, NEW t \in Threads, NEW op, NEW b, Makes(t, Call(op, b)),
           \/ stack[t] = <<>>
           \/ op = Top(t).op /\ op \in {"resolve", "start"} /\ Top(t).pc \in {"deps", "extend"},
           ~throwing[t] \/ stack[t] = <<>>, throwing' = throwing
    PROVE  Shaped'
  <1> DEFINE n == Len(stack[t])
             c == Call(op, b)
  <1>1. n \in Nat /\ DOMAIN stack[t] = 1 .. n /\ (stack[t] = <<>> <=> n = 0)
    BY StackFacts
  <1>2. c.op = op /\ c.pc = "check"
    BY DEF Call
  <1> HIDE DEF c
  <1>3. Top(t)' = c
    BY DEF Makes, Top, c
  <1>4. ASSUME NEW i \in 1 .. n
        PROVE  stack'[t][i].op = op /\ op \in {"resolve", "start"} /\ stack'[t][i].pc \in {"deps", "extend"}
    <2>1. stack'[t][i] = stack[t][i] /\ stack[t] # <<>>
      BY <1>1 DEF Makes
    <2>2. stack[t][i].op = Top(t).op /\ (i # n => stack[t][i].pc \in {"deps", "extend"})
      BY <1>1 DEF Shaped
    <2>3. stack[t][n].pc \in {"deps", "extend"}
      BY <2>1 DEF Top
    <2>4. QED
      BY <2>1, <2>2, <2>3
  <1>5. \A i \in DOMAIN stack'[t] : i = n + 1 \/ i \in 1 .. n
    BY <1>1 DEF Makes
  <1>6. stack'[t][n + 1] = c /\ Len(stack'[t]) = n + 1
    BY DEF Makes, c
  <1>7. ShapeOf(t)'
    BY <1>2, <1>3, <1>4, <1>5, <1>6 DEF ShapeOf
  <1>8. QED
    BY <1>7, ShapedByThread DEF Makes

LEMMA ShapedLeaves ==
    ASSUME Typed, Shaped, NEW t \in Threads, stack[t] # <<>>, Leaves(t),
           throwing'[t] => Len(stack[t]) > 1,
           \A u \in Threads : u # t => throwing'[u] = throwing[u]
    PROVE  Shaped'
  <1> DEFINE n == Len(stack[t])
  <1>1. n \in Nat /\ n > 0 /\ DOMAIN stack[t] = 1 .. n
    BY StackFacts
  <1>2. DOMAIN stack'[t] = 1 .. n - 1 /\ Len(stack'[t]) = n - 1
        /\ \A i \in 1 .. n - 1 : stack'[t][i] = stack[t][i]
    BY DEF Leaves
  <1>3. \A i \in 1 .. n - 1 :
            /\ stack[t][i].op = Top(t).op
            /\ stack[t][i].op \in {"resolve", "start"} /\ stack[t][i].pc \in {"deps", "extend"}
    BY <1>1 DEF Shaped
  <1>4. n > 1 => Top(t)' = stack[t][n - 1] /\ n - 1 \in 1 .. n - 1
    BY <1>1, <1>2 DEF Top
  <1>5. \A i \in 1 .. n - 1 : n > 1
    BY <1>1
  <1> HIDE DEF n
  <1>6. ASSUME NEW i \in DOMAIN stack'[t]
        PROVE  /\ stack'[t][i].op = Top(t)'.op
               /\ stack'[t][i].op \in {"resolve", "start"} /\ stack'[t][i].pc \in {"deps", "extend"}
    BY <1>2, <1>3, <1>4, <1>5, <1>6
  <1>7. throwing'[t] => Top(t)'.pc \notin {"commit", "return"}
    BY <1>3, <1>4 DEF n
  <1>8. ShapeOf(t)'
    BY <1>6, <1>7 DEF ShapeOf
  <1>9. QED
    BY <1>8, ShapedByThread DEF Leaves

LEMMA ShapedQuiet ==
    ASSUME Typed, Shaped, NEW t \in Threads, Quiet(t)
    PROVE  Shaped'
  <1>1. stack[t] # <<>> /\ ~throwing[t] /\ Top(t).pc \notin {"commit", "return"}
    BY DEF Quiet
  <1>2. CASE stack' = stack /\ throwing' = [throwing EXCEPT ![t] = TRUE]
    <2>1. OthersStay(t) /\ \A u \in Threads : u # t => throwing'[u] = throwing[u]
      BY <1>2 DEF OthersStay, Typed
    <2>2. ShapeOf(t)'
      BY <1>1, <1>2 DEF Shaped, ShapeOf, Top
    <2>3. QED
      BY <2>1, <2>2, ShapedByThread
  <1>3. CASE throwing' = throwing /\ \E c : Replaces(t, c) /\ GoesOn(t, c)
    BY <1>1, <1>3, ShapedReplaces DEF GoesOn
  <1>4. CASE /\ throwing' = throwing
             /\ Top(t).op \in {"resolve", "start"} /\ Top(t).pc \in {"deps", "extend"}
             /\ \E d \in Bundles : Makes(t, Call(Top(t).op, d))
    BY <1>1, <1>4, ShapedMakes
  <1>5. QED
    BY <1>2, <1>3, <1>4 DEF Quiet

LEMMA ShapedFinishes ==
    ASSUME Typed, Shaped, NEW t \in Threads, Finishes(t)
    PROVE  Shaped'
  BY ShapedReplaces DEF Finishes

LEMMA ShapedBegins ==
    ASSUME Typed, Shaped, Begins
    PROVE  Shaped'
  <1>1. CASE stack' = stack
    BY <1>1 DEF Begins, Shaped, Top
  <1>2. ASSUME NEW t \in Threads, NEW op \in Operations, NEW b \in Bundles,
               stack[t] = <<>>, Makes(t, Call(op, b))
        PROVE  Shaped'
    BY <1>2, ShapedMakes DEF Begins
  <1>3. QED
    BY <1>1, <1>2 DEF Begins

\* How a step of a thread ends.
LEMMA StepEffect ==
    ASSUME Typed, NEW t \in Threads, Step(t)
    PROVE  \/ Quiet(t) \/ ActivatorStarts(t) \/ ActivatorStops(t) \/ UninstallRemoves(t)
           \/ Enter(t) \/ Commit(t) \/ Return(t) \/ Unwind(t)
  BY QuietCheck, QuietResolve, QuietBegins, QuietStart DEF Step, StartStopUninstall

LEMMA ShapedStep ==
    ASSUME Typed, Shaped, NEW t \in Threads, Step(t)
    PROVE  Shaped'
  <1>1. CASE Quiet(t)
    BY <1>1, ShapedQuiet
  <1>2. CASE ActivatorStarts(t) \/ ActivatorStops(t) \/ UninstallRemoves(t)
    BY <1>2, ActivatorStartsEffect, ActivatorStopsEffect, UninstallRemovesEffect, ShapedQuiet,
       ShapedFinishes
  <1>3. CASE Enter(t)
    BY <1>3, EnterEffect, ShapedReplaces
  <1>4. CASE Commit(t) \/ Return(t)
    BY <1>4, CommitEffect, ReturnEffect, ShapedLeaves, ShapedReplaces
  <1>5. CASE Unwind(t)
    <2>1. /\ throwing'[t] => Len(stack[t]) > 1
          /\ \A u \in Threads : u # t => throwing'[u] = throwing[u]
      BY <1>5, UnwindEffect DEF Typed
    <2>2. QED
      BY <1>5, <2>1, UnwindEffect, ShapedLeaves
  <1>6. QED
    BY <1>1, <1>2, <1>3, <1>4, <1>5, StepEffect

-----------------------------------------------------------------------------
(* ActivatorsKnown.                                                          *)

LEMMA ActivatorsReplaces ==
    ASSUME Typed, ActivatorsKnown, NEW t \in Threads, stack[t] # <<>>, NEW c, Replaces(t, c),
           c.bundle = Top(t).bundle, c.pc = "activate" => activator'[c.bundle],
           \A b \in Bundles : activator[b] => activator'[b],
           \A b \in Bundles : running'[b] => activator'[b]
    PROVE  ActivatorsKnown'
  <1>1. Len(stack[t]) \in DOMAIN stack[t]
    BY StackFacts
  <1>2. ASSUME NEW u \in Threads, NEW i \in DOMAIN stack'[u], stack'[u][i].pc = "activate"
        PROVE  activator'[stack'[u][i].bundle]
    <2>1. CASE u = t /\ i = Len(stack[t])
      BY <1>2, <2>1 DEF Replaces
    <2>2. CASE ~(u = t /\ i = Len(stack[t]))
      <3>1. i \in DOMAIN stack[u] /\ stack'[u][i] = stack[u][i]
        BY <2>2 DEF Replaces, OthersStay
      <3>2. stack[u][i].bundle \in Bundles /\ activator[stack[u][i].bundle]
        BY <1>2, <3>1, StackFacts DEF ActivatorsKnown, CallRecord
      <3>3. QED
        BY <3>1, <3>2
    <2>3. QED
      BY <2>1, <2>2
  <1>3. QED
    BY <1>2 DEF ActivatorsKnown

LEMMA ActivatorsFewer ==
    ASSUME ActivatorsKnown, activator' = activator, running' = running,
           \A u \in Threads : \A i \in DOMAIN stack'[u] :
               \/ stack'[u][i].pc # "activate"
               \/ i \in DOMAIN stack[u] /\ stack'[u][i] = stack[u][i]
    PROVE  ActivatorsKnown'
  BY DEF ActivatorsKnown

LEMMA ActivatorsMakes ==
    ASSUME Typed, ActivatorsKnown, NEW t \in Threads, NEW op, NEW b, Makes(t, Call(op, b)),
           \A a \in Bundles : activator[a] => activator'[a], running' = running
    PROVE  ActivatorsKnown'
  <1>1. Len(stack[t]) \in Nat /\ DOMAIN stack[t] = 1 .. Len(stack[t])
    BY StackFacts
  <1>2. \A u \in Threads : \A i \in DOMAIN stack'[u] :
            \/ stack'[u][i] = Call(op, b)
            \/ i \in DOMAIN stack[u] /\ stack'[u][i] = stack[u][i]
    BY <1>1 DEF Makes, OthersStay
  <1>3. \A u \in Threads : \A i \in DOMAIN stack[u] : stack[u][i].bundle \in Bundles
    BY StackFacts DEF CallRecord
  <1>4. Call(op, b).pc # "activate"
    BY DEF Call
  <1>5. QED
    BY <1>2, <1>3, <1>4 DEF ActivatorsKnown

LEMMA ActivatorsLeaves ==
    ASSUME Typed, ActivatorsKnown, NEW t \in Threads, stack[t] # <<>>, Leaves(t),
           activator' = activator, running' = running
    PROVE  ActivatorsKnown'
  <1>1. Len(stack[t]) \in Nat /\ DOMAIN stack[t] = 1 .. Len(stack[t])
    BY StackFacts
  <1>2. \A u \in Threads : \A i \in DOMAIN stack'[u] :
            i \in DOMAIN stack[u] /\ stack'[u][i] = stack[u][i]
    BY <1>1 DEF Leaves, OthersStay
  <1>3. QED
    BY <1>2, ActivatorsFewer

LEMMA ActivatorsQuiet ==
    ASSUME Typed, ActivatorsKnown, NEW t \in Threads, Quiet(t)
    PROVE  ActivatorsKnown'
  <1>1. /\ stack[t] # <<>> /\ running' = running
        /\ \A b \in Bundles : activator[b] => activator'[b]
    BY DEF Quiet
  <1>2. \A b \in Bundles : running'[b] => activator'[b]
    BY <1>1 DEF ActivatorsKnown
  <1>3. CASE stack' = stack
    BY <1>1, <1>2, <1>3, StackFacts DEF ActivatorsKnown, CallRecord
  <1>4. ASSUME NEW c, Replaces(t, c), GoesOn(t, c)
        PROVE  ActivatorsKnown'
    <2>1. c.bundle = Top(t).bundle /\ (c.pc = "activate" => activator'[c.bundle])
      BY <1>4 DEF GoesOn, StartGoesOn
    <2>2. QED
      BY <1>1, <1>2, <1>4, <2>1, ActivatorsReplaces
  <1>5. ASSUME NEW d \in Bundles, Makes(t, Call(Top(t).op, d))
        PROVE  ActivatorsKnown'
    BY <1>1, <1>5, ActivatorsMakes
  <1>6. QED
    BY <1>3, <1>4, <1>5 DEF Quiet

LEMMA ActivatorsFinishes ==
    ASSUME Typed, ActivatorsKnown, NEW t \in Threads, Finishes(t), activator' = activator,
           \A b \in Bundles : running'[b] => activator[b]
    PROVE  ActivatorsKnown'
  BY ActivatorsReplaces DEF Finishes

LEMMA ActivatorsStep ==
    ASSUME Typed, ActivatorsKnown, NEW t \in Threads, Step(t)
    PROVE  ActivatorsKnown'
  <1>1. CASE Quiet(t)
    BY <1>1, ActivatorsQuiet
  <1>2. CASE ~Quiet(t) /\ ActivatorStarts(t)
    <2>1. /\ Finishes(t) /\ Top(t).pc = "activate" /\ activator' = activator
          /\ running' = [running EXCEPT ![Top(t).bundle] = TRUE]
      BY <1>2, ActivatorStartsEffect
    <2>2. activator[Top(t).bundle]
      BY <2>1, StackFacts DEF Finishes, ActivatorsKnown, Top
    <2>3. \A b \in Bundles : running'[b] => activator[b]
      BY <2>1, <2>2 DEF ActivatorsKnown, Typed
    <2>4. QED
      BY <2>1, <2>3, ActivatorsFinishes
  <1>3. CASE ~Quiet(t) /\ (ActivatorStops(t) \/ UninstallRemoves(t))
    <2>1. Finishes(t) /\ activator' = activator
      BY <1>3, ActivatorStopsEffect, UninstallRemovesEffect
    <2>2. \A b \in Bundles : running'[b] => running[b]
      BY <1>3, ActivatorStopsEffect, UninstallRemovesEffect DEF Typed
    <2>3. QED
      BY <2>1, <2>2, ActivatorsFinishes DEF ActivatorsKnown
  <1>4. CASE Enter(t)
    <2>1. PICK c : Replaces(t, c) /\ c.pc = "lock" /\ c.bundle = Top(t).bundle
      BY <1>4, EnterEffect
    <2>2. stack[t] # <<>> /\ activator' = activator /\ running' = running
      BY <1>4, EnterEffect DEF loader
    <2>3. QED
      BY <2>1, <2>2, ActivatorsReplaces DEF ActivatorsKnown
  <1>5. CASE Commit(t) \/ Return(t) \/ Unwind(t)
    <2>1. CASE Leaves(t)
      BY <1>5, <2>1, CommitEffect, ReturnEffect, UnwindEffect, ActivatorsLeaves DEF loader
    <2>2. CASE ~Leaves(t)
      <3>1. PICK c : Replaces(t, c) /\ c.pc = "return" /\ c.bundle = Top(t).bundle
        BY <1>5, <2>2, CommitEffect, ReturnEffect, UnwindEffect
      <3>2. stack[t] # <<>> /\ activator' = activator /\ running' = running
        BY <1>5, CommitEffect, ReturnEffect, UnwindEffect DEF loader
      <3>3. QED
        BY <3>1, <3>2, ActivatorsReplaces DEF ActivatorsKnown
    <2>3. QED
      BY <2>1, <2>2
  <1>6. QED
    BY <1>1, <1>2, <1>3, <1>4, <1>5, StepEffect

LEMMA ActivatorsBegins ==
    ASSUME Typed, ActivatorsKnown, Begins
    PROVE  ActivatorsKnown'
  <1>1. activator' = activator /\ running' = running
    BY DEF Begins, loader
  <1>2. QED
    BY <1>1, ActivatorsFewer, ActivatorsMakes DEF Begins

-----------------------------------------------------------------------------
(* Owned.                                                                    *)

\* A step that leaves the bundle as it is, and the calls that have changed its
\* state.
LEMMA OwnedSteady ==
    ASSUME NEW b, Owned(b),
           state'[b] = state[b], running'[b] = running[b], b \in bundles' <=> b \in bundles,
           \A u \in Threads : \A i \in DOMAIN stack'[u] : \A c :
               c = stack'[u][i] /\ c.bundle = b =>
                  /\ Owns(c)
                  /\ c.old # None => i \in DOMAIN stack[u] /\ stack[u][i].bundle = b /\ stack[u][i].old # None,
           \A u \in Threads : \A i \in DOMAIN stack[u] : \A c :
               c = stack[u][i] /\ c.bundle = b /\ (c.old # None \/ Runs(c) \/ Erased(c)) =>
                  /\ i \in DOMAIN stack'[u] /\ stack'[u][i].bundle = b
                  /\ c.old # None => stack'[u][i].old # None
                  /\ Runs(c) => Runs(stack'[u][i])
                  /\ Erased(c) => Erased(stack'[u][i])
    PROVE  Owned(b)'
  <1>1. ASSUME NEW u \in Threads, NEW i \in DOMAIN stack'[u], stack'[u][i].bundle = b
        PROVE  Owns(stack[u][i])'
    <2>1. PICK c : c = stack'[u][i]
      OBVIOUS
    <2>2. c.bundle = b /\ Owns(c)
      BY <1>1, <2>1
    <2>3. QED
      BY <2>1, <2>2 DEF Owns
  <1>2. \A u \in Threads : \A i, j \in DOMAIN stack'[u] :
            stack'[u][i].bundle = b /\ stack'[u][j].bundle = b
                /\ stack'[u][i].old # None /\ stack'[u][j].old # None => i = j
    BY DEF Owned
  <1>3. state'[b] \in {"starting", "stopping"} =>
            \E u \in Threads : \E i \in DOMAIN stack'[u] : stack'[u][i].bundle = b /\ stack'[u][i].old # None
    BY DEF Owned
  <1>4. running'[b] =>
          \/ IsActive(b)'
          \/ \E u \in Threads : \E i \in DOMAIN stack'[u] : stack'[u][i].bundle = b /\ Runs(stack'[u][i])
    BY DEF Owned, IsActive
  <1>5. b \notin bundles' =>
          \/ state'[b] = "uninstalled"
          \/ \E u \in Threads : \E i \in DOMAIN stack'[u] : stack'[u][i].bundle = b /\ Erased(stack'[u][i])
    BY DEF Owned
  <1>6. \A u \in Threads : \A i \in DOMAIN stack'[u] :
            (Runs(stack'[u][i]) <=> Runs(stack[u][i])') /\ (Erased(stack'[u][i]) <=> Erased(stack[u][i])')
    BY DEF Runs, Erased
  <1>7. QED
    BY <1>1, <1>2, <1>3, <1>4, <1>5, <1>6 DEF Owned

\* After the step there is one call on the bundle.
LEMMA OwnedOne ==
    ASSUME NEW b, NEW t \in Threads, NEW n \in DOMAIN stack'[t], NEW c, stack'[t][n] = c, c.bundle = b,
           \A u \in Threads : \A i \in DOMAIN stack'[u] : stack'[u][i].bundle = b => u = t /\ i = n,
           Owns(c)',
           state'[b] \in {"starting", "stopping"} => c.old # None,
           running'[b] => state'[b] = "active" \/ Runs(c),
           b \notin bundles' => state'[b] = "uninstalled" \/ Erased(c)
    PROVE  Owned(b)'
  <1>1. \A u \in Threads : \A i \in DOMAIN stack'[u] : stack'[u][i].bundle = b => stack'[u][i] = c
    OBVIOUS
  <1>2. \A u \in Threads : \A i \in DOMAIN stack'[u] : stack'[u][i] = c => Owns(stack[u][i])'
    BY DEF Owns
  <1>3. (Runs(c) => Runs(stack[t][n])') /\ (Erased(c) => Erased(stack[t][n])')
    BY DEF Runs, Erased
  <1>4. QED
    BY <1>1, <1>2, <1>3 DEF Owned, IsActive

\* After the step there is no call on the bundle.
LEMMA OwnedNone ==
    ASSUME NEW b,
           \A u \in Threads : \A i \in DOMAIN stack'[u] : stack'[u][i].bundle # b,
           state'[b] \notin {"starting", "stopping"},
           running'[b] => state'[b] = "active",
           b \notin bundles' => state'[b] = "uninstalled"
    PROVE  Owned(b)'
  BY DEF Owned, IsActive

LEMMA OwnedMakes ==
    ASSUME Typed, NEW b \in Bundles, Owned(b), NEW t \in Threads, NEW op, NEW d, Makes(t, Call(op, d)),
           state'[b] = state[b], running'[b] = running[b], b \in bundles' <=> b \in bundles
    PROVE  Owned(b)'
  <1> DEFINE c == Call(op, d)
  <1>1. c.pc = "check" /\ c.old = None
    BY DEF Call
  <1>2. Owns(c)
    BY <1>1 DEF Owns
  <1> HIDE DEF c
  <1>3. DOMAIN stack[t] = 1 .. Len(stack[t]) /\ Len(stack[t]) \in Nat
    BY StackFacts
  <1>4. \A u \in Threads : \A i \in DOMAIN stack'[u] :
            \/ stack'[u][i] = c
            \/ i \in DOMAIN stack[u] /\ stack'[u][i] = stack[u][i]
    BY <1>3 DEF Makes, OthersStay, c
  <1>5. \A u \in Threads : \A i \in DOMAIN stack[u] : i \in DOMAIN stack'[u] /\ stack'[u][i] = stack[u][i]
    BY <1>3 DEF Makes, OthersStay
  <1>6. QED
    BY <1>1, <1>2, <1>4, <1>5, OwnedSteady DEF Owned

LEMMA OwnedQuiet ==
    ASSUME Typed, NEW b \in Bundles, Owned(b), NEW t \in Threads, Quiet(t)
    PROVE  Owned(b)'
  <1> DEFINE n == Len(stack[t])
  <1>1. state'[b] = state[b] /\ running'[b] = running[b] /\ (b \in bundles' <=> b \in bundles)
    BY DEF Quiet
  <1>2. stack[t] # <<>> /\ n \in DOMAIN stack[t] /\ n \in Nat /\ DOMAIN stack[t] = 1 .. n
    BY StackFacts DEF Quiet
  <1>3. CASE stack' = stack
    BY <1>1, <1>3, OwnedSteady DEF Owned
  <1>4. ASSUME NEW c, Replaces(t, c), GoesOn(t, c)
        PROVE  Owned(b)'
    <2>1. \A u \in Threads : DOMAIN stack'[u] = DOMAIN stack[u]
      BY <1>4 DEF Replaces, OthersStay
    <2>2. \A u \in Threads : \A i \in DOMAIN stack[u] :
              stack'[u][i] = stack[u][i] \/ (u = t /\ i = n /\ stack'[u][i] = c)
      BY <1>4 DEF Replaces, OthersStay
    <2>3. c.op = Top(t).op /\ c.bundle = Top(t).bundle /\ c.old = Top(t).old
      BY <1>4 DEF GoesOn
    <2>4. c.bundle = b => Owns(Top(t))
      BY <1>2, <2>3 DEF Owned, Top
    <2>5. c.bundle = b => Owns(c)
      BY <1>4, <2>3, <2>4 DEF GoesOn, Owns, Requirement
    <2>6. (Runs(Top(t)) => Runs(c)) /\ ~Erased(Top(t))
      BY <1>4, <2>3 DEF GoesOn, Runs, Erased
    <2>7. Top(t) = stack[t][n]
      BY DEF Top
    <2> HIDE DEF n
    <2>8. \A u \in Threads : \A i \in DOMAIN stack'[u] : \A d :
               d = stack'[u][i] /\ d.bundle = b =>
                  /\ Owns(d)
                  /\ d.old # None => i \in DOMAIN stack[u] /\ stack[u][i].bundle = b /\ stack[u][i].old # None
      BY <2>1, <2>2, <2>3, <2>5, <2>7 DEF Owned
    <2>9. \A u \in Threads : \A i \in DOMAIN stack[u] : \A d :
               d = stack[u][i] /\ d.bundle = b /\ (d.old # None \/ Runs(d) \/ Erased(d)) =>
                  /\ i \in DOMAIN stack'[u] /\ stack'[u][i].bundle = b
                  /\ d.old # None => stack'[u][i].old # None
                  /\ Runs(d) => Runs(stack'[u][i])
                  /\ Erased(d) => Erased(stack'[u][i])
      BY <2>1, <2>2, <2>3, <2>6, <2>7
    <2>10. QED
      BY <1>1, <2>8, <2>9, OwnedSteady
  <1>5. ASSUME NEW op, NEW d, Makes(t, Call(op, d))
        PROVE  Owned(b)'
    BY <1>1, <1>5, OwnedMakes
  <1>6. QED
    BY <1>3, <1>4, <1>5 DEF Quiet

\* A step on another bundle.
LEMMA OwnedOther ==
    ASSUME Typed, NEW b, Owned(b), NEW t \in Threads, stack[t] # <<>>, b # Top(t).bundle,
           Leaves(t) \/ \E c : Replaces(t, c) /\ c.bundle = Top(t).bundle,
           state'[b] = state[b], running'[b] = running[b], b \in bundles' <=> b \in bundles
    PROVE  Owned(b)'
  <1> DEFINE n == Len(stack[t])
  <1>1. n \in DOMAIN stack[t] /\ n \in Nat /\ DOMAIN stack[t] = 1 .. n
    BY StackFacts
  <1>2. stack[t][n] = Top(t)
    BY DEF Top
  <1>3. /\ \A u \in Threads : \A i \in DOMAIN stack'[u] :
              stack'[u][i].bundle = b => i \in DOMAIN stack[u] /\ stack'[u][i] = stack[u][i]
        /\ \A u \in Threads : \A i \in DOMAIN stack[u] :
              stack[u][i].bundle = b => i \in DOMAIN stack'[u] /\ stack'[u][i] = stack[u][i]
    <2>1. CASE Leaves(t)
      <3>1. \A u \in Threads : u # t => stack'[u] = stack[u]
        BY <2>1 DEF Leaves, OthersStay
      <3>2. DOMAIN stack'[t] = 1 .. n - 1 /\ \A i \in 1 .. n - 1 : stack'[t][i] = stack[t][i]
        BY <2>1 DEF Leaves
      <3>3. \A i \in 1 .. n - 1 : i \in DOMAIN stack[t]
        BY <1>1
      <3>4. \A i \in DOMAIN stack[t] : i # n => i \in 1 .. n - 1
        BY <1>1
      <3>5. \A i \in DOMAIN stack[t] : stack[t][i].bundle = b => i # n
        BY <1>2
      <3> HIDE DEF n
      <3>6. QED
        BY <3>1, <3>2, <3>3, <3>4, <3>5
    <2>2. ASSUME NEW c, Replaces(t, c), c.bundle = Top(t).bundle
          PROVE  /\ \A u \in Threads : \A i \in DOMAIN stack'[u] :
                       stack'[u][i].bundle = b => i \in DOMAIN stack[u] /\ stack'[u][i] = stack[u][i]
                 /\ \A u \in Threads : \A i \in DOMAIN stack[u] :
                       stack[u][i].bundle = b => i \in DOMAIN stack'[u] /\ stack'[u][i] = stack[u][i]
      BY <1>1, <1>2, <2>2 DEF Replaces, OthersStay
    <2>3. QED
      BY <2>1, <2>2
  <1>4. \A u \in Threads : \A i \in DOMAIN stack'[u] : \A c :
            c = stack'[u][i] /\ c.bundle = b =>
               /\ Owns(c)
               /\ c.old # None => i \in DOMAIN stack[u] /\ stack[u][i].bundle = b /\ stack[u][i].old # None
    BY <1>3 DEF Owned
  <1>5. \A u \in Threads : \A i \in DOMAIN stack[u] : \A c :
            c = stack[u][i] /\ c.bundle = b /\ (c.old # None \/ Runs(c) \/ Erased(c)) =>
               /\ i \in DOMAIN stack'[u] /\ stack'[u][i].bundle = b
               /\ c.old # None => stack'[u][i].old # None
               /\ Runs(c) => Runs(stack'[u][i])
               /\ Erased(c) => Erased(stack'[u][i])
    BY <1>3
  <1>6. QED
    BY <1>4, <1>5, OwnedSteady

\* A call of start(), stop() or uninstall() that has checked the state is the
\* only call on its bundle.
LEMMA Alone ==
    ASSUME OInv, NEW t \in Threads, stack[t] # <<>>, Top(t).op # "resolve", Top(t).pc # "check",
           NEW b \in Bundles, b = Top(t).bundle, b \notin disturbed
    PROVE  \A u \in Threads : \A i \in DOMAIN stack[u] :
               stack[u][i].bundle = b => u = t /\ i = Len(stack[t])
  <1> DEFINE n == Len(stack[t])
  <1>1. n \in DOMAIN stack[t] /\ stack[t][n] = Top(t) /\ Top(t) \in CallRecord
    BY StackFacts DEF OInv, Inv, BInv, Top
  <1>2. \A u \in Threads : \A i \in DOMAIN stack[u] : stack[u][i].bundle = b => u = t
    BY <1>1, Unshared DEF OInv
  <1>3. ASSUME NEW i \in DOMAIN stack[t], stack[t][i].bundle = b, i # n
        PROVE  FALSE
    <2>1. /\ stack[t][i].op = "start" /\ Top(t).op = "start" /\ stack[t][i].pc \in {"deps", "extend"}
      BY <1>3 DEF OInv, Shaped
    <2>2. IsCall(stack[t][i]) /\ IsCall(Top(t))
      BY <1>1 DEF OInv, Inv, BInv, Typed
    <2>3. stack[t][i].old # None
      BY <2>1, <2>2 DEF IsCall
    <2>4. Owned(b) /\ Owns(stack[t][i]) /\ Owns(Top(t))
      BY <1>1, <1>3 DEF OInv, Owned
    <2>5. state[b] = "starting"
      BY <1>3, <2>1, <2>3, <2>4 DEF Owns
    <2>6. CASE Top(t).pc = "enter"
      BY <2>1, <2>4, <2>5, <2>6 DEF Owns, Requirement
    <2>7. CASE Top(t).pc = "return"
      BY <2>1, <2>4, <2>5, <2>7 DEF Owns, Outcome
    <2>8. CASE Top(t).pc \notin {"enter", "return"}
      <3>1. Top(t).old # None
        BY <2>1, <2>2, <2>8 DEF IsCall
      <3>2. QED
        BY <1>1, <1>3, <2>3, <2>4, <3>1 DEF Owned
    <2>9. QED
      BY <2>6, <2>7, <2>8
  <1>4. QED
    BY <1>2, <1>3

\* The call stays, alone on its bundle.
LEMMA AloneReplaces ==
    ASSUME OInv, NEW t \in Threads, stack[t] # <<>>, Top(t).op # "resolve", Top(t).pc # "check",
           NEW b \in Bundles, b = Top(t).bundle, b \notin disturbed, NEW c, Replaces(t, c)
    PROVE  /\ Len(stack[t]) \in DOMAIN stack'[t] /\ stack'[t][Len(stack[t])] = c
           /\ \A u \in Threads : \A i \in DOMAIN stack'[u] :
                 stack'[u][i].bundle = b => u = t /\ i = Len(stack[t])
  <1>1. Len(stack[t]) \in DOMAIN stack[t]
    BY StackFacts DEF OInv, Inv, BInv
  <1>2. \A u \in Threads : \A i \in DOMAIN stack[u] :
            stack[u][i].bundle = b => u = t /\ i = Len(stack[t])
    BY Alone
  <1>3. QED
    BY <1>1, <1>2 DEF Replaces, OthersStay

\* The call returns: none is left on its bundle.
LEMMA AloneLeaves ==
    ASSUME OInv, NEW t \in Threads, stack[t] # <<>>, Top(t).op # "resolve", Top(t).pc # "check",
           NEW b \in Bundles, b = Top(t).bundle, b \notin disturbed, Leaves(t)
    PROVE  \A u \in Threads : \A i \in DOMAIN stack'[u] : stack'[u][i].bundle # b
  <1>1. Len(stack[t]) \in Nat /\ DOMAIN stack[t] = 1 .. Len(stack[t])
    BY StackFacts DEF OInv, Inv, BInv
  <1>2. \A u \in Threads : \A i \in DOMAIN stack[u] :
            stack[u][i].bundle = b => u = t /\ i = Len(stack[t])
    BY Alone
  <1>3. \A u \in Threads : \A i \in DOMAIN stack'[u] :
            /\ i \in DOMAIN stack[u] /\ stack'[u][i] = stack[u][i]
            /\ u = t => i # Len(stack[t])
    BY <1>1 DEF Leaves, OthersStay
  <1>4. QED
    BY <1>2, <1>3

\* What is known of the bundle of a call that is alone on it.
LEMMA AloneFacts ==
    ASSUME OInv, NEW t \in Threads, stack[t] # <<>>,
           NEW b \in Bundles, b = Top(t).bundle, b \notin disturbed
    PROVE  /\ Owned(b) /\ Owns(Top(t)) /\ IsCall(Top(t)) /\ Top(t) \in CallRecord
           /\ state[b] \in BundleStates
           /\ Top(t).op # "resolve" /\ Top(t).pc # "check" =>
                 /\ running[b] => IsActive(b) \/ Runs(Top(t))
                 /\ b \notin bundles => state[b] = "uninstalled" \/ Erased(Top(t))
  <1> DEFINE n == Len(stack[t])
  <1>1. n \in DOMAIN stack[t] /\ stack[t][n] = Top(t) /\ Top(t) \in CallRecord
    BY StackFacts DEF OInv, Inv, BInv, Top
  <1>2. Owned(b) /\ Owns(Top(t))
    BY <1>1 DEF OInv, Owned
  <1>3. IsCall(Top(t)) /\ state[b] \in BundleStates
    BY <1>1 DEF OInv, Inv, BInv, Typed
  <1>4. ASSUME Top(t).op # "resolve", Top(t).pc # "check"
        PROVE  /\ running[b] => IsActive(b) \/ Runs(Top(t))
               /\ b \notin bundles => state[b] = "uninstalled" \/ Erased(Top(t))
    <2>1. \A u \in Threads : \A i \in DOMAIN stack[u] : stack[u][i].bundle = b => u = t /\ i = n
      BY <1>4, Alone
    <2>2. QED
      BY <1>1, <1>2, <2>1 DEF Owned
  <1>5. QED
    BY <1>1, <1>2, <1>3, <1>4

LEMMA OwnedEnter ==
    ASSUME OInv, NEW t \in Threads, Enter(t), NEW b \in Bundles, b \notin disturbed
    PROVE  Owned(b)'
  <1>1. Typed /\ Owned(b)
    BY DEF OInv, Inv, BInv
  <1>2. /\ stack[t] # <<>> /\ Top(t).pc = "enter" /\ Top(t).op \in {"start", "stop"}
        /\ running' = running /\ bundles' = bundles
        /\ state' = [state EXCEPT ![Top(t).bundle] = IF Top(t).op = "start" THEN "starting" ELSE "stopping"]
    BY <1>1, EnterEffect DEF loader
  <1>3. PICK c : /\ Replaces(t, c)
                 /\ c.pc = "lock" /\ c.op = Top(t).op /\ c.bundle = Top(t).bundle
                 /\ c.next = Top(t).next /\ c.old = state[Top(t).bundle]
    BY <1>1, EnterEffect
  <1>4. CASE b # Top(t).bundle
    <2>1. state'[b] = state[b]
      BY <1>1, <1>2, <1>4 DEF Typed
    <2>2. QED
      BY <1>1, <1>2, <1>3, <1>4, <2>1, OwnedOther
  <1>5. CASE b = Top(t).bundle
    <2>1. /\ Owns(Top(t)) /\ IsCall(Top(t)) /\ state[b] \in BundleStates
          /\ running[b] => IsActive(b) \/ Runs(Top(t))
          /\ b \notin bundles => state[b] = "uninstalled" \/ Erased(Top(t))
      BY <1>2, <1>5, AloneFacts
    <2>2. state[b] \in Requirement(Top(t).op) /\ ~Runs(Top(t)) /\ ~Erased(Top(t))
      BY <1>2, <1>5, <2>1 DEF Owns, IsCall, Runs, Erased
    <2>3. state'[b] = IF c.op = "start" THEN "starting" ELSE "stopping"
      BY <1>1, <1>2, <1>3, <1>5 DEF Typed
    <2>4. Owns(c)'
      BY <1>2, <1>3, <1>5, <2>2, <2>3 DEF Owns
    <2>5. c.old # None
      BY <1>3, <1>5, <2>1, BundleAssumption
    <2>6. running'[b] => Runs(c)
      BY <1>2, <1>3, <1>5, <2>1, <2>2, <2>5 DEF IsActive, Requirement, Runs
    <2>7. b \in bundles'
      BY <1>2, <2>1, <2>2 DEF Requirement
    <2>8. /\ Len(stack[t]) \in DOMAIN stack'[t] /\ stack'[t][Len(stack[t])] = c
          /\ \A u \in Threads : \A i \in DOMAIN stack'[u] :
                 stack'[u][i].bundle = b => u = t /\ i = Len(stack[t])
      BY <1>2, <1>3, <1>5, AloneReplaces
    <2>9. QED
      BY <1>3, <1>5, <2>4, <2>5, <2>6, <2>7, <2>8, OwnedOne
  <1>6. QED
    BY <1>4, <1>5

\* BundleActivator::start() and stop() have run, or the bundle is erased.
LEMMA OwnedFinishes ==
    ASSUME OInv, NEW t \in Threads, ~Quiet(t),
           ActivatorStarts(t) \/ ActivatorStops(t) \/ UninstallRemoves(t),
           NEW b \in Bundles, b \notin disturbed
    PROVE  Owned(b)'
  <1>1. Typed /\ Owned(b) /\ ActivatorsKnown
    BY DEF OInv, Inv, BInv
  <1>2. /\ Finishes(t) /\ Top(t).op # "resolve" /\ Top(t).pc # "check" /\ state' = state
        /\ \/ /\ Top(t).op = "start" /\ Top(t).pc = "activate" /\ bundles' = bundles
              /\ running' = [running EXCEPT ![Top(t).bundle] = TRUE]
           \/ /\ Top(t).op = "stop" /\ Top(t).pc = "deactivate" /\ bundles' = bundles
              /\ running' = IF activator[Top(t).bundle]
                            THEN [running EXCEPT ![Top(t).bundle] = FALSE] ELSE running
           \/ /\ Top(t).op = "uninstall" /\ Top(t).pc = "remove" /\ running' = running
              /\ bundles' = bundles \ {Top(t).bundle}
    BY <1>1, ActivatorStartsEffect, ActivatorStopsEffect, UninstallRemovesEffect
  <1>3. PICK c : /\ Replaces(t, c)
                 /\ c.pc = "commit" /\ c.op = Top(t).op /\ c.bundle = Top(t).bundle
                 /\ c.next = Top(t).next /\ c.old = Top(t).old
    BY <1>2 DEF Finishes
  <1>4. stack[t] # <<>>
    BY <1>2 DEF Finishes
  <1>5. CASE b # Top(t).bundle
    <2>1. running'[b] = running[b] /\ (b \in bundles' <=> b \in bundles)
      BY <1>1, <1>2, <1>5 DEF Typed
    <2>2. QED
      BY <1>1, <1>2, <1>3, <1>4, <1>5, <2>1, OwnedOther
  <1>6. CASE b = Top(t).bundle
    <2>1. /\ Owns(Top(t)) /\ IsCall(Top(t)) /\ state[b] \in BundleStates /\ Top(t) \in CallRecord
          /\ running[b] => IsActive(b) \/ Runs(Top(t))
          /\ b \notin bundles => state[b] = "uninstalled" \/ Erased(Top(t))
      BY <1>2, <1>4, <1>6, AloneFacts
    <2>2. Top(t).old # None <=> Top(t).op \in {"start", "stop"}
      BY <1>2, <2>1 DEF IsCall
    <2>3. Owns(c)'
      BY <1>2, <1>3, <2>1 DEF Owns
    <2>4. state'[b] \in {"starting", "stopping"} => c.old # None
      BY <1>2, <1>3, <1>6, <2>1, <2>2 DEF Owns
    <2>5. running'[b] => state'[b] = "active" \/ Runs(c)
      <3>1. CASE Top(t).op = "start"
        BY <1>2, <1>3, <3>1 DEF Runs
      <3>2. CASE Top(t).op = "stop"
        BY <1>1, <1>2, <1>6, <3>2 DEF ActivatorsKnown, Typed
      <3>3. CASE Top(t).op = "uninstall"
        BY <1>2, <2>1, <3>3 DEF Runs, IsActive
      <3>4. QED
        BY <1>2, <3>1, <3>2, <3>3
    <2>6. b \notin bundles' => state'[b] = "uninstalled" \/ Erased(c)
      <3>1. CASE Top(t).op = "uninstall"
        BY <1>3, <3>1 DEF Erased
      <3>2. CASE Top(t).op # "uninstall"
        BY <1>2, <2>1, <3>2 DEF Erased
      <3>3. QED
        BY <3>1, <3>2
    <2>7. /\ Len(stack[t]) \in DOMAIN stack'[t] /\ stack'[t][Len(stack[t])] = c
          /\ \A u \in Threads : \A i \in DOMAIN stack'[u] :
                 stack'[u][i].bundle = b => u = t /\ i = Len(stack[t])
      BY <1>2, <1>3, <1>4, <1>6, AloneReplaces
    <2>8. QED
      BY <1>3, <1>6, <2>3, <2>4, <2>5, <2>6, <2>7, OwnedOne
  <1>7. QED
    BY <1>5, <1>6

LEMMA OwnedCommit ==
    ASSUME OInv, NEW t \in Threads, Commit(t), NEW b \in Bundles, b \notin disturbed
    PROVE  Owned(b)'
  <1> DEFINE n == Len(stack[t])
  <1>1. Typed /\ Owned(b) /\ Shaped
    BY DEF OInv, Inv, BInv
  <1>2. /\ stack[t] # <<>> /\ ~throwing[t] /\ Top(t).pc = "commit"
        /\ \/ Top(t).op \in {"resolve", "uninstall"} /\ Leaves(t)
           \/ Top(t).op \in {"start", "stop"}
        /\ state' = [state EXCEPT ![Top(t).bundle] = Outcome(Top(t).op)]
        /\ running' = running /\ bundles' = bundles
    BY <1>1, CommitEffect DEF loader
  <1>3. CASE b # Top(t).bundle
    <2>1. state'[b] = state[b]
      BY <1>1, <1>2, <1>3 DEF Typed
    <2>2. Leaves(t) \/ \E c : Replaces(t, c) /\ c.bundle = Top(t).bundle
      BY <1>1, CommitEffect
    <2>3. QED
      BY <1>1, <1>2, <1>3, <2>1, <2>2, OwnedOther
  <1>4. CASE b = Top(t).bundle /\ Top(t).op # "resolve"
    <2>1. /\ Owns(Top(t)) /\ IsCall(Top(t)) /\ Top(t) \in CallRecord
          /\ running[b] => IsActive(b) \/ Runs(Top(t))
          /\ b \notin bundles => state[b] = "uninstalled" \/ Erased(Top(t))
      BY <1>2, <1>4, AloneFacts
    <2>2. Top(t).op \in {"start", "stop", "uninstall"}
      BY <1>4, <2>1 DEF CallRecord, Operations
    <2>3. state'[b] = Outcome(Top(t).op)
      BY <1>1, <1>2, <1>4 DEF Typed
    <2>4. Top(t).op \in {"start", "stop"} => state[b] \in {"starting", "stopping"}
      BY <1>2, <1>4, <2>1 DEF IsCall, Owns
    <2>5. Top(t).op = "uninstall" => state[b] \in {"installed", "resolved"}
      BY <1>2, <1>4, <2>1 DEF Owns
    <2>6. state'[b] \notin {"starting", "stopping"}
      BY <2>2, <2>3 DEF Outcome
    <2>7. running'[b] => state'[b] = "active"
      BY <1>2, <2>1, <2>2, <2>3, <2>4, <2>5 DEF Outcome, Runs, IsActive
    <2>8. b \notin bundles' => state'[b] = "uninstalled"
      BY <1>2, <2>1, <2>2, <2>3, <2>4, <2>5 DEF Outcome, Erased
    <2>9. CASE Leaves(t)
      <3>1. \A u \in Threads : \A i \in DOMAIN stack'[u] : stack'[u][i].bundle # b
        BY <1>2, <1>4, <2>9, AloneLeaves
      <3>2. QED
        BY <2>6, <2>7, <2>8, <3>1, OwnedNone
    <2>10. CASE Top(t).op \in {"start", "stop"} /\ ~Leaves(t)
      <3>1. PICK c : /\ Replaces(t, c)
                     /\ c.pc = "return" /\ c.op = Top(t).op /\ c.bundle = Top(t).bundle
                     /\ c.next = Top(t).next /\ c.old = None
        BY <1>1, <2>10, CommitEffect
      <3>2. Owns(c)'
        BY <1>4, <2>3, <2>10, <3>1 DEF Owns
      <3>3. /\ Len(stack[t]) \in DOMAIN stack'[t] /\ stack'[t][Len(stack[t])] = c
            /\ \A u \in Threads : \A i \in DOMAIN stack'[u] :
                   stack'[u][i].bundle = b => u = t /\ i = Len(stack[t])
        BY <1>2, <1>4, <3>1, AloneReplaces
      <3>4. QED
        BY <1>4, <2>6, <2>7, <2>8, <3>1, <3>2, <3>3, OwnedOne
    <2>11. QED
      BY <1>2, <2>9, <2>10
  <1>5. CASE b = Top(t).bundle /\ Top(t).op = "resolve"
    <2>1. n \in DOMAIN stack[t] /\ n \in Nat /\ DOMAIN stack[t] = 1 .. n /\ stack[t][n] = Top(t)
      BY <1>1, <1>2, StackFacts DEF Top
    <2>2. \A u \in Threads : \A i \in DOMAIN stack[u] :
              stack[u][i].bundle = b => u = t /\ stack[u][i].op = "resolve"
      BY <1>5, <2>1, Unshared DEF OInv, Shaped
    <2>3. ASSUME NEW u \in Threads, NEW i \in DOMAIN stack'[u], NEW c, c = stack'[u][i], c.bundle = b
          PROVE  c.op = "resolve" /\ c.pc \in {"deps", "extend"} /\ c.old = None
      <3>1. i \in DOMAIN stack[u] /\ c = stack[u][i] /\ (u = t => i # n)
        BY <1>2, <1>5, <2>1, <2>3 DEF Leaves, OthersStay
      <3>2. u = t /\ c.op = "resolve"
        BY <2>2, <2>3, <3>1
      <3>3. c.pc \in {"deps", "extend"} /\ IsCall(c)
        BY <1>1, <3>1, <3>2 DEF Shaped, Typed
      <3>4. QED
        BY <3>2, <3>3 DEF IsCall
    <2>4. state'[b] = "resolved"
      BY <1>1, <1>2, <1>5 DEF Typed, Outcome
    <2>5. state[b] \in {"installed", "resolved"}
      BY <1>2, <1>5, AloneFacts DEF Owns
    <2>6. ~running'[b] /\ b \in bundles'
      BY <1>1, <1>2, <2>2, <2>5 DEF Owned, IsActive, Runs, Erased
    <2>7. ASSUME NEW u \in Threads, NEW i \in DOMAIN stack'[u], stack'[u][i].bundle = b
          PROVE  Owns(stack[u][i])' /\ stack'[u][i].old = None
      BY <2>3, <2>4, <2>7 DEF Owns
    <2>8. QED
      BY <2>4, <2>6, <2>7 DEF Owned
  <1>6. QED
    BY <1>3, <1>4, <1>5

\* The state is set to what it is already.
LEMMA OwnedReturn ==
    ASSUME OInv, NEW t \in Threads, Return(t), NEW b \in Bundles, b \notin disturbed
    PROVE  Owned(b)'
  <1>1. Typed /\ Owned(b)
    BY DEF OInv, Inv, BInv
  <1>2. /\ stack[t] # <<>> /\ Top(t).pc = "return" /\ Leaves(t)
        /\ Top(t).op \in {"start", "stop"} /\ Top(t).old = None
        /\ state' = [state EXCEPT ![Top(t).bundle] = Outcome(Top(t).op)]
        /\ running' = running /\ bundles' = bundles
    BY <1>1, ReturnEffect DEF loader
  <1>3. CASE b # Top(t).bundle
    <2>1. state'[b] = state[b]
      BY <1>1, <1>2, <1>3 DEF Typed
    <2>2. QED
      BY <1>1, <1>2, <1>3, <2>1, OwnedOther
  <1>4. CASE b = Top(t).bundle
    <2>1. /\ Owns(Top(t))
          /\ running[b] => IsActive(b) \/ Runs(Top(t))
          /\ b \notin bundles => state[b] = "uninstalled" \/ Erased(Top(t))
      BY <1>2, <1>4, AloneFacts
    <2>2. state'[b] = state[b] /\ state[b] \in {"active", "resolved"}
      BY <1>1, <1>2, <1>4, <2>1 DEF Typed, Owns, Outcome
    <2>3. ~Runs(Top(t)) /\ ~Erased(Top(t))
      BY <1>2 DEF Runs, Erased
    <2>4. \A u \in Threads : \A i \in DOMAIN stack'[u] : stack'[u][i].bundle # b
      BY <1>2, <1>4, AloneLeaves
    <2>5. QED
      BY <1>2, <2>1, <2>2, <2>3, <2>4, OwnedNone DEF IsActive
  <1>5. QED
    BY <1>3, <1>4

LEMMA OwnedUnwind ==
    ASSUME OInv, NEW t \in Threads, Unwind(t), NEW b \in Bundles, b \notin disturbed
    PROVE  Owned(b)'
  <1> DEFINE n == Len(stack[t])
  <1>1. Typed /\ Owned(b) /\ Shaped
    BY DEF OInv, Inv, BInv
  <1>2. /\ stack[t] # <<>> /\ throwing[t] /\ Leaves(t)
        /\ state' = IF Top(t).old = None THEN state ELSE [state EXCEPT ![Top(t).bundle] = Top(t).old]
        /\ running' = running /\ bundles' = bundles
    BY <1>1, UnwindEffect
  <1>3. Top(t).pc \notin {"commit", "return"}
    BY <1>1, <1>2 DEF Shaped
  <1>4. CASE b # Top(t).bundle
    <2>1. state'[b] = state[b]
      BY <1>1, <1>2, <1>4 DEF Typed
    <2>2. QED
      BY <1>1, <1>2, <1>4, <2>1, OwnedOther
  <1>5. CASE Top(t).old = None
    <2>1. ~Runs(Top(t)) /\ ~Erased(Top(t))
      BY <1>3, <1>5 DEF Runs, Erased
    <2>2. n \in DOMAIN stack[t] /\ n \in Nat /\ DOMAIN stack[t] = 1 .. n /\ stack[t][n] = Top(t)
      BY <1>1, <1>2, StackFacts DEF Top
    <2>3. \A u \in Threads : \A i \in DOMAIN stack'[u] :
              i \in DOMAIN stack[u] /\ stack'[u][i] = stack[u][i]
      BY <1>2, <2>2 DEF Leaves, OthersStay
    <2>4. \A u \in Threads : \A i \in DOMAIN stack[u] :
              (i \in DOMAIN stack'[u] /\ stack'[u][i] = stack[u][i]) \/ stack[u][i] = Top(t)
      BY <1>2, <2>2 DEF Leaves, OthersStay
    <2>5. state'[b] = state[b]
      BY <1>2, <1>5
    <2> HIDE DEF n
    <2>6. \A u \in Threads : \A i \in DOMAIN stack'[u] : \A c :
              c = stack'[u][i] /\ c.bundle = b =>
                 /\ Owns(c)
                 /\ c.old # None => i \in DOMAIN stack[u] /\ stack[u][i].bundle = b /\ stack[u][i].old # None
      BY <1>1, <2>3 DEF Owned
    <2>7. \A u \in Threads : \A i \in DOMAIN stack[u] : \A c :
              c = stack[u][i] /\ c.bundle = b /\ (c.old # None \/ Runs(c) \/ Erased(c)) =>
                 /\ i \in DOMAIN stack'[u] /\ stack'[u][i].bundle = b
                 /\ c.old # None => stack'[u][i].old # None
                 /\ Runs(c) => Runs(stack'[u][i])
                 /\ Erased(c) => Erased(stack'[u][i])
      BY <1>5, <2>1, <2>4
    <2>8. QED
      BY <1>1, <1>2, <2>5, <2>6, <2>7, OwnedSteady
  <1>6. CASE b = Top(t).bundle /\ Top(t).old # None
    <2>1. Owns(Top(t)) /\ IsCall(Top(t)) /\ Top(t) \in CallRecord
      BY <1>2, <1>6, AloneFacts
    <2>2. Top(t).op \in {"start", "stop"} /\ Top(t).pc # "check"
      BY <1>6, <2>1 DEF IsCall
    <2>3. /\ running[b] => IsActive(b) \/ Runs(Top(t))
          /\ b \notin bundles => state[b] = "uninstalled" \/ Erased(Top(t))
      BY <1>2, <1>6, <2>2, AloneFacts
    <2>4. state'[b] = Top(t).old
      BY <1>1, <1>2, <1>6 DEF Typed
    <2>5. state[b] \in {"starting", "stopping"} /\ Top(t).old \in Requirement(Top(t).op)
      BY <1>6, <2>1 DEF Owns
    <2>6. state'[b] \notin {"starting", "stopping"}
      BY <2>2, <2>4, <2>5 DEF Requirement
    <2>7. running'[b] => state'[b] = "active"
      BY <1>2, <1>3, <2>2, <2>3, <2>4, <2>5 DEF Requirement, Runs, IsActive
    <2>8. b \in bundles'
      BY <1>2, <2>2, <2>3, <2>5 DEF Erased
    <2>9. \A u \in Threads : \A i \in DOMAIN stack'[u] : stack'[u][i].bundle # b
      BY <1>2, <1>6, <2>2, AloneLeaves
    <2>10. QED
      BY <2>6, <2>7, <2>8, <2>9, OwnedNone
  <1>7. QED
    BY <1>4, <1>5, <1>6

LEMMA OwnedBegins ==
    ASSUME Typed, Begins, NEW b \in Bundles, Owned(b)
    PROVE  Owned(b)'
  <1>1. state'[b] = state[b] /\ running'[b] = running[b] /\ (b \in bundles' <=> b \in bundles)
    BY DEF Begins, loader
  <1>2. CASE stack' = stack
    BY <1>1, <1>2, OwnedSteady DEF Owned
  <1>3. ASSUME NEW t \in Threads, NEW op \in Operations, NEW a \in Bundles, Makes(t, Call(op, a))
        PROVE  Owned(b)'
    BY <1>1, <1>3, OwnedMakes
  <1>4. QED
    BY <1>2, <1>3 DEF Begins

-----------------------------------------------------------------------------
(* The invariant holds.                                                      *)

LEMMA OwnedStep ==
    ASSUME OInv, NEW t \in Threads, Step(t), NEW b \in Bundles, b \notin disturbed
    PROVE  Owned(b)'
  <1>1. Typed /\ Owned(b)
    BY DEF OInv, Inv, BInv
  <1>2. CASE Quiet(t)
    BY <1>1, <1>2, OwnedQuiet
  <1>3. CASE ~Quiet(t)
    BY <1>1, <1>3, StepEffect, OwnedFinishes, OwnedEnter, OwnedCommit, OwnedReturn, OwnedUnwind
  <1>4. QED
    BY <1>2, <1>3

LEMMA InitOInv ==
    ASSUME Init
    PROVE  OInv
  <1>1. \A t \in Threads : stack[t] = <<>> /\ DOMAIN stack[t] = {} /\ ~throwing[t]
    BY DEF Init
  <1>2. Inv
    BY InitInv
  <1>3. Shaped
    BY <1>1 DEF Shaped
  <1>4. ActivatorsKnown
    BY <1>1 DEF Init, ActivatorsKnown
  <1>5. Overlap \subseteq disturbed
    <2>1. \A t \in Threads : Operands(t) = {}
      BY <1>1 DEF Init, Operands
    <2>2. QED
      BY <2>1 DEF Overlap
  <1>6. \A b \in Bundles : Owned(b)
    BY <1>1 DEF Init, Owned
  <1>7. QED
    BY <1>2, <1>3, <1>4, <1>5, <1>6 DEF OInv

LEMMA OInvUnchanged ==
    ASSUME OInv, UNCHANGED vars
    PROVE  Shaped' /\ ActivatorsKnown' /\ Overlap' \subseteq disturbed'
           /\ \A b \in Bundles \ disturbed' : Owned(b)'
  <1>1. Shaped' /\ ActivatorsKnown'
    BY DEF OInv, Shaped, ActivatorsKnown, Top, vars, loader
  <1>2. Overlap' = Overlap /\ disturbed' = disturbed
    BY DEF Overlap, Operands, vars, subsystem
  <1>3. ASSUME NEW b \in Bundles, b \notin disturbed
        PROVE  Owned(b)'
    BY <1>3, OwnedSteady DEF OInv, Owned, vars, loader
  <1>4. QED
    BY <1>1, <1>2, <1>3 DEF OInv

LEMMA NextOInv ==
    ASSUME OInv, [Next]_vars, Admissible \subseteq Operations
    PROVE  OInv'
  <1>1. Inv'
    BY NextInv DEF OInv
  <1>2. Typed /\ Shaped /\ ActivatorsKnown /\ \A b \in Bundles \ disturbed : Owned(b)
    BY DEF OInv, Inv, BInv
  <1>3. CASE UNCHANGED vars
    BY <1>1, <1>3, OInvUnchanged DEF OInv
  <1>4. CASE Next
    <2>1. Overlap' \subseteq disturbed' /\ disturbed \subseteq disturbed'
      BY <1>4 DEF Next, ThreadRuns, MainRuns, Tracked
    <2>2. ASSUME NEW t \in Threads, Step(t)
          PROVE  Shaped' /\ ActivatorsKnown' /\ \A b \in Bundles \ disturbed : Owned(b)'
      BY <1>2, <2>2, ShapedStep, ActivatorsStep, OwnedStep
    <2>3. ASSUME Begins
          PROVE  Shaped' /\ ActivatorsKnown' /\ \A b \in Bundles \ disturbed : Owned(b)'
      BY <1>2, <2>3, ShapedBegins, ActivatorsBegins, OwnedBegins
    <2>4. Shaped' /\ ActivatorsKnown' /\ \A b \in Bundles \ disturbed : Owned(b)'
      BY <1>2, <1>4, <2>2, <2>3, MainLoopEffect, PerformActionEffect DEF Next, ThreadRuns, MainRuns
    <2>5. QED
      BY <1>1, <2>1, <2>4 DEF OInv
  <1>5. QED
    BY <1>3, <1>4

LEMMA OInvHolds == Spec => []OInv
  <1>1. Admissible \subseteq Operations
    BY BundleAssumption
  <1>2. Init => OInv
    BY InitOInv
  <1>3. OInv /\ [Next]_vars => OInv'
    BY <1>1, NextOInv
  <1>4. QED
    BY <1>2, <1>3, PTL DEF Spec

\* No failure leaves a bundle in a transient state with nobody working on it:
\* whatever throws, ~StateChange() puts back a state that is not transient.
THEOREM SettledHolds == Spec => []Settled
  <1>1. OInv => Settled
    <2>1. \A t \in Threads : \A i \in DOMAIN stack[t] : stack[t][i] \in Calls
      BY DEF Calls
    <2>2. QED
      BY <2>1 DEF OInv, Owned, Settled, InCall
  <1>2. QED
    BY <1>1, OInvHolds, PTL

\* A started activator is one of an active bundle, unless a call is at work on
\* the bundle or two threads were at the same time.
THEOREM RunningIsActiveHolds == Spec => []RunningIsActive
  <1>1. OInv => RunningIsActive
    <2>1. \A t \in Threads : \A i \in DOMAIN stack[t] : stack[t][i] \in Calls
      BY DEF Calls
    <2>2. QED
      BY <2>1 DEF OInv, Owned, RunningIsActive, InCall
  <1>2. QED
    BY <1>1, OInvHolds, PTL

-----------------------------------------------------------------------------
(* Extension bundles.                                                        *)

\* A bundle is listed with the bundle its manifest names only.
ExtendsKnown == \A e \in Bundles : \A b \in extensions[e] : manifest[b].extends = e

\* A bundle that is being resolved is in the map.
LEMMA ResolvedIsInMap ==
    ASSUME OInv, NEW t \in Threads, stack[t] # <<>>, Top(t).op = "resolve", Top(t).pc # "check",
           Top(t).bundle \notin disturbed
    PROVE  Top(t).bundle \in bundles
  <1> DEFINE b == Top(t).bundle
  <1>1. /\ Len(stack[t]) \in DOMAIN stack[t] /\ stack[t][Len(stack[t])] = Top(t)
        /\ Top(t) \in CallRecord
    BY StackFacts DEF OInv, Inv, BInv, Top
  <1>2. b \in Bundles
    BY <1>1 DEF CallRecord
  <1>3. Owned(b) /\ state[b] \in {"installed", "resolved"}
    BY <1>1, <1>2 DEF OInv, Owned, Owns
  <1>4. \A u \in Threads : \A i \in DOMAIN stack[u] :
            stack[u][i].bundle = b => stack[u][i].op = "resolve"
    BY <1>1, <1>2, Unshared DEF OInv, Shaped
  <1>5. QED
    BY <1>3, <1>4 DEF Owned, Erased

LEMMA ExtensionsStep ==
    ASSUME OInv, ExtendsKnown, ExtensionsAreLoaded, NEW t \in Threads, Step(t), disturbed \subseteq disturbed'
    PROVE  ExtendsKnown' /\ ExtensionsAreLoaded'
  <1>1. Typed /\ manifest' = manifest
    BY StepEffect, ActivatorStartsEffect, ActivatorStopsEffect, UninstallRemovesEffect, EnterEffect,
       CommitEffect, ReturnEffect, UnwindEffect DEF OInv, Inv, BInv, Quiet
  <1>2. extensions \in [Bundles -> SUBSET Bundles] /\ bundles \subseteq Bundles
    BY <1>1 DEF Typed
  <1>3. CASE extensions' = extensions /\ bundles' = bundles
    BY <1>1, <1>3 DEF ExtendsKnown, ExtensionsAreLoaded
  <1>4. ASSUME NEW b, b = Top(t).bundle, In(t, "resolve", "extend"), bundles' = bundles,
               manifest[b].extends \in bundles,
               extensions' = [extensions EXCEPT ![manifest[b].extends] = @ \cup {b}]
        PROVE  ExtendsKnown' /\ ExtensionsAreLoaded'
    <2> DEFINE e == manifest[b].extends
    <2>1. /\ e \in Bundles /\ extensions'[e] = extensions[e] \cup {b}
          /\ \A f \in Bundles : f # e => extensions'[f] = extensions[f]
      BY <1>2, <1>4
    <2>2. b \notin disturbed => b \in bundles
      BY <1>4, ResolvedIsInMap DEF In
    <2>3. ExtendsKnown'
      BY <1>1, <2>1 DEF ExtendsKnown
    <2> HIDE DEF e
    <2>4. ExtensionsAreLoaded'
      BY <1>2, <1>4, <2>1, <2>2 DEF ExtensionsAreLoaded
    <2>5. QED
      BY <2>3, <2>4
  <1>5. CASE UninstallRemoves(t)
    <2> DEFINE b == Top(t).bundle
               e == manifest[b].extends
    <2>1. extensions' = Unextended(b) /\ bundles' \in {bundles, bundles \ {b}}
      BY <1>5 DEF UninstallRemoves
    <2>2. \A f \in Bundles : extensions'[f] \subseteq extensions[f]
      BY <1>2, <2>1 DEF Unextended
    <2>3. ExtendsKnown'
      BY <1>1, <2>2 DEF ExtendsKnown
    <2>4. e \in bundles => b \notin extensions'[e]
      BY <1>2, <2>1 DEF Unextended
    <2>5. ASSUME NEW f \in bundles', NEW a \in extensions'[f], a \notin disturbed'
          PROVE  a \in bundles'
      <3>1. f \in bundles /\ f \in Bundles /\ a \in extensions[f]
        BY <1>2, <2>1, <2>2, <2>5
      <3>2. a \in bundles /\ manifest[a].extends = f
        BY <2>5, <3>1 DEF ExtensionsAreLoaded, ExtendsKnown
      <3>3. a # b
        BY <2>4, <2>5, <3>1, <3>2
      <3>4. QED
        BY <2>1, <3>2, <3>3
    <2>6. QED
      BY <2>3, <2>5 DEF ExtensionsAreLoaded
  <1>6. \/ extensions' = extensions /\ bundles' = bundles
        \/ Extend(t)
        \/ UninstallRemoves(t)
    BY DEF Step, Check, Enter, Commit, Return, Unwind, Resolve, ResolveBegins, ResolveDependency, ResolveInstalls,
       InstallLibraries, StartStopUninstall, StartOrStopBegins, StartDependency, LoadActivator,
       ActivatorStarts, ActivatorStops, UninstallBegins, loader
  <1>7. CASE Extend(t)
    BY <1>3, <1>4, <1>7 DEF Extend
  <1>8. QED
    BY <1>3, <1>5, <1>6, <1>7

\* The loader never lists an extension bundle that is not in its map with a
\* bundle that is: the entry is taken out when the extension is uninstalled.
THEOREM ExtensionsAreLoadedHolds == Spec => []ExtensionsAreLoaded
  <1>1. Init => ExtendsKnown /\ ExtensionsAreLoaded
    BY DEF Init, ExtendsKnown, ExtensionsAreLoaded
  <1>2. OInv /\ ExtendsKnown /\ ExtensionsAreLoaded /\ [Next]_vars
            => ExtendsKnown' /\ ExtensionsAreLoaded'
    <2> SUFFICES ASSUME OInv, ExtendsKnown, ExtensionsAreLoaded, [Next]_vars
                 PROVE  ExtendsKnown' /\ ExtensionsAreLoaded'
      OBVIOUS
    <2>1. ASSUME manifest' = manifest, extensions' = extensions, bundles' = bundles,
                 disturbed \subseteq disturbed'
          PROVE  ExtendsKnown' /\ ExtensionsAreLoaded'
      BY <2>1 DEF ExtendsKnown, ExtensionsAreLoaded
    <2>2. CASE UNCHANGED vars
      BY <2>1, <2>2 DEF vars, loader
    <2>3. CASE Next
      <3>1. disturbed \subseteq disturbed'
        BY <2>3 DEF Next, ThreadRuns, MainRuns, Tracked
      <3>2. CASE Begins
        BY <2>1, <3>1, <3>2 DEF Begins, loader
      <3>3. CASE \E t \in Threads : Step(t)
        BY <3>1, <3>3, ExtensionsStep
      <3>4. Typed /\ Admissible \subseteq Operations
        BY BundleAssumption DEF OInv, Inv, BInv
      <3>5. QED
        BY <2>3, <3>2, <3>3, <3>4, MainLoopEffect, PerformActionEffect DEF Next, ThreadRuns, MainRuns
    <2>4. QED
      BY <2>2, <2>3
  <1>3. QED
    BY <1>1, <1>2, OInvHolds, PTL DEF Spec

-----------------------------------------------------------------------------
(* _resolvingBundles.                                                        *)

InDeps(c) == c.op = "resolve" /\ c.pc = "deps"

\* The calls that resolve dependencies and the members of _resolvingBundles
\* are in one-to-one correspondence.
Resolving ==
    /\ \A t \in Threads : \A i \in DOMAIN stack[t] : InDeps(stack[t][i]) => stack[t][i].bundle \in resolving
    /\ \A b \in resolving : \E t \in Threads : \E i \in DOMAIN stack[t] :
          InDeps(stack[t][i]) /\ stack[t][i].bundle = b
    /\ \A t, u \in Threads : \A i \in DOMAIN stack[t] : \A j \in DOMAIN stack[u] :
          InDeps(stack[t][i]) /\ InDeps(stack[u][j]) /\ stack[t][i].bundle = stack[u][j].bundle
              => t = u /\ i = j

\* A step that leaves those calls alone.
DepsSame ==
    /\ resolving' = resolving
    /\ \A t \in Threads : \A i \in DOMAIN stack[t] : InDeps(stack[t][i]) =>
          /\ i \in DOMAIN stack'[t] /\ InDeps(stack'[t][i])
          /\ stack'[t][i].bundle = stack[t][i].bundle
    /\ \A t \in Threads : \A i \in DOMAIN stack'[t] : InDeps(stack'[t][i]) =>
          /\ i \in DOMAIN stack[t] /\ InDeps(stack[t][i])
          /\ stack'[t][i].bundle = stack[t][i].bundle

LEMMA ResolvingSame ==
    ASSUME Resolving, DepsSame
    PROVE  Resolving'
  <1>1. \A t \in Threads : \A i \in DOMAIN stack'[t] :
            InDeps(stack'[t][i]) => stack'[t][i].bundle \in resolving'
    BY DEF Resolving, DepsSame
  <1>2. \A b \in resolving' : \E t \in Threads : \E i \in DOMAIN stack'[t] :
            InDeps(stack'[t][i]) /\ stack'[t][i].bundle = b
    BY DEF Resolving, DepsSame
  <1>3. \A t, u \in Threads : \A i \in DOMAIN stack'[t] : \A j \in DOMAIN stack'[u] :
            InDeps(stack'[t][i]) /\ InDeps(stack'[u][j]) /\ stack'[t][i].bundle = stack'[u][j].bundle
                => t = u /\ i = j
    BY DEF Resolving, DepsSame
  <1>4. \A t \in Threads : \A i \in DOMAIN stack'[t] : InDeps(stack'[t][i]) <=> InDeps(stack[t][i])'
    BY DEF InDeps
  <1>5. QED
    BY <1>1, <1>2, <1>3, <1>4 DEF Resolving

LEMMA SameByReplaces ==
    ASSUME Typed, NEW t \in Threads, stack[t] # <<>>, NEW c, Replaces(t, c), resolving' = resolving,
           c.bundle = Top(t).bundle, InDeps(c) <=> InDeps(Top(t))
    PROVE  DepsSame
  <1>1. Len(stack[t]) \in DOMAIN stack[t] /\ stack[t][Len(stack[t])] = Top(t)
    BY StackFacts DEF Top
  <1>2. \A u \in Threads : DOMAIN stack'[u] = DOMAIN stack[u]
    BY DEF Replaces, OthersStay
  <1>3. \A u \in Threads : \A i \in DOMAIN stack[u] :
            stack'[u][i] = stack[u][i] \/ (stack[u][i] = Top(t) /\ stack'[u][i] = c)
    BY <1>1 DEF Replaces, OthersStay
  <1>4. QED
    BY <1>2, <1>3 DEF DepsSame

LEMMA SameByMakes ==
    ASSUME Typed, NEW t \in Threads, NEW op, NEW b, Makes(t, Call(op, b)), resolving' = resolving
    PROVE  DepsSame
  <1>1. DOMAIN stack[t] = 1 .. Len(stack[t]) /\ Len(stack[t]) \in Nat
    BY StackFacts
  <1>2. ~InDeps(Call(op, b))
    BY DEF Call, InDeps
  <1>3. \A u \in Threads : \A i \in DOMAIN stack'[u] :
            \/ stack'[u][i] = Call(op, b)
            \/ i \in DOMAIN stack[u] /\ stack'[u][i] = stack[u][i]
    BY <1>1 DEF Makes, OthersStay
  <1>4. \A u \in Threads : \A i \in DOMAIN stack[u] : i \in DOMAIN stack'[u] /\ stack'[u][i] = stack[u][i]
    BY <1>1 DEF Makes, OthersStay
  <1>5. QED
    BY <1>2, <1>3, <1>4 DEF DepsSame

LEMMA SameByLeaves ==
    ASSUME Typed, NEW t \in Threads, stack[t] # <<>>, Leaves(t), ~InDeps(Top(t)), resolving' = resolving
    PROVE  DepsSame
  <1>1. /\ Len(stack[t]) \in DOMAIN stack[t] /\ stack[t][Len(stack[t])] = Top(t)
        /\ DOMAIN stack[t] = 1 .. Len(stack[t]) /\ Len(stack[t]) \in Nat
    BY StackFacts DEF Top
  <1>2. \A u \in Threads : \A i \in DOMAIN stack'[u] :
            i \in DOMAIN stack[u] /\ stack'[u][i] = stack[u][i]
    BY <1>1 DEF Leaves, OthersStay
  <1>3. \A u \in Threads : \A i \in DOMAIN stack[u] :
            (i \in DOMAIN stack'[u] /\ stack'[u][i] = stack[u][i]) \/ stack[u][i] = Top(t)
    BY <1>1 DEF Leaves, OthersStay
  <1>4. QED
    BY <1>2, <1>3 DEF DepsSame

LEMMA SameByThrow == ASSUME stack' = stack, resolving' = resolving PROVE DepsSame
  BY DEF DepsSame

\* The call goes to or from another place than "deps".
LEMMA SameByGoTo ==
    ASSUME Typed, NEW t \in Threads, stack[t] # <<>>, NEW pc, GoTo(t, pc), resolving' = resolving,
           Top(t).op # "resolve" \/ (Top(t).pc # "deps" /\ pc # "deps")
    PROVE  DepsSame
  <1>1. PICK c : /\ Replaces(t, c)
                 /\ c.pc = pc /\ c.op = Top(t).op /\ c.bundle = Top(t).bundle
                 /\ c.next = Top(t).next /\ c.old = Top(t).old
    BY GoToFacts
  <1>2. InDeps(c) <=> InDeps(Top(t))
    BY <1>1 DEF InDeps
  <1>3. QED
    BY <1>1, <1>2, SameByReplaces

\* A bundle enters _resolvingBundles: the call becomes one of resolveBundle().
LEMMA ResolvingEnters ==
    ASSUME Typed, Resolving, NEW t \in Threads, stack[t] # <<>>, NEW c, Replaces(t, c),
           ~InDeps(Top(t)), InDeps(c), c.bundle \notin resolving, resolving' = resolving \cup {c.bundle}
    PROVE  Resolving'
  <1> DEFINE n == Len(stack[t])
  <1>1. n \in DOMAIN stack[t] /\ stack[t][n] = Top(t)
    BY StackFacts DEF Top
  <1>2. \A u \in Threads : DOMAIN stack'[u] = DOMAIN stack[u]
    BY DEF Replaces, OthersStay
  <1>3. /\ stack'[t][n] = c
        /\ \A u \in Threads : \A i \in DOMAIN stack[u] : (u = t /\ i = n) \/ stack'[u][i] = stack[u][i]
    BY DEF Replaces, OthersStay
  <1> HIDE DEF n
  <1>4. \A u \in Threads : \A i \in DOMAIN stack'[u] :
            InDeps(stack'[u][i]) => stack'[u][i].bundle \in resolving'
    BY <1>2, <1>3 DEF Resolving
  <1>5. \A b \in resolving' : \E u \in Threads : \E i \in DOMAIN stack'[u] :
            InDeps(stack'[u][i]) /\ stack'[u][i].bundle = b
    BY <1>1, <1>2, <1>3 DEF Resolving
  <1>6. \A u \in Threads : \A i \in DOMAIN stack'[u] :
            InDeps(stack'[u][i]) /\ stack'[u][i].bundle = c.bundle => u = t /\ i = n
    BY <1>2, <1>3 DEF Resolving
  <1>7. \A u, v \in Threads : \A i \in DOMAIN stack'[u] : \A j \in DOMAIN stack'[v] :
            InDeps(stack'[u][i]) /\ InDeps(stack'[v][j]) /\ stack'[u][i].bundle = stack'[v][j].bundle
                => u = v /\ i = j
    BY <1>2, <1>3, <1>6 DEF Resolving
  <1>8. \A u \in Threads : \A i \in DOMAIN stack'[u] : InDeps(stack'[u][i]) <=> InDeps(stack[u][i])'
    BY DEF InDeps
  <1>9. QED
    BY <1>4, <1>5, <1>7, <1>8 DEF Resolving

\* A bundle leaves _resolvingBundles with the call that entered it.
LEMMA ResolvingLeaves ==
    ASSUME Typed, Resolving, NEW t \in Threads, stack[t] # <<>>, InDeps(Top(t)),
           resolving' = resolving \ {Top(t).bundle},
           Leaves(t) \/ \E c : Replaces(t, c) /\ ~InDeps(c)
    PROVE  Resolving'
  <1> DEFINE n == Len(stack[t])
  <1>1. n \in DOMAIN stack[t] /\ stack[t][n] = Top(t) /\ n \in Nat /\ DOMAIN stack[t] = 1 .. n
    BY StackFacts DEF Top
  <1>2. /\ \A u \in Threads : \A i \in DOMAIN stack'[u] : InDeps(stack'[u][i]) =>
               i \in DOMAIN stack[u] /\ stack'[u][i] = stack[u][i] /\ ~(u = t /\ i = n)
        /\ \A u \in Threads : \A i \in DOMAIN stack[u] :
               (u = t /\ i = n) \/ (i \in DOMAIN stack'[u] /\ stack'[u][i] = stack[u][i])
    <2>1. CASE Leaves(t)
      <3>1. \A u \in Threads : \A i \in DOMAIN stack'[u] :
                i \in DOMAIN stack[u] /\ stack'[u][i] = stack[u][i] /\ ~(u = t /\ i = n)
        BY <1>1, <2>1 DEF Leaves, OthersStay
      <3>2. \A u \in Threads : \A i \in DOMAIN stack[u] :
                (u = t /\ i = n) \/ (i \in DOMAIN stack'[u] /\ stack'[u][i] = stack[u][i])
        <4>1. \A i \in 1 .. n : i = n \/ i \in 1 .. n - 1
          BY <1>1
        <4>2. QED
          BY <1>1, <2>1, <4>1 DEF Leaves, OthersStay
      <3>3. QED
        BY <3>1, <3>2
    <2>2. ASSUME NEW c, Replaces(t, c), ~InDeps(c)
          PROVE  /\ \A u \in Threads : \A i \in DOMAIN stack'[u] : InDeps(stack'[u][i]) =>
                        i \in DOMAIN stack[u] /\ stack'[u][i] = stack[u][i] /\ ~(u = t /\ i = n)
                 /\ \A u \in Threads : \A i \in DOMAIN stack[u] :
                        (u = t /\ i = n) \/ (i \in DOMAIN stack'[u] /\ stack'[u][i] = stack[u][i])
      <3>1. \A u \in Threads : DOMAIN stack'[u] = DOMAIN stack[u]
        BY <2>2 DEF Replaces, OthersStay
      <3>2. /\ stack'[t][n] = c
            /\ \A u \in Threads : \A i \in DOMAIN stack[u] : (u = t /\ i = n) \/ stack'[u][i] = stack[u][i]
        BY <2>2 DEF Replaces, OthersStay
      <3> HIDE DEF n
      <3>3. QED
        BY <2>2, <3>1, <3>2
    <2>3. QED
      BY <2>1, <2>2
  <1> HIDE DEF n
  <1>3. \A u \in Threads : \A i \in DOMAIN stack[u] :
            InDeps(stack[u][i]) /\ stack[u][i].bundle = Top(t).bundle => u = t /\ i = n
    BY <1>1 DEF Resolving
  <1>4. \A u \in Threads : \A i \in DOMAIN stack'[u] :
            InDeps(stack'[u][i]) => stack'[u][i].bundle \in resolving'
    BY <1>2, <1>3 DEF Resolving
  <1>5. \A b \in resolving' : \E u \in Threads : \E i \in DOMAIN stack'[u] :
            InDeps(stack'[u][i]) /\ stack'[u][i].bundle = b
    BY <1>1, <1>2 DEF Resolving
  <1>6. \A u, v \in Threads : \A i \in DOMAIN stack'[u] : \A j \in DOMAIN stack'[v] :
            InDeps(stack'[u][i]) /\ InDeps(stack'[v][j]) /\ stack'[u][i].bundle = stack'[v][j].bundle
                => u = v /\ i = j
    BY <1>2 DEF Resolving
  <1>7. \A u \in Threads : \A i \in DOMAIN stack'[u] : InDeps(stack'[u][i]) <=> InDeps(stack[u][i])'
    BY DEF InDeps
  <1>8. QED
    BY <1>4, <1>5, <1>6, <1>7 DEF Resolving

LEMMA ResolvingStep ==
    ASSUME Typed, Resolving, NEW t \in Threads, Step(t)
    PROVE  Resolving'
  <1>1. CASE \E op \in Operations : Check(t, op)
    <2>1. stack[t] # <<>> /\ Top(t).pc = "check" /\ resolving' = resolving
      BY <1>1 DEF Check, In, loader
    <2>2. stack' = stack \/ \E pc \in {"enter", "lock"} : GoTo(t, pc)
      BY <1>1 DEF Check, Throw
    <2>3. QED
      BY <2>1, <2>2, SameByThrow, SameByGoTo, ResolvingSame
  <1>2. CASE Enter(t)
    <2>1. PICK c : /\ Replaces(t, c) /\ c.pc = "lock" /\ c.bundle = Top(t).bundle
      BY <1>2, EnterEffect
    <2>2. stack[t] # <<>> /\ Top(t).pc = "enter" /\ resolving' = resolving
      BY <1>2, EnterEffect DEF loader
    <2>3. QED
      BY <2>1, <2>2, SameByReplaces, ResolvingSame DEF InDeps
  <1>3. CASE Commit(t) \/ Return(t)
    <2>1. stack[t] # <<>> /\ ~InDeps(Top(t)) /\ resolving' = resolving
      BY <1>3, CommitEffect, ReturnEffect DEF InDeps, loader
    <2>2. CASE Leaves(t)
      BY <2>1, <2>2, SameByLeaves, ResolvingSame
    <2>3. ASSUME NEW c, Replaces(t, c), c.pc = "return", c.bundle = Top(t).bundle
          PROVE  Resolving'
      BY <2>1, <2>3, SameByReplaces, ResolvingSame DEF InDeps
    <2>4. QED
      BY <1>3, <2>2, <2>3, CommitEffect, ReturnEffect
  <1>4. CASE Unwind(t)
    <2>1. stack[t] # <<>> /\ Leaves(t)
      BY <1>4, UnwindEffect
    <2>2. resolving' = IF InDeps(Top(t)) THEN resolving \ {Top(t).bundle} ELSE resolving
      BY <1>4 DEF Unwind, InDeps
    <2>3. QED
      BY <2>1, <2>2, SameByLeaves, ResolvingSame, ResolvingLeaves
  <1>5. CASE ResolveBegins(t)
    <2>1. stack[t] # <<>> /\ Top(t).op = "resolve" /\ Top(t).pc = "lock"
      BY <1>5 DEF ResolveBegins, In
    <2>2. CASE stack' = stack /\ resolving' = resolving
      BY <2>2, SameByThrow, ResolvingSame
    <2>3. CASE /\ GoTo(t, "deps") /\ Top(t).bundle \notin resolving
               /\ resolving' = resolving \cup {Top(t).bundle}
      <3>1. PICK c : /\ Replaces(t, c)
                     /\ c.pc = "deps" /\ c.op = Top(t).op /\ c.bundle = Top(t).bundle
                     /\ c.next = Top(t).next /\ c.old = Top(t).old
        BY <2>1, <2>3, GoToFacts
      <3>2. QED
        BY <2>1, <2>3, <3>1, ResolvingEnters DEF InDeps
    <2>4. QED
      BY <1>5, <2>2, <2>3 DEF ResolveBegins, Throw
  <1>6. CASE ResolveInstalls(t)
    <2>1. /\ stack[t] # <<>> /\ InDeps(Top(t)) /\ GoTo(t, "install")
          /\ resolving' = resolving \ {Top(t).bundle}
      BY <1>6 DEF ResolveInstalls, In, InDeps
    <2>2. PICK c : /\ Replaces(t, c)
                   /\ c.pc = "install" /\ c.op = Top(t).op /\ c.bundle = Top(t).bundle
                   /\ c.next = Top(t).next /\ c.old = Top(t).old
      BY <2>1, GoToFacts
    <2>3. ~InDeps(c)
      BY <2>2 DEF InDeps
    <2>4. QED
      BY <2>1, <2>2, <2>3, ResolvingLeaves
  <1>7. CASE ResolveDependency(t) \/ StartDependency(t)
    <2>1. stack[t] # <<>> /\ resolving' = resolving
      BY <1>7 DEF ResolveDependency, StartDependency, In, loader
    <2>2. CASE Advance(t)
      <3>1. PICK c : /\ Replaces(t, c)
                     /\ c.pc = Top(t).pc /\ c.op = Top(t).op /\ c.bundle = Top(t).bundle
                     /\ c.next = Top(t).next + 1 /\ c.old = Top(t).old
        BY <2>1, <2>2, AdvanceFacts
      <3>2. QED
        BY <2>1, <3>1, SameByReplaces, ResolvingSame DEF InDeps
    <2>3. ASSUME NEW op, NEW d, Push(t, Call(op, d))
          PROVE  Resolving'
      BY <2>1, <2>3, MakesFacts, SameByMakes, ResolvingSame
    <2>4. QED
      BY <1>7, <2>1, <2>2, <2>3, SameByThrow, ResolvingSame DEF ResolveDependency, StartDependency, Throw
  <1>8. CASE InstallLibraries(t) \/ Extend(t)
    <2>1. stack[t] # <<>> /\ resolving' = resolving /\ Top(t).pc \in {"install", "extend"}
      BY <1>8 DEF InstallLibraries, Extend, In, loader
    <2>2. ASSUME NEW pc \in {"commit", "extend"}, GoTo(t, pc)
          PROVE  Resolving'
      BY <2>1, <2>2, SameByGoTo, ResolvingSame
    <2>3. ASSUME NEW op, NEW d, Push(t, Call(op, d))
          PROVE  Resolving'
      BY <2>1, <2>3, MakesFacts, SameByMakes, ResolvingSame
    <2>4. QED
      BY <1>8, <2>1, <2>2, <2>3, SameByThrow, ResolvingSame DEF InstallLibraries, Extend, Throw
  <1>9. CASE StartOrStopBegins(t) \/ LoadActivator(t) \/ ActivatorStarts(t) \/ ActivatorStops(t)
             \/ UninstallBegins(t) \/ UninstallRemoves(t)
    <2>1. stack[t] # <<>> /\ resolving' = resolving /\ Top(t).op # "resolve"
      BY <1>9 DEF StartOrStopBegins, LoadActivator, ActivatorStarts, ActivatorStops, UninstallBegins,
         UninstallRemoves, In, loader
    <2>2. stack' = stack \/ \E pc : GoTo(t, pc)
      BY <1>9 DEF StartOrStopBegins, LoadActivator, ActivatorStarts, ActivatorStops, UninstallBegins,
         UninstallRemoves, Throw
    <2>3. QED
      BY <2>1, <2>2, SameByThrow, SameByGoTo, ResolvingSame
  <1>10. QED
    BY <1>1, <1>2, <1>3, <1>4, <1>5, <1>6, <1>7, <1>8, <1>9 DEF Step, Resolve, StartStopUninstall

\* _resolvingBundles holds the bundles whose dependencies are being resolved
\* and no other, on every path out of resolveBundle(): a bundle left behind
\* would make every later attempt look like a circular reference.
THEOREM ResolvingIsOnStackHolds == Spec => []ResolvingIsOnStack
  <1>1. Init => Resolving
    BY DEF Init, Resolving
  <1>2. OInv /\ Resolving /\ [Next]_vars => Resolving'
    <2> SUFFICES ASSUME OInv, Resolving, [Next]_vars
                 PROVE  Resolving'
      OBVIOUS
    <2>1. Typed /\ Admissible \subseteq Operations
      BY BundleAssumption DEF OInv, Inv, BInv
    <2>2. CASE UNCHANGED vars
      BY <2>2, SameByThrow, ResolvingSame DEF vars, loader
    <2>3. CASE Begins
      BY <2>1, <2>3, SameByThrow, SameByMakes, ResolvingSame DEF Begins, loader
    <2>4. CASE \E t \in Threads : Step(t)
      BY <2>1, <2>4, ResolvingStep
    <2>5. QED
      BY <2>1, <2>2, <2>3, <2>4, MainLoopEffect, PerformActionEffect DEF Next, ThreadRuns, MainRuns
  <1>3. Resolving => ResolvingIsOnStack
    <2> SUFFICES ASSUME Resolving
                 PROVE  resolving = {c.bundle : c \in {d \in Calls : d.op = "resolve" /\ d.pc = "deps"}}
      BY DEF ResolvingIsOnStack
    <2>1. \A c : c \in Calls <=> \E t \in Threads : \E i \in DOMAIN stack[t] : c = stack[t][i]
      BY DEF Calls
    <2>2. QED
      BY <2>1 DEF Resolving, InDeps
  <1>4. QED
    BY <1>1, <1>2, <1>3, OInvHolds, PTL DEF Spec

-----------------------------------------------------------------------------
(* A bundle is started after those it requires.                              *)

\* The bundle is active and will be as long as start() holds the mutex:
\* another thread may be in stop(), but has not got beyond the mutex.
StaysUp(d) ==
    d \notin disturbed =>
        /\ d \in Bundles /\ state[d] \in {"active", "stopping"}
        /\ \A t \in Threads : \A i \in DOMAIN stack[t] :
              stack[t][i].bundle = d /\ stack[t][i].op = "stop" =>
                  stack[t][i].pc \notin {"deactivate", "commit"}

\* What start() knows of the required bundles it has been at.
UpKnown(c) ==
    c.op = "start" =>
        /\ c.pc \in {"check", "enter", "lock"} => c.next = 1
        /\ c.pc = "deps" => \A k \in 1 .. c.next - 1 : StaysUp(manifest[c.bundle].requires[k])
        /\ c.pc = "activate" => \A d \in Required(c.bundle) : StaysUp(d)

Ups == \A t \in Threads : \A i \in DOMAIN stack[t] : UpKnown(stack[t][i])

\* No stop() has got beyond the mutex if the bundle is active.
LEMMA ActiveStaysUp ==
    ASSUME OInv, NEW d \in Bundles, state[d] = "active"
    PROVE  StaysUp(d)
  <1> SUFFICES ASSUME d \notin disturbed, NEW t \in Threads, NEW i \in DOMAIN stack[t],
                      stack[t][i].bundle = d, stack[t][i].op = "stop",
                      stack[t][i].pc \in {"deactivate", "commit"}
               PROVE  FALSE
    BY DEF StaysUp
  <1>1. Owns(stack[t][i]) /\ IsCall(stack[t][i])
    BY DEF OInv, Owned, Inv, BInv, Typed
  <1>2. QED
    BY <1>1 DEF Owns, IsCall

\* A thread holds the mutex while it starts the dependencies or the activator.
StartsNow(t) ==
    \E i \in DOMAIN stack[t] : stack[t][i].op = "start" /\ stack[t][i].pc \in {"deps", "activate"}

\* After the step the calls on d of stop() are still before the mutex.
CallsBehave(d) ==
    \A t \in Threads : \A i \in DOMAIN stack'[t] :
        stack'[t][i].bundle = d /\ stack'[t][i].op = "stop" =>
            stack'[t][i].pc \notin {"deactivate", "commit"}

LEMMA BehaveReplaces ==
    ASSUME NEW d, StaysUp(d), d \notin disturbed, NEW t \in Threads, NEW c, Replaces(t, c),
           c.bundle = d /\ c.op = "stop" => c.pc \notin {"deactivate", "commit"}
    PROVE  CallsBehave(d)
  <1>1. \A u \in Threads : DOMAIN stack'[u] = DOMAIN stack[u]
    BY DEF Replaces, OthersStay
  <1>2. \A u \in Threads : \A i \in DOMAIN stack[u] : stack'[u][i] = c \/ stack'[u][i] = stack[u][i]
    BY DEF Replaces, OthersStay
  <1>3. QED
    BY <1>1, <1>2 DEF CallsBehave, StaysUp

LEMMA BehaveMakes ==
    ASSUME Typed, NEW d, StaysUp(d), d \notin disturbed, NEW t \in Threads, NEW op, NEW b,
           Makes(t, Call(op, b))
    PROVE  CallsBehave(d)
  <1>1. DOMAIN stack[t] = 1 .. Len(stack[t]) /\ Len(stack[t]) \in Nat
    BY StackFacts
  <1>2. Call(op, b).pc = "check"
    BY DEF Call
  <1>3. \A u \in Threads : \A i \in DOMAIN stack'[u] :
            \/ stack'[u][i] = Call(op, b)
            \/ i \in DOMAIN stack[u] /\ stack'[u][i] = stack[u][i]
    BY <1>1 DEF Makes, OthersStay
  <1>4. QED
    BY <1>2, <1>3 DEF CallsBehave, StaysUp

LEMMA BehaveLeaves ==
    ASSUME Typed, NEW d, StaysUp(d), d \notin disturbed, NEW t \in Threads, stack[t] # <<>>, Leaves(t)
    PROVE  CallsBehave(d)
  <1>1. DOMAIN stack[t] = 1 .. Len(stack[t]) /\ Len(stack[t]) \in Nat
    BY StackFacts
  <1>2. \A u \in Threads : \A i \in DOMAIN stack'[u] : i \in DOMAIN stack[u] /\ stack'[u][i] = stack[u][i]
    BY <1>1 DEF Leaves, OthersStay
  <1>3. QED
    BY <1>2 DEF CallsBehave, StaysUp

\* While a thread holds the mutex in start(), no step of any thread takes a
\* bundle out of use that is up.
LEMMA StaysUpStep ==
    ASSUME OInv, NEW t \in Threads, Step(t), NEW v \in Threads, StartsNow(v),
           NEW d, StaysUp(d), d \notin disturbed
    PROVE  state'[d] \in {"active", "stopping"} /\ CallsBehave(d)
  <1>1. Typed /\ d \in Bundles /\ state[d] \in {"active", "stopping"}
    BY DEF OInv, Inv, BInv, StaysUp
  <1>2. CASE Quiet(t)
    <2>1. state' = state /\ stack[t] # <<>>
      BY <1>2 DEF Quiet
    <2>2. CASE stack' = stack
      BY <1>1, <2>1, <2>2 DEF CallsBehave, StaysUp
    <2>3. ASSUME NEW c, Replaces(t, c), GoesOn(t, c)
          PROVE  CallsBehave(d)
      <3>1. c.op = "stop" => c.pc # "deactivate"
        <4> SUFFICES ASSUME c.op = "stop", c.pc = "deactivate"
                     PROVE  FALSE
          OBVIOUS
        <4>1. MutexFree(t) /\ Top(t).op = "stop"
          BY <2>3 DEF GoesOn
        <4>2. Holds(v)
          BY DEF StartsNow, Holds, Locked
        <4>3. v = t
          BY <4>1, <4>2 DEF MutexFree
        <4>4. QED
          BY <4>1, <4>3 DEF StartsNow, OInv, Shaped
      <3>2. c.op = "stop" => c.pc # "commit"
        BY <2>3 DEF GoesOn
      <3>3. QED
        BY <2>3, <3>1, <3>2, BehaveReplaces
    <2>4. ASSUME NEW b, Makes(t, Call(Top(t).op, b))
          PROVE  CallsBehave(d)
      BY <1>1, <2>4, BehaveMakes
    <2>5. QED
      BY <1>1, <1>2, <2>1, <2>2, <2>3, <2>4 DEF Quiet
  <1>3. CASE ~Quiet(t) /\ (ActivatorStarts(t) \/ ActivatorStops(t) \/ UninstallRemoves(t))
    <2>1. /\ Finishes(t) /\ state' = state
          /\ Top(t).op = "stop" => Top(t).pc = "deactivate"
      BY <1>1, <1>3, ActivatorStartsEffect, ActivatorStopsEffect, UninstallRemovesEffect
    <2>2. PICK c : Replaces(t, c) /\ c.op = Top(t).op /\ c.bundle = Top(t).bundle
      BY <2>1 DEF Finishes
    <2>3. Len(stack[t]) \in DOMAIN stack[t] /\ stack[t][Len(stack[t])] = Top(t)
      BY <1>1, <2>1, StackFacts DEF Finishes, Top
    <2>4. ~(c.bundle = d /\ c.op = "stop")
      BY <2>1, <2>2, <2>3 DEF StaysUp
    <2>5. QED
      BY <1>1, <2>1, <2>2, <2>4, BehaveReplaces
  <1>4. CASE Enter(t)
    <2>1. PICK c : Replaces(t, c) /\ c.pc = "lock" /\ c.bundle = Top(t).bundle
      BY <1>1, <1>4, EnterEffect
    <2>2. /\ stack[t] # <<>> /\ Top(t).pc = "enter" /\ Top(t).op \in {"start", "stop"}
          /\ state' = [state EXCEPT ![Top(t).bundle] = IF Top(t).op = "start" THEN "starting" ELSE "stopping"]
      BY <1>1, <1>4, EnterEffect
    <2>3. CASE Top(t).bundle = d
      <3>1. state[d] \in Requirement(Top(t).op)
        BY <1>1, <2>2, <2>3, AloneFacts DEF Owns
      <3>2. Top(t).op = "stop"
        BY <1>1, <2>2, <3>1 DEF Requirement
      <3>3. state'[d] = "stopping"
        BY <1>1, <2>2, <2>3, <3>2 DEF Typed
      <3>4. QED
        BY <2>1, <3>3, BehaveReplaces
    <2>4. CASE Top(t).bundle # d
      <3>1. state'[d] = state[d]
        BY <1>1, <2>2, <2>4 DEF Typed
      <3>2. QED
        BY <1>1, <2>1, <3>1, BehaveReplaces
    <2>5. QED
      BY <2>3, <2>4
  <1>5. CASE Commit(t)
    <2>1. /\ stack[t] # <<>> /\ Top(t).pc = "commit"
          /\ state' = [state EXCEPT ![Top(t).bundle] = Outcome(Top(t).op)]
      BY <1>1, <1>5, CommitEffect
    <2>2. Top(t).bundle # d
      <3> SUFFICES ASSUME Top(t).bundle = d
                   PROVE  FALSE
        OBVIOUS
      <3>1. Owns(Top(t)) /\ IsCall(Top(t)) /\ Top(t) \in CallRecord
        BY <1>1, <2>1, AloneFacts
      <3>2. Len(stack[t]) \in DOMAIN stack[t] /\ stack[t][Len(stack[t])] = Top(t)
        BY <1>1, <2>1, StackFacts DEF Top
      <3>3. Top(t).op # "stop"
        BY <2>1, <3>2 DEF StaysUp
      <3>4. Top(t).op # "start"
        BY <1>1, <2>1, <3>1 DEF Owns, IsCall
      <3>5. QED
        BY <1>1, <2>1, <3>1, <3>3, <3>4 DEF Owns, CallRecord, Operations
    <2>3. state'[d] = state[d]
      BY <1>1, <2>1, <2>2 DEF Typed
    <2>4. Leaves(t) \/ \E c : Replaces(t, c) /\ c.bundle = Top(t).bundle
      BY <1>1, <1>5, CommitEffect
    <2>5. QED
      BY <1>1, <2>1, <2>2, <2>3, <2>4, BehaveLeaves, BehaveReplaces
  <1>6. CASE Return(t)
    <2>1. /\ stack[t] # <<>> /\ Leaves(t) /\ Top(t).pc = "return"
          /\ state' = [state EXCEPT ![Top(t).bundle] = Outcome(Top(t).op)]
      BY <1>1, <1>6, ReturnEffect
    <2>2. Top(t).bundle = d => Outcome(Top(t).op) = state[d]
      BY <1>1, <2>1, AloneFacts DEF Owns
    <2>3. state'[d] = state[d]
      BY <1>1, <2>1, <2>2 DEF Typed
    <2>4. QED
      BY <1>1, <2>1, <2>3, BehaveLeaves
  <1>7. CASE Unwind(t)
    <2>1. /\ stack[t] # <<>> /\ Leaves(t)
          /\ state' = IF Top(t).old = None THEN state ELSE [state EXCEPT ![Top(t).bundle] = Top(t).old]
      BY <1>1, <1>7, UnwindEffect
    <2>2. CASE Top(t).bundle = d /\ Top(t).old # None
      <3>1. Owns(Top(t)) /\ IsCall(Top(t))
        BY <1>1, <2>1, <2>2, AloneFacts
      <3>2. Top(t).op = "stop" /\ Top(t).old \in Requirement(Top(t).op)
        BY <1>1, <2>2, <3>1 DEF Owns, IsCall
      <3>3. state'[d] = "active"
        BY <1>1, <2>1, <2>2, <3>2 DEF Typed, Requirement
      <3>4. QED
        BY <1>1, <2>1, <3>3, BehaveLeaves
    <2>3. CASE ~(Top(t).bundle = d /\ Top(t).old # None)
      <3>1. state'[d] = state[d]
        BY <1>1, <2>1, <2>3 DEF Typed
      <3>2. QED
        BY <1>1, <2>1, <3>1, BehaveLeaves
    <2>4. QED
      BY <2>2, <2>3
  <1>8. QED
    BY <1>1, <1>2, <1>3, <1>4, <1>5, <1>6, <1>7, StepEffect

\* The same after the step.
StaysUpNext(d) ==
    d \notin disturbed' =>
        d \in Bundles /\ state'[d] \in {"active", "stopping"} /\ CallsBehave(d)
UpNext(c) ==
    c.op = "start" =>
        /\ c.pc \in {"check", "enter", "lock"} => c.next = 1
        /\ c.pc = "deps" => \A k \in 1 .. c.next - 1 : StaysUpNext(manifest[c.bundle].requires[k])
        /\ c.pc = "activate" => \A d \in Required(c.bundle) : StaysUpNext(d)

\* The step keeps what the starting threads know.
Keeps == \A u \in Threads : StartsNow(u) => \A d : StaysUp(d) => StaysUpNext(d)

LEMMA UpsByNext ==
    ASSUME manifest' = manifest,
           \A u \in Threads : \A i \in DOMAIN stack'[u] : UpNext(stack'[u][i])
    PROVE  Ups'
  <1>1. \A d : StaysUp(d)' <=> StaysUpNext(d)
    BY DEF StaysUp, StaysUpNext, CallsBehave
  <1>2. \A b : Required(b)' = Required(b)
    BY DEF Required
  <1>3. ASSUME NEW u \in Threads, NEW i \in DOMAIN stack'[u]
        PROVE  UpKnown(stack[u][i])'
    BY <1>1, <1>2 DEF UpKnown, UpNext
  <1>4. QED
    BY <1>3 DEF Ups

LEMMA UpNextKept ==
    ASSUME Ups, Keeps, NEW u \in Threads, NEW i \in DOMAIN stack[u]
    PROVE  UpNext(stack[u][i])
  <1>1. UpKnown(stack[u][i])
    BY DEF Ups
  <1>2. CASE stack[u][i].op = "start" /\ stack[u][i].pc \in {"deps", "activate"}
    <2>1. \A d : StaysUp(d) => StaysUpNext(d)
      BY <1>2 DEF Keeps, StartsNow
    <2>2. QED
      BY <1>1, <2>1 DEF UpKnown, UpNext
  <1>3. QED
    BY <1>1, <1>2 DEF UpKnown, UpNext

LEMMA UpsReplaces ==
    ASSUME Ups, Keeps, manifest' = manifest, NEW t \in Threads, NEW c, Replaces(t, c), UpNext(c)
    PROVE  Ups'
  <1>1. ASSUME NEW u \in Threads, NEW i \in DOMAIN stack'[u]
        PROVE  i \in DOMAIN stack[u] /\ (stack'[u][i] = c \/ stack'[u][i] = stack[u][i])
    BY DEF Replaces, OthersStay
  <1>2. QED
    BY <1>1, UpNextKept, UpsByNext

LEMMA UpsMakes ==
    ASSUME Typed, Ups, Keeps, manifest' = manifest, NEW t \in Threads, NEW op, NEW b,
           Makes(t, Call(op, b))
    PROVE  Ups'
  <1>1. DOMAIN stack[t] = 1 .. Len(stack[t]) /\ Len(stack[t]) \in Nat
    BY StackFacts
  <1>2. UpNext(Call(op, b))
    BY DEF Call, UpNext
  <1>3. ASSUME NEW u \in Threads, NEW i \in DOMAIN stack'[u]
        PROVE  \/ stack'[u][i] = Call(op, b)
               \/ i \in DOMAIN stack[u] /\ stack'[u][i] = stack[u][i]
    BY <1>1 DEF Makes, OthersStay
  <1>4. QED
    BY <1>2, <1>3, UpNextKept, UpsByNext

LEMMA UpsLeaves ==
    ASSUME Typed, Ups, Keeps, manifest' = manifest, NEW t \in Threads, stack[t] # <<>>, Leaves(t)
    PROVE  Ups'
  <1>1. DOMAIN stack[t] = 1 .. Len(stack[t]) /\ Len(stack[t]) \in Nat
    BY StackFacts
  <1>2. ASSUME NEW u \in Threads, NEW i \in DOMAIN stack'[u]
        PROVE  i \in DOMAIN stack[u] /\ stack'[u][i] = stack[u][i]
    BY <1>1 DEF Leaves, OthersStay
  <1>3. QED
    BY <1>2, UpNextKept, UpsByNext

\* start() goes on: it has looked at one more bundle, or at all.
LEMMA UpGoesOn ==
    ASSUME OInv, Ups, Keeps, NEW t \in Threads, stack[t] # <<>>, NEW c, GoesOn(t, c)
    PROVE  UpNext(c)
  <1> DEFINE top == Top(t)
             b == top.bundle
  <1> SUFFICES ASSUME c.op = "start"
               PROVE  UpNext(c)
    BY DEF UpNext
  <1>1. top \in CallRecord /\ Len(stack[t]) \in DOMAIN stack[t] /\ top = stack[t][Len(stack[t])]
    BY StackFacts DEF OInv, Inv, BInv, Top
  <1>2. b \in Bundles /\ top.next \in Nat \ {0}
    BY <1>1 DEF CallRecord
  <1>3. manifest[b].requires \in Seq(Bundles \cup {None})
    BY <1>2, ManifestFacts DEF OInv, Inv, BInv
  <1>4. UpKnown(top) /\ top.op = "start" /\ c.op = top.op /\ c.bundle = b
    BY <1>1 DEF Ups, GoesOn
  <1>5. StartGoesOn(top, c)
    BY <1>4 DEF GoesOn
  <1>6. top.pc = "deps" => \A d : StaysUp(d) => StaysUpNext(d)
    BY <1>1, <1>4 DEF Keeps, StartsNow
  <1> HIDE DEF top
  <1>7. CASE top.pc = "check" /\ c.pc = "enter" /\ c.next = top.next
    BY <1>4, <1>7 DEF UpKnown, UpNext
  <1>8. CASE top.pc = "lock" /\ c.pc = "deps" /\ c.next = top.next
    <2>1. c.next = 1
      BY <1>4, <1>8 DEF UpKnown
    <2>2. QED
      BY <1>8, <2>1 DEF UpNext
  <1>9. CASE /\ top.pc = "deps" /\ c.pc = "deps" /\ c.next = top.next + 1
             /\ manifest[b].requires[top.next] \in bundles
             /\ IsActive(manifest[b].requires[top.next])
    <2>1. StaysUp(manifest[b].requires[top.next])
      BY <1>9, ActiveStaysUp DEF OInv, Inv, BInv, Typed, IsActive
    <2>2. \A k \in 1 .. top.next - 1 : StaysUp(manifest[b].requires[k])
      BY <1>4, <1>9 DEF UpKnown
    <2>3. \A k \in 1 .. c.next - 1 : k = top.next \/ k \in 1 .. top.next - 1
      BY <1>2, <1>9
    <2>4. \A k \in 1 .. c.next - 1 : StaysUpNext(manifest[b].requires[k])
      BY <1>6, <1>9, <2>1, <2>2, <2>3
    <2>5. QED
      BY <1>4, <1>9, <2>4 DEF UpNext
  <1>10. CASE top.pc = "deps" /\ c.pc = "activate" /\ top.next > Len(manifest[b].requires)
    <2>1. \A k \in DOMAIN manifest[b].requires : k \in 1 .. top.next - 1
      BY <1>2, <1>3, <1>10, LenProperties
    <2>2. \A k \in 1 .. top.next - 1 : StaysUp(manifest[b].requires[k])
      BY <1>4, <1>10 DEF UpKnown
    <2>3. \A d \in Required(b) : StaysUpNext(d)
      BY <1>6, <1>10, <2>1, <2>2 DEF Required
    <2>4. QED
      BY <1>4, <1>10, <2>3 DEF UpNext
  <1>11. CASE c.pc = "commit"
    BY <1>11 DEF UpNext
  <1>12. QED
    BY <1>5, <1>7, <1>8, <1>9, <1>10, <1>11 DEF StartGoesOn

LEMMA UpsStep ==
    ASSUME OInv, Ups, NEW t \in Threads, Step(t), disturbed \subseteq disturbed'
    PROVE  Ups'
  <1>1. Typed
    BY DEF OInv, Inv, BInv
  <1>2. Keeps
    <2> SUFFICES ASSUME NEW u \in Threads, StartsNow(u), NEW d, StaysUp(d), d \notin disturbed'
                 PROVE  d \in Bundles /\ state'[d] \in {"active", "stopping"} /\ CallsBehave(d)
      BY DEF Keeps, StaysUpNext
    <2>1. d \notin disturbed
      OBVIOUS
    <2>2. QED
      BY <2>1, StaysUpStep DEF StaysUp
  <1>3. CASE Quiet(t)
    <2>1. manifest' = manifest /\ stack[t] # <<>>
      BY <1>3 DEF Quiet
    <2>2. CASE stack' = stack
      BY <1>2, <2>1, <2>2, UpNextKept, UpsByNext
    <2>3. ASSUME NEW c, Replaces(t, c), GoesOn(t, c)
          PROVE  Ups'
      <3>1. UpNext(c)
        BY <1>2, <2>1, <2>3, UpGoesOn
      <3>2. QED
        BY <1>2, <2>1, <2>3, <3>1, UpsReplaces
    <2>4. ASSUME NEW d \in Bundles, Makes(t, Call(Top(t).op, d))
          PROVE  Ups'
      BY <1>1, <1>2, <2>1, <2>4, UpsMakes
    <2>5. QED
      BY <1>3, <2>2, <2>3, <2>4 DEF Quiet
  <1>4. CASE ~Quiet(t) /\ (ActivatorStarts(t) \/ ActivatorStops(t) \/ UninstallRemoves(t))
    <2>1. Finishes(t) /\ manifest' = manifest
      BY <1>1, <1>4, ActivatorStartsEffect, ActivatorStopsEffect, UninstallRemovesEffect
    <2>2. PICK c : Replaces(t, c) /\ c.pc = "commit"
      BY <2>1 DEF Finishes
    <2>3. UpNext(c)
      BY <2>2 DEF UpNext
    <2>4. QED
      BY <1>2, <2>1, <2>2, <2>3, UpsReplaces
  <1>5. CASE Enter(t)
    <2>1. PICK c : Replaces(t, c) /\ c.pc = "lock" /\ c.op = Top(t).op /\ c.next = Top(t).next
      BY <1>1, <1>5, EnterEffect
    <2>2. stack[t] # <<>> /\ Top(t).pc = "enter" /\ manifest' = manifest
      BY <1>1, <1>5, EnterEffect
    <2>3. UpKnown(Top(t))
      BY <1>1, <2>2, StackFacts DEF Ups, Top
    <2>4. UpNext(c)
      BY <2>1, <2>2, <2>3 DEF UpKnown, UpNext
    <2>5. QED
      BY <1>2, <2>1, <2>2, <2>4, UpsReplaces
  <1>6. CASE Commit(t) \/ Return(t) \/ Unwind(t)
    <2>1. stack[t] # <<>> /\ manifest' = manifest
      BY <1>1, <1>6, CommitEffect, ReturnEffect, UnwindEffect
    <2>2. Leaves(t) \/ \E c : Replaces(t, c) /\ c.pc = "return"
      BY <1>1, <1>6, CommitEffect, ReturnEffect, UnwindEffect
    <2>3. ASSUME NEW c, Replaces(t, c), c.pc = "return"
          PROVE  Ups'
      <3>1. UpNext(c)
        BY <2>3 DEF UpNext
      <3>2. QED
        BY <1>2, <2>1, <2>3, <3>1, UpsReplaces
    <2>4. QED
      BY <1>1, <1>2, <2>1, <2>2, <2>3, UpsLeaves
  <1>7. QED
    BY <1>1, <1>3, <1>4, <1>5, <1>6, StepEffect

LEMMA UpsBegins ==
    ASSUME OInv, Ups, Begins, disturbed \subseteq disturbed'
    PROVE  Ups'
  <1>1. Typed /\ manifest' = manifest /\ state' = state
    BY DEF OInv, Inv, BInv, Begins
  <1>2. CASE stack' = stack
    <2>1. Keeps
      BY <1>1, <1>2 DEF Keeps, StaysUp, StaysUpNext, CallsBehave
    <2>2. QED
      BY <1>1, <1>2, <2>1, UpNextKept, UpsByNext
  <1>3. ASSUME NEW t \in Threads, NEW op, NEW b, Makes(t, Call(op, b))
        PROVE  Ups'
    <2>1. ASSUME NEW d, StaysUp(d), d \notin disturbed
          PROVE  CallsBehave(d)
      BY <1>1, <1>3, <2>1, BehaveMakes
    <2>2. Keeps
      BY <1>1, <2>1 DEF Keeps, StaysUp, StaysUpNext
    <2>3. QED
      BY <1>1, <1>3, <2>2, UpsMakes
  <1>4. QED
    BY <1>2, <1>3 DEF Begins

LEMMA UpsNextStep ==
    ASSUME OInv, Ups, [Next]_vars, Admissible \subseteq Operations
    PROVE  Ups'
  <1>1. Typed
    BY DEF OInv, Inv, BInv
  <1>2. CASE UNCHANGED vars
    <2>1. UNCHANGED <<manifest, state, stack, disturbed>>
      BY <1>2 DEF vars
    <2>2. Keeps
      BY <2>1 DEF Keeps, StaysUp, StaysUpNext, CallsBehave
    <2>3. QED
      BY <2>1, <2>2, UpNextKept, UpsByNext
  <1>3. CASE Next
    <2>1. disturbed \subseteq disturbed'
      BY <1>3 DEF Next, ThreadRuns, MainRuns, Tracked
    <2>2. QED
      BY <1>1, <1>3, <2>1, UpsStep, UpsBegins, MainLoopEffect, PerformActionEffect
      DEF Next, ThreadRuns, MainRuns
  <1>4. QED
    BY <1>2, <1>3

LEMMA UpsHolds == Spec => []Ups
  <1>1. Admissible \subseteq Operations
    BY BundleAssumption
  <1>2. Init => Ups
    BY DEF Init, Ups
  <1>3. OInv /\ Ups /\ [Next]_vars => Ups'
    BY <1>1, UpsNextStep
  <1>4. QED
    BY <1>2, <1>3, OInvHolds, PTL DEF Spec

\* Which activators a step starts or stops, and where.
LEMMA RunningChanges ==
    ASSUME Typed, [Next]_vars, Admissible \subseteq Operations,
           NEW b \in Bundles, running'[b] # running[b]
    PROVE  \E t \in Threads :
               /\ stack[t] # <<>> /\ Top(t).bundle = b
               /\ \/ running'[b] /\ Top(t).op = "start" /\ Top(t).pc = "activate"
                  \/ ~running'[b] /\ Top(t).op = "stop" /\ Top(t).pc = "deactivate"
  <1>1. ~(UNCHANGED vars) /\ ~Begins
    BY DEF vars, loader, Begins
  <1>2. PICK t \in Threads : Step(t)
    BY <1>1, MainLoopEffect, PerformActionEffect DEF Next, ThreadRuns, MainRuns
  <1>3. ~Quiet(t) /\ ~Enter(t) /\ ~Commit(t) /\ ~Return(t) /\ ~Unwind(t) /\ ~UninstallRemoves(t)
    BY DEF Quiet, Enter, Commit, Return, Unwind, UninstallRemoves, loader
  <1>4. CASE ActivatorStarts(t)
    <2>1. /\ stack[t] # <<>> /\ Top(t).op = "start" /\ Top(t).pc = "activate"
          /\ running' = [running EXCEPT ![Top(t).bundle] = TRUE]
      BY <1>3, <1>4, ActivatorStartsEffect DEF Finishes
    <2>2. Top(t).bundle = b /\ running'[b]
      BY <2>1 DEF Typed
    <2>3. QED
      BY <2>1, <2>2
  <1>5. CASE ActivatorStops(t)
    <2>1. /\ stack[t] # <<>> /\ Top(t).op = "stop" /\ Top(t).pc = "deactivate"
          /\ \/ running' = [running EXCEPT ![Top(t).bundle] = FALSE]
             \/ running' = running
      BY <1>3, <1>5, ActivatorStopsEffect DEF Finishes
    <2>2. Top(t).bundle = b /\ ~running'[b]
      BY <2>1 DEF Typed
    <2>3. QED
      BY <2>1, <2>2
  <1>6. QED
    BY <1>2, <1>3, <1>4, <1>5, StepEffect

\* When an activator is started, the bundles its bundle requires are in the state
\* active, in graphs with cycles too, or have been left so by start() and wait
\* for it in stop(): other administrators' calls do not get beyond the mutex.
\* Bundles two threads have operated on at once are excepted, and an active bundle
\* need not have an activator that runs.
THEOREM DependenciesFirstHolds == Spec => DependenciesFirst
  <1>1. OInv /\ Ups /\ [Next]_vars =>
            [\A b \in Bundles : running'[b] /\ ~running[b] =>
                \A d \in Required(b) \ disturbed : state[d] \in {"active", "stopping"}]_vars
    <2> SUFFICES ASSUME OInv, Ups, [Next]_vars, NEW b \in Bundles, running'[b], ~running[b],
                        NEW d \in Required(b), d \notin disturbed
                 PROVE  state[d] \in {"active", "stopping"}
      OBVIOUS
    <2>1. Typed /\ Admissible \subseteq Operations
      BY BundleAssumption DEF OInv, Inv, BInv
    <2>2. PICK t \in Threads : /\ stack[t] # <<>> /\ Top(t).bundle = b
                               /\ Top(t).op = "start" /\ Top(t).pc = "activate"
      BY <2>1, RunningChanges
    <2>3. UpKnown(Top(t))
      BY <2>1, <2>2, StackFacts DEF Ups, Top
    <2>4. QED
      BY <2>2, <2>3 DEF UpKnown, StaysUp
  <1>2. QED
    BY <1>1, OInvHolds, UpsHolds, PTL DEF Spec, DependenciesFirst

-----------------------------------------------------------------------------
(* A bundle is stopped before those it requires.                             *)

\* The bundle stopAllBundles() is stopping, the ones it has still to come to,
\* and the bundles it will come to later than to b.
Current(b) == stack[Main] # <<>> /\ stack[Main][1].bundle = b
InOrder(b) == \E i \in DOMAIN order : order[i] = b
Later(b, d) == \E j \in DOMAIN order : order[j] = d /\ \A i \in DOMAIN order : order[i] = b => i < j

\* Every bundle whose activator runs has its place, and everything it requires
\* a later one.
Placed(b) ==
    \/ b \in todo
    \/ /\ InOrder(b) \/ Current(b)
       /\ \A d \in Required(b) : Later(b, d)

Distinct ==
    /\ \A i, j \in DOMAIN order : order[i] = order[j] => i = j
    /\ \A i \in DOMAIN order : order[i] \notin todo /\ ~Current(order[i])

\* The main thread sorts before it stops, and stops one bundle at a time.
Phases ==
    /\ phase \in {"loaded", "resolveAll", "startAll"} => order = <<>>
    /\ phase \in {"sort", "stopped"} => stack[Main] = <<>>
    /\ phase = "stopAll" =>
          todo = {} /\ Len(stack[Main]) <= 1 /\ \A i \in DOMAIN stack[Main] : stack[Main][i].op = "stop"

Sorted ==
    /\ Phases
    /\ phase \in {"sort", "stopAll"} =>
          Distinct /\ \A b \in Bundles \ disturbed : running[b] => Placed(b)

\* The activator of a bundle only one thread works on runs in a bundle that is
\* resolved and in the map; active, if no thread is in a call on it.
LEMMA RunningFacts ==
    ASSUME OInv, NEW b \in Bundles, b \notin disturbed, running[b]
    PROVE  /\ state[b] \in {"starting", "active", "stopping"} /\ b \in bundles
           /\ (\A t \in Threads : \A i \in DOMAIN stack[t] : stack[t][i].bundle # b) => IsActive(b)
  <1>1. Owned(b)
    BY DEF OInv
  <1>2. ASSUME NEW t \in Threads, NEW i \in DOMAIN stack[t], stack[t][i].bundle = b, Runs(stack[t][i])
        PROVE  state[b] \in {"starting", "stopping"}
    <2>1. Owns(stack[t][i]) /\ IsCall(stack[t][i])
      BY <1>1, <1>2 DEF Owned, OInv, Inv, BInv, Typed
    <2>2. stack[t][i].old # None
      BY <1>2, <2>1 DEF Runs, IsCall
    <2>3. QED
      BY <1>2, <2>1, <2>2 DEF Owns
  <1>3. state[b] \in {"starting", "active", "stopping"}
    BY <1>1, <1>2 DEF Owned, IsActive
  <1>4. ASSUME NEW t \in Threads, NEW i \in DOMAIN stack[t], stack[t][i].bundle = b, Erased(stack[t][i])
        PROVE  FALSE
    BY <1>1, <1>3, <1>4 DEF Owned, Owns, Erased
  <1>5. b \in bundles
    BY <1>1, <1>3, <1>4 DEF Owned
  <1>6. QED
    BY <1>1, <1>3, <1>5 DEF Owned

\* While the main thread is in the shutdown, an activator that runs is one of
\* an active bundle, unless the main thread is in a call.
LEMMA ActiveAtShutdown ==
    ASSUME OInv, NEW b \in Bundles, b \notin disturbed, running[b],
           phase \in {"sort", "stopAll"}, stack[Main] = <<>>
    PROVE  IsActive(b)
  <1>1. ASSUME NEW t \in Threads, NEW i \in DOMAIN stack[t], stack[t][i].bundle = b
        PROVE  FALSE
    <2>1. t = Main
      BY <1>1, Unshared DEF OInv
    <2>2. QED
      BY <1>1, <2>1
  <1>2. QED
    BY <1>1, RunningFacts

\* Nothing a bundle's place depends on changes.
LEMMA PlacedSame ==
    ASSUME Sorted, manifest' = manifest, order' = order, todo' = todo, phase' = phase,
           disturbed \subseteq disturbed', Phases', \A b : Current(b)' <=> Current(b),
           phase \in {"sort", "stopAll"} =>
               \A b \in Bundles \ disturbed : running'[b] => running[b]
    PROVE  Sorted'
  <1>2. ASSUME phase' \in {"sort", "stopAll"}
        PROVE  Distinct'
    <2>1. Distinct
      BY <1>2 DEF Sorted
    <2>2. \A i \in DOMAIN order : ~Current(order[i])'
      BY <2>1 DEF Distinct
    <2>3. QED
      BY <2>1, <2>2 DEF Distinct
  <1>3. ASSUME phase' \in {"sort", "stopAll"}, NEW b \in Bundles \ disturbed', running'[b]
        PROVE  Placed(b)'
    <2>1. Placed(b)
      BY <1>3 DEF Sorted
    <2>2. QED
      BY <2>1 DEF Placed, InOrder, Later, Required
  <1>4. QED
    BY <1>2, <1>3 DEF Sorted

\* Threads start and stop activators.  During the shutdown only the main
\* thread does, in bundles only one thread works on, and it starts none.
LEMMA NoneStarted ==
    ASSUME OInv, Sorted, [Next]_vars, Admissible \subseteq Operations,
           phase \in {"sort", "stopAll"}, NEW b \in Bundles \ disturbed, running'[b]
    PROVE  running[b]
  <1> SUFFICES ASSUME ~running[b]
               PROVE  FALSE
    OBVIOUS
  <1>1. PICK t \in Threads : /\ stack[t] # <<>> /\ Top(t).bundle = b
                             /\ Top(t).op = "start" /\ Top(t).pc = "activate"
    BY RunningChanges DEF OInv, Inv, BInv
  <1>2. Len(stack[t]) \in DOMAIN stack[t] /\ stack[t][Len(stack[t])] = Top(t)
    BY <1>1, StackFacts DEF OInv, Inv, BInv, Top
  <1>3. t = Main
    BY <1>1, <1>2, Unshared DEF OInv
  <1>4. QED
    BY <1>1, <1>2, <1>3 DEF Sorted, Phases

\* What the step of a thread leaves alone.
LEMMA StepKeeps ==
    ASSUME Typed, NEW t \in Threads, Step(t)
    PROVE  /\ manifest' = manifest /\ order' = order /\ todo' = todo
           /\ stack[t] # <<>> /\ OthersStay(t)
           /\ (phase' = phase \/ (Unwind(t) /\ t = Main /\ phase = "stopAll" /\ phase' = "aborted"))
  <1>1. CASE Quiet(t)
    BY <1>1 DEF Quiet, OthersStay, Replaces, Makes
  <1>2. CASE ~Quiet(t) /\ (ActivatorStarts(t) \/ ActivatorStops(t) \/ UninstallRemoves(t))
    BY <1>2, ActivatorStartsEffect, ActivatorStopsEffect, UninstallRemovesEffect
    DEF Finishes, Replaces, subsystem
  <1>3. CASE Enter(t)
    BY <1>3, EnterEffect DEF Replaces, subsystem
  <1>4. CASE Commit(t) \/ Return(t)
    BY <1>4, CommitEffect, ReturnEffect DEF Leaves, Replaces, subsystem
  <1>5. CASE Unwind(t)
    BY <1>5, UnwindEffect DEF Leaves
  <1>6. QED
    BY <1>1, <1>2, <1>3, <1>4, <1>5, StepEffect

\* The main thread is in one call, in the shutdown.
LEMMA OneCall ==
    ASSUME OInv, Sorted, phase = "stopAll", stack[Main] # <<>>
    PROVE  /\ Len(stack[Main]) = 1 /\ DOMAIN stack[Main] = {1}
           /\ Top(Main) = stack[Main][1]
  <1> DEFINE n == Len(stack[Main])
  <1>1. n \in Nat /\ n > 0 /\ DOMAIN stack[Main] = 1 .. n
    BY StackFacts DEF OInv, Inv, BInv, Threads
  <1>2. n <= 1
    BY DEF Sorted, Phases
  <1>3. Top(Main) = stack[Main][n]
    BY DEF Top
  <1> HIDE DEF n
  <1>4. n = 1
    BY <1>1, <1>2
  <1>5. DOMAIN stack[Main] = {1}
    BY <1>1, <1>4
  <1>6. QED
    BY <1>3, <1>4, <1>5 DEF n

LEMMA SortedReplaces ==
    ASSUME OInv, Sorted, [Next]_vars, Admissible \subseteq Operations, disturbed \subseteq disturbed',
           phase = "stopAll", phase' = phase, manifest' = manifest, order' = order, todo' = todo,
           stack[Main] # <<>>, NEW c, Replaces(Main, c), c.op = Top(Main).op, c.bundle = Top(Main).bundle
    PROVE  Sorted'
  <1>1. Main \in Threads /\ Typed
    BY DEF Threads, OInv, Inv, BInv
  <1>2. Len(stack[Main]) = 1 /\ 1 \in DOMAIN stack[Main] /\ DOMAIN stack[Main] = {1}
    BY OneCall
  <1>3. stack'[Main][1] = c /\ stack'[Main] # <<>> /\ Len(stack'[Main]) = 1 /\ DOMAIN stack'[Main] = {1}
    BY <1>2 DEF Replaces
  <1>4. c.op = stack[Main][1].op /\ c.bundle = stack[Main][1].bundle
    BY <1>2 DEF Top
  <1>5. Phases'
    BY <1>2, <1>3, <1>4 DEF Sorted, Phases
  <1>6. \A b : Current(b)' <=> Current(b)
    BY <1>3, <1>4 DEF Current
  <1>7. \A b \in Bundles \ disturbed : running'[b] => running[b]
    BY NoneStarted
  <1>8. QED
    BY <1>5, <1>6, <1>7, PlacedSame

LEMMA SortedSame ==
    ASSUME OInv, Sorted, [Next]_vars, Admissible \subseteq Operations, disturbed \subseteq disturbed',
           phase' = phase, manifest' = manifest, order' = order, todo' = todo,
           stack'[Main] = stack[Main]
    PROVE  Sorted'
  <1>1. Phases' /\ \A b : Current(b)' <=> Current(b)
    BY DEF Sorted, Phases, Current
  <1>2. phase \in {"sort", "stopAll"} => \A b \in Bundles \ disturbed : running'[b] => running[b]
    BY NoneStarted
  <1>3. QED
    BY <1>1, <1>2, PlacedSame

\* The main thread returns from the call that stops a bundle.
LEMMA SortedReturn ==
    ASSUME OInv, Sorted, [Next]_vars, Admissible \subseteq Operations, disturbed \subseteq disturbed',
           phase = "stopAll", Return(Main)
    PROVE  Sorted'
  <1>1. Main \in Threads /\ Typed
    BY DEF Threads, OInv, Inv, BInv
  <1>2. /\ stack[Main] # <<>> /\ Top(Main).pc = "return" /\ Top(Main).old = None /\ Leaves(Main)
        /\ UNCHANGED <<manifest, running, phase, todo, order>>
    BY <1>1, ReturnEffect DEF loader, subsystem
  <1>3. Len(stack[Main]) = 1 /\ 1 \in DOMAIN stack[Main] /\ Top(Main) = stack[Main][1]
    BY <1>2, OneCall
  <1>4. Top(Main).op = "stop"
    BY <1>3 DEF Sorted, Phases
  <1>5. Len(stack'[Main]) = 0 /\ DOMAIN stack'[Main] = {}
    <2>1. Len(stack'[Main]) = 1 - 1 /\ DOMAIN stack'[Main] = 1 .. 1 - 1
      BY <1>2, <1>3 DEF Leaves
    <2>2. QED
      BY <2>1
  <1>6. stack'[Main] = <<>>
    <2>1. stack'[Main] \in Seq(CallRecord)
      BY <1>1, NextInv DEF OInv, Inv, BInv, Typed
    <2>2. QED
      BY <1>5, <2>1, EmptySeq
  <1>7. Phases'
    BY <1>2, <1>5 DEF Sorted, Phases
  <1>8. Distinct'
    BY <1>2, <1>6 DEF Sorted, Distinct, Current
  <1>9. ASSUME NEW b \in Bundles \ disturbed', running'[b]
        PROVE  Placed(b)'
    <2>1. Placed(b) /\ running[b]
      BY <1>2, <1>9 DEF Sorted
    <2>2. ~Current(b)
      <3> SUFFICES ASSUME Current(b)
                   PROVE  FALSE
        OBVIOUS
      <3>1. b = Top(Main).bundle
        BY <1>3 DEF Current
      <3>2. Owns(Top(Main)) /\ IsCall(Top(Main)) /\ (IsActive(b) \/ Runs(Top(Main)))
        BY <1>1, <1>2, <1>4, <2>1, <3>1, AloneFacts
      <3>3. state[b] = "resolved"
        BY <1>2, <1>4, <3>1, <3>2 DEF Owns, Outcome
      <3>4. QED
        BY <1>2, <1>4, <3>2, <3>3 DEF IsActive, Runs
    <2>3. QED
      BY <1>2, <2>1, <2>2 DEF Placed, InOrder, Later, Required
  <1>10. QED
    BY <1>7, <1>8, <1>9 DEF Sorted

LEMMA SortedStep ==
    ASSUME OInv, Sorted, [Next]_vars, Admissible \subseteq Operations, disturbed \subseteq disturbed',
           NEW t \in Threads, Step(t)
    PROVE  Sorted'
  <1>1. Typed /\ Main \in Threads
    BY DEF Threads, OInv, Inv, BInv
  <1>2. /\ manifest' = manifest /\ order' = order /\ todo' = todo
        /\ stack[t] # <<>> /\ OthersStay(t)
        /\ (phase' = phase \/ (Unwind(t) /\ t = Main /\ phase = "stopAll" /\ phase' = "aborted"))
    BY <1>1, StepKeeps
  <1>3. CASE t # Main
    BY <1>1, <1>2, <1>3, SortedSame DEF OthersStay
  <1>4. CASE t = Main /\ phase # "stopAll"
    BY <1>2, <1>4 DEF Sorted, Phases
  <1>5. CASE phase' = "aborted"
    BY <1>5 DEF Sorted, Phases
  <1>6. CASE t = Main /\ phase = "stopAll" /\ phase' = phase
    <2>1. Top(t).op = "stop"
      BY <1>1, <1>2, <1>6, StackFacts DEF Sorted, Phases, Top
    <2>2. CASE Quiet(t)
      <3>1. stack' = stack \/ \E c : Replaces(t, c) /\ GoesOn(t, c)
        BY <2>1, <2>2 DEF Quiet
      <3>2. QED
        BY <1>2, <1>6, <3>1, SortedSame, SortedReplaces DEF GoesOn
    <2>3. CASE ~Quiet(t) /\ (ActivatorStarts(t) \/ ActivatorStops(t) \/ UninstallRemoves(t))
      <3>1. Finishes(t)
        BY <1>1, <2>3, ActivatorStartsEffect, ActivatorStopsEffect, UninstallRemovesEffect
      <3>2. QED
        BY <1>2, <1>6, <3>1, SortedReplaces DEF Finishes
    <2>4. CASE Enter(t)
      BY <1>1, <1>2, <1>6, <2>4, EnterEffect, SortedReplaces
    <2>5. CASE Commit(t)
      <3>1. PICK c : Replaces(t, c) /\ c.op = Top(t).op /\ c.bundle = Top(t).bundle
        BY <1>1, <2>1, <2>5, CommitEffect
      <3>2. QED
        BY <1>2, <1>6, <3>1, SortedReplaces
    <2>6. CASE Return(t)
      BY <1>6, <2>6, SortedReturn
    <2>7. CASE Unwind(t)
      BY <1>1, <1>6, <2>7, UnwindEffect
    <2>8. QED
      BY <1>1, <2>2, <2>3, <2>4, <2>5, <2>6, <2>7, StepEffect
  <1>7. QED
    BY <1>2, <1>3, <1>4, <1>5, <1>6

LEMMA PrependFacts ==
    ASSUME NEW S, NEW s \in Seq(S), NEW b \in S, NEW q, q = <<b>> \o s
    PROVE  /\ 1 \in DOMAIN q /\ q[1] = b
           /\ \A i \in DOMAIN s : i \in Nat /\ i >= 1 /\ i + 1 \in DOMAIN q /\ q[i + 1] = s[i]
           /\ \A i \in DOMAIN q : i \in Nat /\ (i = 1 \/ (i > 1 /\ i - 1 \in DOMAIN s /\ q[i] = s[i - 1]))
  <1> DEFINE n == Len(s)
  <1>1. n \in Nat /\ DOMAIN s = 1 .. n
    BY LenProperties
  <1>2. <<b>> \in Seq(S) /\ Len(<<b>>) = 1 /\ <<b>>[1] = b
    OBVIOUS
  <1>3. q \in Seq(S) /\ Len(q) = 1 + n
        /\ \A i \in 1 .. 1 + n : q[i] = IF i <= 1 THEN <<b>>[i] ELSE s[i - 1]
    BY <1>2, ConcatProperties
  <1>4. DOMAIN q = 1 .. 1 + n
    BY <1>3, LenProperties
  <1> HIDE DEF n
  <1>5. q[1] = b /\ 1 \in DOMAIN q
    BY <1>1, <1>2, <1>3, <1>4
  <1>6. \A i \in DOMAIN s : i \in Nat /\ i >= 1 /\ i + 1 \in 1 .. 1 + n /\ ~(i + 1 <= 1) /\ (i + 1) - 1 = i
    BY <1>1
  <1>7. \A i \in DOMAIN s : q[i + 1] = s[i]
    BY <1>3, <1>6
  <1>8. \A i \in DOMAIN q : i \in Nat /\ (i = 1 \/ (i > 1 /\ ~(i <= 1) /\ i - 1 \in DOMAIN s))
    BY <1>1, <1>4
  <1>9. QED
    BY <1>3, <1>4, <1>5, <1>6, <1>7, <1>8

LEMMA TailFacts ==
    ASSUME NEW S, NEW s \in Seq(S), s # <<>>, NEW q, q = Tail(s)
    PROVE  /\ 1 \in DOMAIN s /\ Head(s) = s[1]
           /\ \A i \in DOMAIN q : i \in Nat /\ i >= 1 /\ i + 1 \in DOMAIN s /\ q[i] = s[i + 1]
           /\ \A i \in DOMAIN s : i \in Nat /\ (i = 1 \/ (i > 1 /\ i - 1 \in DOMAIN q /\ s[i] = q[i - 1]))
  <1> DEFINE n == Len(s)
  <1>1. n \in Nat /\ n > 0 /\ DOMAIN s = 1 .. n
    BY LenProperties, EmptySeq
  <1>2. q \in Seq(S) /\ Len(q) = n - 1 /\ \A i \in 1 .. n - 1 : q[i] = s[i + 1]
    BY HeadTailProperties
  <1>3. DOMAIN q = 1 .. n - 1
    BY <1>2, LenProperties
  <1>4. Head(s) = s[1]
    OBVIOUS
  <1> HIDE DEF n
  <1>5. \A i \in DOMAIN q : i \in Nat /\ i >= 1 /\ i + 1 \in DOMAIN s
    BY <1>1, <1>3
  <1>6. \A i \in DOMAIN s : i \in Nat /\ (i = 1 \/ (i > 1 /\ i - 1 \in 1 .. n - 1 /\ (i - 1) + 1 = i))
    BY <1>1
  <1>7. 1 \in DOMAIN s
    BY <1>1
  <1>8. QED
    BY <1>2, <1>3, <1>4, <1>5, <1>6, <1>7

\* sortBundles() puts a bundle before those it requires.
LEMMA SortedPrepends ==
    ASSUME OInv, Sorted, disturbed \subseteq disturbed', phase = "sort", phase' = phase,
           manifest' = manifest, running' = running, stack' = stack,
           NEW c \in todo, IsResolved(c) => \A d \in Required(c) : InOrder(d),
           todo' = todo \ {c}, order' = <<c>> \o order
    PROVE  Sorted'
  <1>1. order \in Seq(Bundles) /\ c \in Bundles
    BY DEF OInv, Inv, BInv, Typed
  <1>2. /\ 1 \in DOMAIN order' /\ order'[1] = c
        /\ \A i \in DOMAIN order :
              i \in Nat /\ i >= 1 /\ i + 1 \in DOMAIN order' /\ order'[i + 1] = order[i]
        /\ \A i \in DOMAIN order' :
              i \in Nat /\ (i = 1 \/ (i > 1 /\ i - 1 \in DOMAIN order /\ order'[i] = order[i - 1]))
    BY <1>1, PrependFacts
  <1>3. stack[Main] = <<>> /\ Distinct
    BY DEF Sorted, Phases
  <1>4. \A i \in DOMAIN order : order[i] # c
    BY <1>3 DEF Distinct
  <1>5. Phases'
    BY <1>3 DEF Sorted, Phases
  <1>6. Distinct'
    <2>1. ASSUME NEW i \in DOMAIN order', NEW j \in DOMAIN order', order'[i] = order'[j]
          PROVE  i = j
      <3>1. CASE i = 1 \/ j = 1
        BY <1>2, <1>4, <2>1, <3>1
      <3>2. CASE i # 1 /\ j # 1
        <4>1. i - 1 = j - 1 /\ i \in Nat /\ j \in Nat
          BY <1>2, <1>3, <2>1, <3>2 DEF Distinct
        <4>2. QED
          BY <4>1
      <3>3. QED
        BY <3>1, <3>2
    <2>2. ASSUME NEW i \in DOMAIN order'
          PROVE  order'[i] \notin todo'
      BY <1>2, <1>3 DEF Distinct
    <2>3. \A b : ~Current(b)'
      BY <1>3 DEF Current
    <2>4. QED
      BY <2>1, <2>2, <2>3 DEF Distinct
  <1>7. ASSUME NEW b \in Bundles \ disturbed', running'[b]
        PROVE  Placed(b)'
    <2>1. Placed(b) /\ running[b] /\ b \notin disturbed
      BY <1>7 DEF Sorted
    <2>2. CASE b \in todo /\ b # c
      BY <2>2 DEF Placed
    <2>3. CASE b = c
      <3>1. IsResolved(b)
        BY <2>1, RunningFacts DEF IsResolved
      <3>2. ASSUME NEW d \in Required(b)
            PROVE  Later(b, d)'
        <4>1. PICK j \in DOMAIN order : order[j] = d
          BY <2>3, <3>1, <3>2 DEF InOrder
        <4>2. j + 1 \in DOMAIN order' /\ order'[j + 1] = d /\ j \in Nat /\ j >= 1
          BY <1>2, <4>1
        <4>3. \A i \in DOMAIN order' : order'[i] = b => i = 1
          BY <1>2, <1>4, <2>3
        <4>4. 1 < j + 1
          BY <4>2
        <4>5. QED
          BY <4>2, <4>3, <4>4 DEF Later
      <3>3. InOrder(b)'
        BY <1>2, <2>3 DEF InOrder
      <3>4. QED
        BY <3>2, <3>3 DEF Placed, Required
    <2>4. CASE b \notin todo
      <3>1. PICK k \in DOMAIN order : order[k] = b
        BY <1>3, <2>1, <2>4 DEF Placed, InOrder, Current
      <3>2. InOrder(b)'
        BY <1>2, <3>1 DEF InOrder
      <3>3. ASSUME NEW d \in Required(b)
            PROVE  Later(b, d)'
        <4>1. PICK j \in DOMAIN order : order[j] = d /\ \A i \in DOMAIN order : order[i] = b => i < j
          BY <2>1, <2>4, <3>3 DEF Placed, Later
        <4>2. j + 1 \in DOMAIN order' /\ order'[j + 1] = d /\ j \in Nat /\ j >= 1
          BY <1>2, <4>1
        <4>3. ASSUME NEW i \in DOMAIN order', order'[i] = b
              PROVE  i < j + 1
          <5>1. CASE i = 1
            BY <4>2, <5>1
          <5>2. CASE i # 1
            <6>1. i \in Nat /\ i - 1 < j
              BY <1>2, <4>1, <4>3, <5>2
            <6>2. QED
              BY <4>2, <6>1
          <5>3. QED
            BY <5>1, <5>2
        <4>4. QED
          BY <4>2, <4>3 DEF Later
      <3>4. QED
        BY <3>2, <3>3 DEF Placed, Required
    <2>5. QED
      BY <2>2, <2>3, <2>4
  <1>8. QED
    BY <1>5, <1>6, <1>7 DEF Sorted

\* stopAllBundles() comes to the next bundle, and stops it if it is active.
LEMMA SortedTail ==
    ASSUME OInv, Sorted, disturbed \subseteq disturbed', phase = "stopAll", phase' = phase,
           manifest' = manifest, running' = running, todo' = todo,
           stack[Main] = <<>>, order # <<>>, order' = Tail(order),
           IF IsActive(Head(order)) THEN Push(Main, Call("stop", Head(order))) ELSE stack' = stack
    PROVE  Sorted'
  <1> DEFINE h == order[1]
  <1>1. order \in Seq(Bundles) /\ Typed /\ Main \in Threads
    BY DEF OInv, Inv, BInv, Typed, Threads
  <1>2. /\ 1 \in DOMAIN order /\ Head(order) = h
        /\ \A i \in DOMAIN order' :
              i \in Nat /\ i >= 1 /\ i + 1 \in DOMAIN order /\ order'[i] = order[i + 1]
        /\ \A i \in DOMAIN order :
              i \in Nat /\ (i = 1 \/ (i > 1 /\ i - 1 \in DOMAIN order' /\ order[i] = order'[i - 1]))
    BY <1>1, TailFacts
  <1>3. Distinct /\ todo = {}
    BY DEF Sorted, Phases
  <1>4. \A i \in DOMAIN order' : order'[i] # h
    <2> SUFFICES ASSUME NEW i \in DOMAIN order', order'[i] = h
                 PROVE  FALSE
      OBVIOUS
    <2>1. i + 1 = 1 /\ i \in Nat /\ i >= 1
      BY <1>2, <1>3 DEF Distinct
    <2>2. QED
      BY <2>1
  <1>5. /\ IsActive(h) => Makes(Main, Call("stop", h))
        /\ ~IsActive(h) => stack' = stack
    BY <1>1, <1>2, MakesFacts
  <1>6. Phases' /\ \A b : Current(b)' <=> IsActive(h) /\ b = h
    <2>1. CASE IsActive(h)
      <3>1. Len(stack[Main]) = 0
        BY <1>1, StackFacts
      <3>2. DOMAIN stack'[Main] = 1 .. 0 + 1 /\ Len(stack'[Main]) = 0 + 1 /\ stack'[Main][0 + 1] = Call("stop", h)
        BY <1>5, <2>1, <3>1 DEF Makes
      <3>3. DOMAIN stack'[Main] = {1} /\ Len(stack'[Main]) = 1 /\ stack'[Main][1] = Call("stop", h)
        BY <3>2
      <3>4. stack'[Main] # <<>>
        BY <3>3
      <3>5. \A b : Current(b)' <=> b = h
        BY <3>3, <3>4 DEF Current, Call
      <3>6. Phases'
        BY <1>3, <3>3 DEF Sorted, Phases, Call
      <3>7. QED
        BY <2>1, <3>5, <3>6
    <2>2. CASE ~IsActive(h)
      <3>1. \A b : ~Current(b)'
        BY <1>5, <2>2 DEF Current
      <3>2. Phases'
        BY <1>5, <2>2 DEF Sorted, Phases
      <3>3. QED
        BY <2>2, <3>1, <3>2
    <2>3. QED
      BY <2>1, <2>2
  <1> HIDE DEF h
  <1>7. Distinct'
    <2>1. ASSUME NEW i \in DOMAIN order', NEW j \in DOMAIN order', order'[i] = order'[j]
          PROVE  i = j
      <3>1. i + 1 = j + 1 /\ i \in Nat /\ j \in Nat
        BY <1>2, <1>3, <2>1 DEF Distinct
      <3>2. QED
        BY <3>1
    <2>2. todo' = {}
      BY <1>3
    <2>3. \A b : Current(b)' => b = h
      BY <1>6
    <2>4. QED
      BY <1>4, <2>1, <2>2, <2>3 DEF Distinct
  <1>8. ASSUME NEW b \in Bundles \ disturbed', running'[b]
        PROVE  Placed(b)'
    <2>1. Placed(b) /\ running[b] /\ b \notin disturbed
      BY <1>8 DEF Sorted
    <2>2. IsActive(b)
      BY <2>1, ActiveAtShutdown
    <2>3. PICK k \in DOMAIN order : order[k] = b
      BY <1>3, <2>1 DEF Placed, InOrder, Current
    <2>4. InOrder(b)' \/ Current(b)'
      <3>1. CASE k = 1
        BY <1>6, <2>2, <2>3, <3>1 DEF h
      <3>2. CASE k # 1
        BY <1>2, <2>3, <3>2 DEF InOrder
      <3>3. QED
        BY <3>1, <3>2
    <2>5. ASSUME NEW d \in Required(b)
          PROVE  Later(b, d)'
      <3>1. PICK j \in DOMAIN order : order[j] = d /\ \A i \in DOMAIN order : order[i] = b => i < j
        BY <1>3, <2>1, <2>5 DEF Placed, Later
      <3>2. k < j /\ k \in Nat /\ k >= 1 /\ j \in Nat
        BY <1>2, <2>3, <3>1
      <3>3. j # 1
        BY <3>2
      <3>4. j - 1 \in DOMAIN order' /\ order'[j - 1] = d
        BY <1>2, <3>1, <3>3
      <3>5. ASSUME NEW i \in DOMAIN order', order'[i] = b
            PROVE  i < j - 1
        <4>1. i + 1 < j /\ i \in Nat
          BY <1>2, <3>1, <3>5
        <4>2. QED
          BY <3>2, <4>1
      <3>6. QED
        BY <3>4, <3>5 DEF Later
    <2>6. QED
      BY <2>4, <2>5 DEF Placed, Required
  <1>9. QED
    BY <1>6, <1>7, <1>8 DEF Sorted

LEMMA SortedMain ==
    ASSUME OInv, Sorted, MainLoop, disturbed \subseteq disturbed'
    PROVE  Sorted'
  <1>1. Typed /\ Main \in Threads
    BY DEF OInv, Inv, BInv, Threads
  <1>2. manifest' = manifest /\ running' = running /\ throwing' = throwing
    BY <1>1, MainLoopEffect DEF Begins, loader
  <1>3. CASE phase' \in {"resolveAll", "startAll"} /\ order' = order
             /\ phase \in {"loaded", "resolveAll", "startAll"}
    BY <1>3 DEF Sorted, Phases
  <1>4. CASE LoopBegins("startAll", "sort")
    <2>1. /\ stack[Main] = <<>> /\ stack' = stack /\ order' = <<>>
          /\ phase' = "sort" /\ todo' = bundles
      BY <1>4 DEF LoopBegins, Idle, Sorted, Phases
    <2>2. DOMAIN order' = {}
      BY <2>1
    <2>3. Phases' /\ Distinct'
      BY <2>1, <2>2 DEF Phases, Distinct
    <2>4. ASSUME NEW b \in Bundles \ disturbed', running'[b]
          PROVE  Placed(b)'
      <3>1. b \in bundles
        BY <1>2, <2>4, RunningFacts
      <3>2. QED
        BY <2>1, <3>1 DEF Placed
    <2>5. QED
      BY <2>3, <2>4 DEF Sorted
  <1>5. ASSUME phase = "sort", phase' = phase, stack' = stack,
               NEW c \in Lowest({a \in todo : IsResolved(a) => Required(a) \subseteq {order[i] : i \in DOMAIN order}}),
               todo' = todo \ {c}, order' = <<c>> \o order
        PROVE  Sorted'
    <2>1. c \in todo /\ (IsResolved(c) => Required(c) \subseteq {order[i] : i \in DOMAIN order})
      BY <1>5 DEF Lowest
    <2>2. IsResolved(c) => \A d \in Required(c) : InOrder(d)
      BY <2>1 DEF InOrder
    <2>3. QED
      BY <1>2, <1>5, <2>1, <2>2, SortedPrepends
  <1>6. CASE phase = "sort" /\ todo = {} /\ phase' = "stopAll" /\ UNCHANGED <<stack, todo, order>>
    <2>1. stack[Main] = <<>> /\ Distinct
      BY <1>6 DEF Sorted, Phases
    <2>2. Len(stack[Main]) = 0 /\ DOMAIN stack[Main] = {}
      BY <2>1
    <2>3. Phases'
      BY <1>6, <2>2 DEF Phases
    <2>4. Distinct'
      BY <1>6, <2>1 DEF Distinct, Current
    <2>5. ASSUME NEW b \in Bundles \ disturbed', running'[b]
          PROVE  Placed(b)'
      <3>1. Placed(b)
        BY <1>2, <1>6, <2>5 DEF Sorted
      <3>2. QED
        BY <1>2, <1>6, <3>1 DEF Placed, InOrder, Current, Later, Required
    <2>6. QED
      BY <2>3, <2>4, <2>5 DEF Sorted
  <1>7. CASE /\ phase = "stopAll" /\ phase' = phase /\ todo' = todo /\ stack[Main] = <<>>
             /\ order # <<>> /\ order' = Tail(order)
             /\ IF IsActive(Head(order)) THEN Push(Main, Call("stop", Head(order))) ELSE stack' = stack
    BY <1>2, <1>7, SortedTail
  <1>8. CASE phase' = "stopped" /\ stack[Main] = <<>> /\ stack' = stack
    BY <1>8 DEF Sorted, Phases
  <1>9. CASE ResolveAllBundles
    BY <1>3, <1>9 DEF ResolveAllBundles, LoopBegins
  <1>10. CASE StartAllBundles
    BY <1>3, <1>10 DEF StartAllBundles, LoopBegins
  <1>11. CASE SortBundles
    BY <1>4, <1>5, <1>11 DEF SortBundles
  <1>12. CASE StopAllBundles
    BY <1>6, <1>7, <1>8, <1>12 DEF StopAllBundles, Idle
  <1>13. QED
    BY <1>9, <1>10, <1>11, <1>12 DEF MainLoop

LEMMA SortedNext ==
    ASSUME OInv, Sorted, [Next]_vars, Admissible \subseteq Operations
    PROVE  Sorted'
  <1>1. Typed
    BY DEF OInv, Inv, BInv
  <1>2. disturbed \subseteq disturbed'
    BY DEF Next, ThreadRuns, MainRuns, Tracked, vars
  <1>3. CASE UNCHANGED vars
    BY <1>2, <1>3, SortedSame DEF vars, subsystem
  <1>4. ASSUME NEW t \in Threads, Step(t)
        PROVE  Sorted'
    BY <1>2, <1>4, SortedStep
  <1>5. CASE MainLoop
    BY <1>2, <1>5, SortedMain
  <1>6. ASSUME NEW t \in Admins, NEW op \in Admissible, NEW b \in Bundles, PerformAction(t, op, b)
        PROVE  Sorted'
    <2>1. Begins /\ UNCHANGED subsystem /\ Makes(t, Call(op, b))
      BY <1>1, <1>6, PerformActionEffect
    <2>2. Main \in Threads /\ t # Main
      BY BundleAssumption DEF Threads
    <2>3. stack'[Main] = stack[Main]
      BY <2>1, <2>2 DEF Makes, OthersStay
    <2>4. QED
      BY <1>2, <2>1, <2>3, SortedSame DEF Begins, subsystem
  <1>7. QED
    BY <1>3, <1>4, <1>5, <1>6 DEF Next, ThreadRuns, MainRuns

LEMMA SortedHolds == Spec => []Sorted
  <1>1. Admissible \subseteq Operations
    BY BundleAssumption
  <1>2. Init => Sorted
    BY DEF Init, Sorted, Phases
  <1>3. OInv /\ Sorted /\ [Next]_vars => Sorted'
    BY <1>1, SortedNext
  <1>4. QED
    BY <1>2, <1>3, OInvHolds, PTL DEF Spec

\* At shutdown the activators of all bundles that require a bundle have been
\* stopped when its own is, whatever throws and whatever administrators do
\* with other bundles in the meantime: sortBundles() and stopAllBundles().
THEOREM StopOrderHolds == Spec => StopOrder
  <1>1. OInv /\ Sorted /\ [Next]_vars =>
            [phase = "stopAll" =>
                \A d \in Bundles \ disturbed : running[d] /\ ~running'[d] =>
                    \A b \in Bundles \ disturbed : d \in Required(b) => ~running[b]]_vars
    <2> SUFFICES ASSUME OInv, Sorted, [Next]_vars, phase = "stopAll",
                        NEW d \in Bundles \ disturbed, running[d], ~running'[d],
                        NEW b \in Bundles \ disturbed, d \in Required(b), running[b]
                 PROVE  FALSE
      OBVIOUS
    <2>1. Typed /\ Admissible \subseteq Operations
      BY BundleAssumption DEF OInv, Inv, BInv
    <2>2. PICK t \in Threads : stack[t] # <<>> /\ Top(t).bundle = d
      BY <2>1, RunningChanges
    <2>3. Len(stack[t]) \in DOMAIN stack[t] /\ stack[t][Len(stack[t])] = Top(t)
      BY <2>1, <2>2, StackFacts DEF Top
    <2>4. t = Main
      BY <2>2, <2>3, Unshared DEF OInv
    <2>5. Current(d)
      BY <2>2, <2>4, OneCall DEF Current
    <2>6. Later(b, d)
      BY DEF Sorted, Phases, Placed
    <2>7. QED
      BY <2>5, <2>6 DEF Sorted, Distinct, Later
  <1>2. QED
    BY <1>1, OInvHolds, SortedHolds, PTL DEF Spec, StopOrder

-----------------------------------------------------------------------------
(* The bundles go through BundleLifeCycle.                                   *)

\* A step at bundle b: the others stay as they are, and b makes a move of its
\* life cycle, if only one thread works on it.
LivesOn(b) ==
    /\ \A d \in Bundles \ {b} : LifeCycle!Stays(d)
    /\ b \in disturbed \/ LifeCycle!Stays(b) \/ LifeCycle!Lives(b)

LEMMA LivesOnSame ==
    ASSUME state' = state, running' = running, NEW b \in Bundles
    PROVE  LivesOn(b)
  BY DEF LivesOn, LifeCycle!Stays

\* A step that writes the state of b.
LEMMA LivesOnWrite ==
    ASSUME Typed, NEW b \in Bundles, NEW s, state' = [state EXCEPT ![b] = s], running' = running,
           b \notin disturbed =>
               (LifeCycle!Moves(b, state[b], s) => LifeCycle!Lives(b) \/ LifeCycle!Stays(b))
    PROVE  LivesOn(b)
  <1>1. state'[b] = s /\ \A d \in Bundles \ {b} : state'[d] = state[d]
    BY DEF Typed
  <1>2. LifeCycle!Moves(b, state[b], s)
    BY <1>1 DEF LifeCycle!Moves
  <1>3. QED
    BY <1>1, <1>2 DEF LivesOn, LifeCycle!Stays

\* A step that writes whether the activator of b runs.
LEMMA LivesOnRuns ==
    ASSUME Typed, NEW b \in Bundles, NEW r \in BOOLEAN, running' = [running EXCEPT ![b] = r],
           state' = state,
           b \notin disturbed => r = running[b] \/ (running'[b] = r => LifeCycle!Lives(b))
    PROVE  LivesOn(b)
  <1>1. running'[b] = r /\ \A d \in Bundles \ {b} : running'[d] = running[d]
    BY DEF Typed
  <1>2. QED
    BY <1>1 DEF LivesOn, LifeCycle!Stays

LEMMA LivesActivatorStarts ==
    ASSUME OInv, NEW t \in Threads, ActivatorStarts(t), ~Quiet(t)
    PROVE  \E b \in Bundles : LivesOn(b)
  <1> DEFINE b == Top(t).bundle
  <1>1. Typed
    BY DEF OInv, Inv, BInv
  <1>2. /\ stack[t] # <<>> /\ Top(t).op = "start" /\ Top(t).pc = "activate"
        /\ running' = [running EXCEPT ![b] = TRUE] /\ state' = state
    BY <1>1, ActivatorStartsEffect DEF Finishes
  <1>3. b \in Bundles
    BY <1>1, <1>2, StackFacts DEF Top, CallRecord
  <1>4. ASSUME b \notin disturbed
        PROVE  ~running[b] /\ state[b] = "starting"
    <2>1. Owns(Top(t)) /\ IsCall(Top(t)) /\ (running[b] => IsActive(b) \/ Runs(Top(t)))
      BY <1>2, <1>3, <1>4, AloneFacts
    <2>2. state[b] = "starting"
      BY <1>2, <2>1 DEF IsCall, Owns
    <2>3. QED
      BY <1>2, <2>1, <2>2 DEF Runs, IsActive
  <1>5. b \notin disturbed => (running'[b] => LifeCycle!Lives(b))
    BY <1>2, <1>4 DEF LifeCycle!Lives, LifeCycle!ActivatorStarts
  <1>6. LivesOn(b)
    BY <1>1, <1>2, <1>3, <1>5, LivesOnRuns
  <1>7. QED
    BY <1>3, <1>6

LEMMA LivesActivatorStops ==
    ASSUME OInv, NEW t \in Threads, ActivatorStops(t), ~Quiet(t)
    PROVE  \E b \in Bundles : LivesOn(b)
  <1> DEFINE b == Top(t).bundle
  <1>1. Typed
    BY DEF OInv, Inv, BInv
  <1>2. /\ stack[t] # <<>> /\ Top(t).op = "stop" /\ Top(t).pc = "deactivate" /\ state' = state
        /\ running' = [running EXCEPT ![b] = FALSE] \/ running' = running
    BY <1>1, ActivatorStopsEffect DEF Finishes
  <1>3. b \in Bundles
    BY <1>1, <1>2, StackFacts DEF Top, CallRecord
  <1>4. ASSUME b \notin disturbed
        PROVE  state[b] = "stopping"
    <2>1. Owns(Top(t)) /\ IsCall(Top(t))
      BY <1>2, <1>3, <1>4, AloneFacts
    <2>2. QED
      BY <1>2, <2>1 DEF IsCall, Owns
  <1>5. b \notin disturbed => FALSE = running[b] \/ (running'[b] = FALSE => LifeCycle!Lives(b))
    <2>1. running[b] \in BOOLEAN
      BY <1>1, <1>3 DEF Typed
    <2>2. QED
      BY <1>2, <1>4, <2>1 DEF LifeCycle!Lives, LifeCycle!ActivatorStops
  <1>6. LivesOn(b)
    BY <1>1, <1>2, <1>3, <1>5, LivesOnRuns, LivesOnSame
  <1>7. QED
    BY <1>3, <1>6

LEMMA LivesEnter ==
    ASSUME OInv, NEW t \in Threads, Enter(t)
    PROVE  \E b \in Bundles : LivesOn(b)
  <1> DEFINE b == Top(t).bundle
             s == IF Top(t).op = "start" THEN "starting" ELSE "stopping"
  <1>1. Typed
    BY DEF OInv, Inv, BInv
  <1>2. /\ stack[t] # <<>> /\ Top(t).op \in {"start", "stop"} /\ Top(t).pc = "enter"
        /\ state' = [state EXCEPT ![b] = s] /\ running' = running
    BY <1>1, EnterEffect DEF loader
  <1>3. b \in Bundles
    BY <1>1, <1>2, StackFacts DEF Top, CallRecord
  <1>4. ASSUME b \notin disturbed, LifeCycle!Moves(b, state[b], s)
        PROVE  LifeCycle!Lives(b)
    <2>1. Owns(Top(t)) /\ (running[b] => IsActive(b) \/ Runs(Top(t))) /\ IsCall(Top(t))
      BY <1>2, <1>3, <1>4, AloneFacts
    <2>2. state[b] \in Requirement(Top(t).op)
      BY <1>2, <2>1 DEF Owns
    <2>3. CASE Top(t).op = "start"
      <3>1. state[b] = "resolved" /\ ~running[b]
        BY <1>2, <2>1, <2>2, <2>3 DEF Requirement, Runs, IsActive
      <3>2. QED
        BY <1>4, <2>3, <3>1 DEF LifeCycle!Lives, LifeCycle!Start
    <2>4. CASE Top(t).op = "stop"
      <3>1. state[b] = "active"
        BY <2>2, <2>4 DEF Requirement
      <3>2. QED
        BY <1>4, <2>4, <3>1 DEF LifeCycle!Lives, LifeCycle!Stop
    <2>5. QED
      BY <1>2, <2>3, <2>4
  <1> HIDE DEF s
  <1>5. LivesOn(b)
    BY <1>1, <1>2, <1>3, <1>4, LivesOnWrite
  <1>6. QED
    BY <1>3, <1>5

LEMMA LivesCommit ==
    ASSUME OInv, NEW t \in Threads, Commit(t)
    PROVE  \E b \in Bundles : LivesOn(b)
  <1> DEFINE b == Top(t).bundle
             s == Outcome(Top(t).op)
  <1>1. Typed
    BY DEF OInv, Inv, BInv
  <1>2. /\ stack[t] # <<>> /\ Top(t).pc = "commit"
        /\ state' = [state EXCEPT ![b] = s] /\ running' = running
    BY <1>1, CommitEffect DEF loader
  <1>3. b \in Bundles /\ Top(t).op \in Operations
    BY <1>1, <1>2, StackFacts DEF Top, CallRecord
  <1>4. ASSUME b \notin disturbed, LifeCycle!Moves(b, state[b], s)
        PROVE  LifeCycle!Lives(b) \/ LifeCycle!Stays(b)
    <2>1. Owns(Top(t)) /\ IsCall(Top(t))
      BY <1>2, <1>3, <1>4, AloneFacts
    <2>2. Top(t).op # "resolve" => (running[b] => IsActive(b) \/ Runs(Top(t)))
      BY <1>2, <1>3, <1>4, AloneFacts
    <2>3. CASE Top(t).op = "resolve"
      <3>1. state[b] \in {"installed", "resolved"} /\ s = "resolved"
        BY <1>2, <2>1, <2>3 DEF Owns, Outcome
      <3>2. QED
        BY <1>4, <3>1 DEF LifeCycle!Lives, LifeCycle!Resolve, LifeCycle!Stays, LifeCycle!Moves
    <2>4. CASE Top(t).op = "start"
      <3>1. state[b] = "starting" /\ s = "active"
        BY <1>2, <2>1, <2>4 DEF Owns, IsCall, Outcome
      <3>2. QED
        BY <1>4, <3>1 DEF LifeCycle!Lives, LifeCycle!Started
    <2>5. CASE Top(t).op = "stop"
      <3>1. state[b] = "stopping" /\ s = "resolved"
        BY <1>2, <2>1, <2>5 DEF Owns, IsCall, Outcome
      <3>2. ~running[b]
        BY <1>2, <2>2, <2>5, <3>1 DEF Runs, IsActive
      <3>3. QED
        BY <1>4, <3>1, <3>2 DEF LifeCycle!Lives, LifeCycle!Stopped
    <2>6. CASE Top(t).op = "uninstall"
      <3>1. state[b] \in {"installed", "resolved"} /\ s = "uninstalled"
        BY <1>2, <2>1, <2>6 DEF Owns, Outcome
      <3>2. ~running[b]
        BY <1>2, <2>2, <2>6, <3>1 DEF Runs, IsActive
      <3>3. QED
        BY <1>4, <3>1, <3>2 DEF LifeCycle!Lives, LifeCycle!Uninstall
    <2>7. QED
      BY <1>3, <2>3, <2>4, <2>5, <2>6 DEF Operations
  <1> HIDE DEF s
  <1>5. LivesOn(b)
    BY <1>1, <1>2, <1>3, <1>4, LivesOnWrite
  <1>6. QED
    BY <1>3, <1>5

\* The state of a bundle one thread works on is not changed.
LEMMA LivesReturn ==
    ASSUME OInv, NEW t \in Threads, Return(t)
    PROVE  \E b \in Bundles : LivesOn(b)
  <1> DEFINE b == Top(t).bundle
             s == Outcome(Top(t).op)
  <1>1. Typed
    BY DEF OInv, Inv, BInv
  <1>2. /\ stack[t] # <<>> /\ Top(t).pc = "return"
        /\ state' = [state EXCEPT ![b] = s] /\ running' = running
    BY <1>1, ReturnEffect DEF loader
  <1>3. b \in Bundles
    BY <1>1, <1>2, StackFacts DEF Top, CallRecord
  <1>4. ASSUME b \notin disturbed, LifeCycle!Moves(b, state[b], s)
        PROVE  LifeCycle!Stays(b)
    <2>1. state[b] = s
      BY <1>2, <1>3, <1>4, AloneFacts DEF Owns
    <2>2. QED
      BY <1>4, <2>1 DEF LifeCycle!Moves, LifeCycle!Stays
  <1> HIDE DEF s
  <1>5. LivesOn(b)
    BY <1>1, <1>2, <1>3, <1>4, LivesOnWrite
  <1>6. QED
    BY <1>3, <1>5

LEMMA LivesUnwind ==
    ASSUME OInv, NEW t \in Threads, Unwind(t)
    PROVE  \E b \in Bundles : LivesOn(b)
  <1> DEFINE b == Top(t).bundle
             s == Top(t).old
  <1>1. Typed
    BY DEF OInv, Inv, BInv
  <1>2. /\ stack[t] # <<>> /\ throwing[t] /\ running' = running
        /\ state' = IF s = None THEN state ELSE [state EXCEPT ![b] = s]
    BY <1>1, UnwindEffect
  <1>3. b \in Bundles
    BY <1>1, <1>2, StackFacts DEF Top, CallRecord
  <1>4. Top(t).pc \notin {"commit", "return"}
    BY <1>2 DEF OInv, Shaped
  <1>5. CASE s = None
    BY <1>2, <1>3, <1>5, LivesOnSame
  <1>6. ASSUME s # None, b \notin disturbed, LifeCycle!Moves(b, state[b], s)
        PROVE  LifeCycle!Lives(b)
    <2>1. Owns(Top(t)) /\ IsCall(Top(t))
      BY <1>2, <1>3, <1>6, AloneFacts
    <2>2. Top(t).op \in {"start", "stop"} /\ Top(t).pc # "check"
      BY <1>6, <2>1 DEF IsCall
    <2>3. running[b] => IsActive(b) \/ Runs(Top(t))
      BY <1>2, <1>3, <1>6, <2>2, AloneFacts
    <2>4. CASE Top(t).op = "start"
      <3>1. state[b] = "starting" /\ s = "resolved"
        BY <1>6, <2>1, <2>4 DEF Owns, Requirement
      <3>2. ~running[b]
        BY <1>4, <2>3, <2>4, <3>1 DEF Runs, IsActive
      <3>3. QED
        BY <1>6, <3>1, <3>2 DEF LifeCycle!Lives, LifeCycle!StartFails
    <2>5. CASE Top(t).op = "stop"
      <3>1. state[b] = "stopping" /\ s = "active"
        BY <1>6, <2>1, <2>5 DEF Owns, Requirement
      <3>2. QED
        BY <1>6, <3>1 DEF LifeCycle!Lives, LifeCycle!StopFails
    <2>6. QED
      BY <2>2, <2>4, <2>5
  <1>7. CASE s # None
    <2>1. state' = [state EXCEPT ![b] = s]
      BY <1>2, <1>7
    <2> HIDE DEF s
    <2>2. LivesOn(b)
      BY <1>1, <1>2, <1>3, <1>6, <1>7, <2>1, LivesOnWrite
    <2>3. QED
      BY <1>3, <2>2
  <1>8. QED
    BY <1>5, <1>7

\* The calls, failures and recursion of any number of threads make of a bundle,
\* as long as one thread works on it at a time, what Bundle.h says of it: each
\* step is a move of its life cycle or invisible in it.
THEOREM BundleImplementsLifeCycle == Spec => ImplementsLifeCycle
  <1>1. Init => LifeCycle!Init
    BY DEF Init, LifeCycle!Init
  <1>2. OInv /\ OInv' /\ [Next]_vars => [LifeCycle!Next]_LifeCycle!vars
    <2> SUFFICES ASSUME OInv, OInv', [Next]_vars
                 PROVE  [LifeCycle!Next]_LifeCycle!vars
      OBVIOUS
    <2>1. Typed /\ disturbed \subseteq Bundles /\ disturbed' \subseteq Bundles
      BY DEF OInv, Inv, BInv
    <2>2. CASE UNCHANGED vars
      BY <2>2 DEF vars, loader, LifeCycle!vars
    <2>3. CASE Next
      <3>1. disturbed \subseteq disturbed'
        BY <2>3 DEF Next, ThreadRuns, MainRuns, Tracked
      <3>2. ASSUME NEW b \in Bundles, LivesOn(b)
            PROVE  LifeCycle!Next
        BY <3>1, <3>2 DEF LivesOn, LifeCycle!Next
      <3>3. CASE Begins
        <4>1. state' = state /\ running' = running
          BY <3>3 DEF Begins, loader
        <4>2. CASE Bundles = {}
          BY <2>1, <4>1, <4>2 DEF LifeCycle!vars
        <4>3. CASE Bundles # {}
          BY <3>2, <4>1, <4>3, LivesOnSame
        <4>4. QED
          BY <4>2, <4>3
      <3>4. ASSUME NEW t \in Threads, Step(t)
            PROVE  \E b \in Bundles : LivesOn(b)
        <4>1. CASE Quiet(t) \/ UninstallRemoves(t)
          <5>1. stack[t] # <<>> /\ state' = state /\ running' = running
            BY <2>1, <4>1, UninstallRemovesEffect DEF Quiet, Finishes
          <5>2. Top(t).bundle \in Bundles
            BY <2>1, <5>1, StackFacts DEF Top, CallRecord
          <5>3. QED
            BY <5>1, <5>2, LivesOnSame
        <4>2. QED
          BY <2>1, <3>4, <4>1, StepEffect, LivesActivatorStarts, LivesActivatorStops, LivesEnter,
             LivesCommit, LivesReturn, LivesUnwind
      <3>5. Begins \/ \E t \in Threads : Step(t)
        BY <2>1, <2>3, BundleAssumption, MainLoopEffect, PerformActionEffect
           DEF Next, ThreadRuns, MainRuns
      <3>6. QED
        BY <3>2, <3>3, <3>4, <3>5
    <2>4. QED
      BY <2>2, <2>3
  <1>3. QED
    BY <1>1, <1>2, OInvHolds, PTL DEF Spec, ImplementsLifeCycle, LifeCycle!Spec
=============================================================================
