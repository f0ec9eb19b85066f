------------------------- MODULE BundleLoaderProofs -------------------------
(***************************************************************************)
(* Proofs about BundleLoader, for any bundles, manifests, administrators   *)
(* and number of calls and failures.  The inductive invariant is TypeOK,   *)
(* DependenciesResolved and CallsKnow.  What makes it inductive is that a  *)
(* required bundle, once resolved or gone, stays so (Steady): no call has  *)
(* to look again after another thread has run.                             *)
(***************************************************************************)
EXTENDS BundleLoader, SequenceTheorems, TLAPS

\* TypeOK but for the history variable, which follows the others.
Typed ==
    /\ manifest \in Manifests
    /\ state \in [Bundles -> BundleStates]
    /\ bundles \subseteq Bundles /\ resolving \subseteq Bundles
    /\ classLoader \in [Bundles -> {"null", "empty", "loaded"}] /\ activator \in [Bundles -> BOOLEAN]
    /\ running \in [Bundles -> BOOLEAN]
    /\ extensions \in [Bundles -> SUBSET Bundles]
    /\ stack \in [Threads -> Seq(CallRecord)]
    /\ \A t \in Threads : \A i \in DOMAIN stack[t] : IsCall(stack[t][i])
    /\ throwing \in [Threads -> BOOLEAN]
    /\ \A t \in Threads : throwing[t] => stack[t] # <<>>
    /\ phase \in {"loaded", "resolveAll", "startAll", "sort", "stopAll", "stopped", "aborted"}
    /\ todo \subseteq Bundles /\ order \in Seq(Bundles)

BInv == Typed /\ DependenciesResolved /\ CallsKnow

-----------------------------------------------------------------------------
(* Manifests. *)

\* The bundles a bundle requires are in a sequence.
LEMMA ManifestFacts ==
    ASSUME Typed, NEW b \in Bundles
    PROVE  /\ manifest[b].requires \in Seq(Bundles \cup {None})
           /\ manifest[b].extends \in Bundles \cup {None}
           /\ manifest[b].lazyStart \in BOOLEAN /\ manifest[b].hasActivator \in BOOLEAN
           /\ Len(manifest[b].requires) \in Nat
           /\ DOMAIN manifest[b].requires = 1 .. Len(manifest[b].requires)
  BY BundleAssumption, LenProperties DEF Typed, IsManifest

-----------------------------------------------------------------------------
(* The stacks. *)

\* The innermost call of a thread is a call, and what is known of calls is
\* known of it.
LEMMA TopFacts ==
    ASSUME BInv, NEW t \in Threads, stack[t] # <<>>
    PROVE  /\ Len(stack[t]) \in DOMAIN stack[t]
           /\ Len(stack[t]) \in Nat \ {0}
           /\ Top(t) \in CallRecord
           /\ IsCall(Top(t)) /\ CallKnows(Top(t))
  <1>1. stack[t] \in Seq(CallRecord)
    BY DEF BInv, Typed
  <1>2. Len(stack[t]) \in Nat \ {0} /\ Len(stack[t]) \in DOMAIN stack[t]
    BY <1>1, EmptySeq, LenProperties
  <1>3. Top(t) \in CallRecord
    BY <1>1, <1>2, ElementOfSeq DEF Top
  <1> QED
    BY <1>2, <1>3 DEF BInv, Typed, CallsKnow, Top

\* What a step does to the stacks: every call in them is as it was, or c.
OnlyNew(c) ==
    /\ stack' \in [Threads -> Seq(CallRecord)]
    /\ \A u \in Threads : \A i \in DOMAIN stack'[u] :
          stack'[u][i] = c \/ (i \in DOMAIN stack[u] /\ stack'[u][i] = stack[u][i])

\* The innermost call of a thread is replaced.
LEMMA Replaced ==
    ASSUME Typed, NEW t \in Threads, stack[t] # <<>>, NEW c \in CallRecord,
           stack' = [stack EXCEPT ![t][Len(stack[t])] = c]
    PROVE  OnlyNew(c) /\ \A u \in Threads : stack[u] # <<>> => stack'[u] # <<>>
  <1> DEFINE n == Len(stack[t])
             s == [stack[t] EXCEPT ![n] = c]
  <1>1. stack \in [Threads -> Seq(CallRecord)] /\ stack[t] \in Seq(CallRecord)
    BY DEF Typed
  <1>2. n \in Nat \ {0} /\ DOMAIN stack[t] = 1 .. n
    BY <1>1, EmptySeq, LenProperties
  <1>3. s \in Seq(CallRecord) /\ DOMAIN s = 1 .. n /\ Len(s) = n
    BY <1>1, <1>2, ExceptSeq, LenProperties
  <1>4. \A i \in DOMAIN s : s[i] = c \/ (i \in DOMAIN stack[t] /\ s[i] = stack[t][i])
    BY <1>1, <1>2, <1>3
  <1>5. s # <<>>
    BY <1>2, <1>3, EmptySeq
  <1>6. stack' = [stack EXCEPT ![t] = s]
    BY <1>1
  <1> HIDE DEF s, n
  <1>7. stack'[t] = s /\ \A u \in Threads : u # t => stack'[u] = stack[u]
    BY <1>1, <1>6
  <1>8. stack' \in [Threads -> Seq(CallRecord)]
    BY <1>1, <1>3, <1>6
  <1> QED
    BY <1>4, <1>5, <1>7, <1>8 DEF OnlyNew

\* The innermost call goes on to another place.
LEMMA GoToReplaces ==
    ASSUME BInv, NEW t \in Threads, stack[t] # <<>>, NEW pc, GoTo(t, pc),
           pc \in {"check", "enter", "lock", "commit", "return"} \cup Locked
    PROVE  LET c == [Top(t) EXCEPT !.pc = pc] IN
           /\ c \in CallRecord
           /\ OnlyNew(c)
           /\ \A u \in Threads : stack[u] # <<>> => stack'[u] # <<>>
           /\ c.op = Top(t).op /\ c.bundle = Top(t).bundle /\ c.pc = pc
           /\ c.next = Top(t).next /\ c.old = Top(t).old
  <1> DEFINE c == [Top(t) EXCEPT !.pc = pc]
  <1>1. Top(t) \in CallRecord
    BY TopFacts
  <1>2. /\ c \in CallRecord
        /\ c.op = Top(t).op /\ c.bundle = Top(t).bundle /\ c.pc = pc
        /\ c.next = Top(t).next /\ c.old = Top(t).old
    BY <1>1 DEF CallRecord
  <1>3. stack' = [stack EXCEPT ![t][Len(stack[t])] = c]
    BY DEF GoTo, Top
  <1> HIDE DEF c
  <1>4. OnlyNew(c) /\ \A u \in Threads : stack[u] # <<>> => stack'[u] # <<>>
    BY <1>2, <1>3, Replaced DEF BInv
  <1> QED
    BY <1>2, <1>4 DEF c

\* The innermost call goes on to the next required bundle.
LEMMA AdvanceReplaces ==
    ASSUME BInv, NEW t \in Threads, stack[t] # <<>>, Advance(t)
    PROVE  LET c == [Top(t) EXCEPT !.next = @ + 1] IN
           /\ c \in CallRecord
           /\ OnlyNew(c)
           /\ \A u \in Threads : stack[u] # <<>> => stack'[u] # <<>>
           /\ c.op = Top(t).op /\ c.bundle = Top(t).bundle /\ c.pc = Top(t).pc
           /\ c.next = Top(t).next + 1 /\ c.old = Top(t).old
  <1> DEFINE c == [Top(t) EXCEPT !.next = @ + 1]
  <1>1. Top(t) \in CallRecord
    BY TopFacts
  <1>2. /\ c \in CallRecord
        /\ c.op = Top(t).op /\ c.bundle = Top(t).bundle /\ c.pc = Top(t).pc
        /\ c.next = Top(t).next + 1 /\ c.old = Top(t).old
    BY <1>1 DEF CallRecord
  <1>3. stack' = [stack EXCEPT ![t][Len(stack[t])] = c]
    BY DEF Advance, Top
  <1> HIDE DEF c
  <1>4. OnlyNew(c) /\ \A u \in Threads : stack[u] # <<>> => stack'[u] # <<>>
    BY <1>2, <1>3, Replaced DEF BInv
  <1> QED
    BY <1>2, <1>4 DEF c

\* A call is made.
LEMMA Pushed ==
    ASSUME Typed, NEW t \in Threads, NEW op \in Operations, NEW b \in Bundles, Push(t, Call(op, b))
    PROVE  LET c == Call(op, b) IN
           /\ c \in CallRecord
           /\ OnlyNew(c)
           /\ \A u \in Threads : stack[u] # <<>> => stack'[u] # <<>>
           /\ c.op = op /\ c.bundle = b /\ c.pc = "check" /\ c.next = 1 /\ c.old = None
  <1> DEFINE c == Call(op, b)
  <1>1. /\ c \in CallRecord
        /\ c.op = op /\ c.bundle = b /\ c.pc = "check" /\ c.next = 1 /\ c.old = None
    BY DEF Call, CallRecord
  <1>2. stack' = [stack EXCEPT ![t] = Append(stack[t], c)]
    BY DEF Push
  <1> HIDE DEF c
  <1>3. stack \in [Threads -> Seq(CallRecord)] /\ stack[t] \in Seq(CallRecord)
    BY DEF Typed
  <1>4. /\ Append(stack[t], c) \in Seq(CallRecord)
        /\ \A i \in DOMAIN Append(stack[t], c) :
              Append(stack[t], c)[i] = c
              \/ (i \in DOMAIN stack[t] /\ Append(stack[t], c)[i] = stack[t][i])
        /\ Append(stack[t], c) # <<>>
    BY <1>1, <1>3, AppendProperties
  <1>5. stack' \in [Threads -> Seq(CallRecord)]
    BY <1>2, <1>3, <1>4
  <1>6. stack'[t] = Append(stack[t], c) /\ \A u \in Threads : u # t => stack'[u] = stack[u]
    BY <1>2, <1>3
  <1>7. OnlyNew(c) /\ \A u \in Threads : stack[u] # <<>> => stack'[u] # <<>>
    BY <1>4, <1>5, <1>6 DEF OnlyNew
  <1> QED
    BY <1>1, <1>7 DEF c

\* The innermost call is left.
LEMMA Popped ==
    ASSUME Typed, NEW t \in Threads, stack[t] # <<>>, Pop(t)
    PROVE  /\ \A c : OnlyNew(c)
           /\ \A u \in Threads : u # t => stack'[u] = stack[u]
           /\ Len(stack[t]) > 1 => stack'[t] # <<>>
  <1> DEFINE n == Len(stack[t])
             s == SubSeq(stack[t], 1, n - 1)
  <1>1. stack \in [Threads -> Seq(CallRecord)] /\ stack[t] \in Seq(CallRecord)
    BY DEF Typed
  <1>2. n \in Nat \ {0} /\ DOMAIN stack[t] = 1 .. n
    BY <1>1, EmptySeq, LenProperties
  <1>3. s \in Seq(CallRecord) /\ Len(s) = n - 1 /\ \A i \in 1 .. n - 1 : s[i] = stack[t][i]
    BY <1>1, <1>2, SubSeqProperties, ElementOfSeq
  <1>4. stack' = [stack EXCEPT ![t] = s]
    BY DEF Pop
  <1> HIDE DEF s, n
  <1>5. DOMAIN s = 1 .. n - 1 /\ (n > 1 => s # <<>>)
    BY <1>2, <1>3, LenProperties, EmptySeq
  <1>6. stack'[t] = s /\ \A u \in Threads : u # t => stack'[u] = stack[u]
    BY <1>1, <1>4
  <1>7. stack' \in [Threads -> Seq(CallRecord)]
    BY <1>1, <1>3, <1>4
  <1>8. \A i \in DOMAIN s : i \in DOMAIN stack[t] /\ s[i] = stack[t][i]
    BY <1>2, <1>3, <1>5
  <1> QED
    BY <1>5, <1>6, <1>7, <1>8 DEF OnlyNew, n

-----------------------------------------------------------------------------
(* What no step of any thread takes away. *)

\* What is known of a required bundle stays true.
Steady ==
    /\ manifest' = manifest
    /\ bundles' \subseteq bundles
    /\ state' \in [Bundles -> BundleStates]
    /\ \A b \in Bundles :
          /\ state[b] # "installed" => state'[b] # "installed"
          /\ b \in bundles' /\ IsResolved(b) => IsResolved(b)'

LEMMA AvailableStays ==
    ASSUME Steady, NEW d, Available(d)
    PROVE  Available(d)'
  BY DEF Steady, Available

LEMMA RequiredStays ==
    ASSUME Steady, NEW b, \A d \in Required(b) : Available(d)
    PROVE  \A d \in Required(b)' : Available(d)'
  <1>1. Required(b)' = Required(b)
    BY DEF Steady, Required
  <1> QED
    BY <1>1, AvailableStays

LEMMA CallStays ==
    ASSUME Steady, Typed, NEW c \in CallRecord, IsCall(c), CallKnows(c)
    PROVE  IsCall(c)' /\ CallKnows(c)'
  <1>1. IsCall(c)'
    BY DEF IsCall, Steady
  <1>2. c.bundle \in Bundles
    BY DEF CallRecord
  <1>3. c.op \in {"start", "stop"} /\ c.pc # "check" =>
            state'[c.bundle] # "installed" /\ \A d \in Required(c.bundle)' : Available(d)'
    BY <1>2, RequiredStays DEF CallKnows, Steady
  <1>4. c.old # "installed" /\ (c.old = "uninstalled" => c.bundle \notin bundles')
    BY DEF CallKnows, Steady
  <1>5. c.op = "resolve" /\ c.pc \in {"check", "lock", "deps"} =>
            \A i \in 1 .. c.next - 1 : Available(manifest[c.bundle].requires[i])'
    <2> SUFFICES ASSUME c.op = "resolve", c.pc \in {"check", "lock", "deps"}, NEW i \in 1 .. c.next - 1
                 PROVE  Available(manifest[c.bundle].requires[i])'
      OBVIOUS
    <2> DEFINE d == manifest[c.bundle].requires[i]
    <2>1. Available(d)
      BY DEF CallKnows
    <2>2. d' = d
      BY DEF Steady
    <2> HIDE DEF d
    <2>3. Available(d)'
      BY <2>1, <2>2 DEF Steady, Available
    <2> QED
      BY <2>3 DEF d
  <1>6. c.op = "resolve" /\ c.pc \in {"install", "extend", "commit"} =>
            \A d \in Required(c.bundle)' : Available(d)'
    BY RequiredStays DEF CallKnows
  <1>7. c.op = "uninstall" /\ c.pc = "commit" => c.bundle \notin bundles'
    BY DEF CallKnows, Steady
  <1> QED
    BY <1>1, <1>3, <1>4, <1>5, <1>6, <1>7 DEF CallKnows

\* What has to be shown of a step: that it is steady, what the call it leaves
\* in the stack knows, and that the bundles whose state it changes may be in
\* the new one.
AreCalls == \A t \in Threads : \A i \in DOMAIN stack[t] : IsCall(stack[t][i])

LEMMA Carried ==
    ASSUME BInv, Steady, NEW c, OnlyNew(c),
           c \in CallRecord => IsCall(c)' /\ CallKnows(c)',
           \A b \in Bundles : IsResolved(b)' =>
               IsResolved(b) \/ \A d \in Required(b) : Available(d),
           \A b \in Bundles : state'[b] = "uninstalled" => b \notin bundles'
    PROVE  /\ DependenciesResolved' /\ CallsKnow'
           /\ AreCalls'
  <1>1. DependenciesResolved'
    BY RequiredStays DEF BInv, DependenciesResolved
  <1>2. \A e \in CallRecord : IsCall(e) /\ CallKnows(e) => IsCall(e)' /\ CallKnows(e)'
    BY CallStays DEF BInv
  <1>3. ASSUME NEW t \in Threads, NEW i \in DOMAIN stack'[t]
        PROVE  IsCall(stack[t][i])' /\ CallKnows(stack[t][i])'
    <2>1. stack'[t] \in Seq(CallRecord) /\ stack'[t][i] \in CallRecord
      BY LenProperties, ElementOfSeq DEF OnlyNew
    <2>2. PICK e \in CallRecord : e = stack'[t][i]
      BY <2>1
    <2>3. IsCall(e)' /\ CallKnows(e)'
      <3>1. CASE e = c
        BY <3>1
      <3>2. CASE i \in DOMAIN stack[t] /\ e = stack[t][i]
        BY <1>2, <3>2 DEF BInv, Typed, CallsKnow
      <3> QED
        BY <2>2, <3>1, <3>2 DEF OnlyNew
    <2> QED
      BY <2>2, <2>3 DEF IsCall, CallKnows, Available, IsResolved, Required
  <1>4. \A b \in Bundles : state'[b] = "uninstalled" => b \notin bundles'
    OBVIOUS
  <1>5. AreCalls'
    BY <1>3 DEF AreCalls
  <1>6. (\A t \in Threads : \A i \in DOMAIN stack[t] : CallKnows(stack[t][i]))'
    BY <1>3
  <1> QED
    BY <1>1, <1>4, <1>5, <1>6 DEF CallsKnow

\* A step that changes neither states nor the map.
LEMMA CarriedQuietly ==
    ASSUME BInv, manifest' = manifest, state' = state, bundles' = bundles,
           NEW c \in CallRecord, OnlyNew(c), IsCall(c), CallKnows(c)
    PROVE  /\ DependenciesResolved' /\ CallsKnow'
           /\ AreCalls'
  <1>1. Steady
    BY DEF Steady, BInv, Typed, IsResolved
  <1>2. IsCall(c)' /\ CallKnows(c)'
    BY <1>1, CallStays DEF BInv
  <1>3. \A b \in Bundles : IsResolved(b)' => IsResolved(b)
    BY DEF IsResolved
  <1>4. \A b \in Bundles : state'[b] = "uninstalled" => b \notin bundles'
    BY DEF BInv, CallsKnow
  <1> QED
    BY <1>1, <1>2, <1>3, <1>4, Carried

\* A step that changes no stack either.
LEMMA CarriedUnchanged ==
    ASSUME BInv, manifest' = manifest, state' = state, bundles' = bundles, stack' = stack
    PROVE  /\ DependenciesResolved' /\ CallsKnow'
           /\ AreCalls'
  <1>1. \A b \in Bundles : IsResolved(b)' = IsResolved(b) /\ Required(b)' = Required(b)
    BY DEF IsResolved, Required
  <1>7. DependenciesResolved'
    BY <1>1 DEF BInv, DependenciesResolved, Available, IsResolved
  <1>2. \A c \in CallRecord : IsCall(c)' <=> IsCall(c)
    BY DEF IsCall
  <1>3. \A c \in CallRecord : CallKnows(c)' <=> CallKnows(c)
    BY DEF CallKnows, Available, IsResolved, Required
  <1>4. \A t \in Threads : \A i \in DOMAIN stack[t] : stack[t][i] \in CallRecord
    BY ElementOfSeq, LenProperties DEF BInv, Typed
  <1>5. AreCalls'
    BY <1>2, <1>4 DEF BInv, Typed, AreCalls
  <1>6. CallsKnow'
    BY <1>3, <1>4 DEF BInv, CallsKnow
  <1> QED
    BY <1>5, <1>6, <1>7

-----------------------------------------------------------------------------
(* The steps that change neither states nor the map, by what they do to the  *)
(* stack.                                                                    *)

\* What such a step has to keep, but for the types of what it writes.
Kept ==
    /\ DependenciesResolved' /\ CallsKnow' /\ AreCalls'
    /\ stack' \in [Threads -> Seq(CallRecord)]
    /\ \A u \in Threads : stack[u] # <<>> => stack'[u] # <<>>

LEMMA KeptByGoTo ==
    ASSUME BInv, NEW t \in Threads, stack[t] # <<>>,
           NEW pc \in {"check", "enter", "lock", "commit", "return"} \cup Locked, GoTo(t, pc),
           manifest' = manifest, state' = state, bundles' = bundles,
           NEW c, c = [Top(t) EXCEPT !.pc = pc],
           Top(t) \in CallRecord => IsCall(c) /\ CallKnows(c)
    PROVE  Kept
  <1>1. Top(t) \in CallRecord
    BY TopFacts
  <1>2. /\ c \in CallRecord /\ OnlyNew(c)
        /\ \A u \in Threads : stack[u] # <<>> => stack'[u] # <<>>
    BY GoToReplaces
  <1> QED
    BY <1>1, <1>2, CarriedQuietly DEF Kept, OnlyNew

LEMMA KeptByPush ==
    ASSUME BInv, NEW t \in Threads, NEW op \in Operations, NEW b \in Bundles, Push(t, Call(op, b)),
           manifest' = manifest, state' = state, bundles' = bundles
    PROVE  Kept
  <1> DEFINE c == Call(op, b)
  <1>1. /\ c \in CallRecord /\ OnlyNew(c)
        /\ \A u \in Threads : stack[u] # <<>> => stack'[u] # <<>>
        /\ c.op = op /\ c.bundle = b /\ c.pc = "check" /\ c.next = 1 /\ c.old = None
    BY Pushed DEF BInv
  <1> HIDE DEF c
  <1>2. IsCall(c)
    BY <1>1, ManifestFacts DEF IsCall, BInv
  <1>3. CallKnows(c)
    BY <1>1, BundleAssumption DEF CallKnows, BundleStates
  <1> QED
    BY <1>1, <1>2, <1>3, CarriedQuietly DEF Kept, OnlyNew

LEMMA KeptUnchanged ==
    ASSUME BInv, stack' = stack, manifest' = manifest, state' = state, bundles' = bundles
    PROVE  Kept
  BY CarriedUnchanged DEF Kept, BInv, Typed

LEMMA CheckStep ==
    ASSUME BInv, NEW t \in Threads, NEW op \in Operations, Check(t, op)
    PROVE  BInv'
  <1>1. stack[t] # <<>> /\ Top(t).op = op /\ Top(t).pc = "check"
    BY DEF Check, In
  <1>2. Top(t) \in CallRecord /\ IsCall(Top(t)) /\ CallKnows(Top(t))
    BY <1>1, TopFacts
  <1>3. manifest' = manifest /\ state' = state /\ bundles' = bundles
    BY DEF Check, loader
  <1>4. Kept /\ throwing' \in [Threads -> BOOLEAN] /\ \A u \in Threads : throwing'[u] => stack'[u] # <<>>
    <2>1. CASE /\ state[Top(t).bundle] \in Requirement(op)
               /\ GoTo(t, IF op \in {"start", "stop"} THEN "enter" ELSE "lock")
               /\ UNCHANGED throwing
      <3> DEFINE pc == IF op \in {"start", "stop"} THEN "enter" ELSE "lock"
                 c == [Top(t) EXCEPT !.pc = pc]
      <3>1. c.op = op /\ c.bundle = Top(t).bundle /\ c.pc = pc /\ c.next = Top(t).next /\ c.old = Top(t).old
        BY <1>1, <1>2 DEF CallRecord
      <3>2. IsCall(c)
        BY <1>1, <1>2, <3>1 DEF IsCall
      <3>3. Top(t).bundle \in Bundles
        BY <1>2 DEF CallRecord
      <3>4. op \in {"start", "stop"} => state[Top(t).bundle] # "installed"
                                         /\ \A d \in Required(Top(t).bundle) : Available(d)
        BY <2>1, <3>3 DEF Requirement, BInv, DependenciesResolved, IsResolved
      <3>5. CallKnows(c)
        BY <1>1, <1>2, <3>1, <3>4 DEF CallKnows, Operations
      <3> QED
        <4>1. GoTo(t, pc)
          BY <2>1
        <4>2. pc \in {"check", "enter", "lock", "commit", "return"} \cup Locked
          OBVIOUS
        <4> HIDE DEF pc
        <4>3. Kept
          BY <1>1, <1>3, <3>2, <3>5, <4>1, <4>2, KeptByGoTo
        <4> QED
          BY <2>1, <4>3 DEF Kept, BInv, Typed
    <2>2. CASE Throw(t)
      <3>1. Kept
        BY <1>3, <2>2, KeptUnchanged DEF Throw
      <3> QED
        BY <1>1, <2>2, <3>1 DEF Throw, Kept, BInv, Typed
    <2> QED
      BY <2>1, <2>2 DEF Check
  <1> QED
    BY <1>4 DEF Check, Kept, BInv, Typed, AreCalls, loader, subsystem

\* Exceptions are thrown in calls only.
ThrownInCalls ==
    throwing' \in [Threads -> BOOLEAN] /\ \A u \in Threads : throwing'[u] => stack'[u] # <<>>

LEMMA ThrowKeeps ==
    ASSUME BInv, NEW t \in Threads, stack[t] # <<>>, Throw(t),
           manifest' = manifest, state' = state, bundles' = bundles
    PROVE  Kept /\ ThrownInCalls
  <1>1. Kept
    BY KeptUnchanged DEF Throw
  <1> QED
    BY <1>1 DEF Throw, ThrownInCalls, BInv, Typed

LEMMA NotThrown ==
    ASSUME BInv, Kept, throwing' = throwing
    PROVE  ThrownInCalls
  BY DEF Kept, ThrownInCalls, BInv, Typed

LEMMA ResolveBeginsStep ==
    ASSUME BInv, NEW t \in Threads, ResolveBegins(t)
    PROVE  BInv'
  <1>1. stack[t] # <<>> /\ Top(t).op = "resolve" /\ Top(t).pc = "lock"
    BY DEF ResolveBegins, In
  <1>2. Top(t) \in CallRecord /\ IsCall(Top(t)) /\ CallKnows(Top(t))
    BY <1>1, TopFacts
  <1>3. manifest' = manifest /\ state' = state /\ bundles' = bundles
    BY DEF ResolveBegins
  <1>4. Kept /\ ThrownInCalls /\ resolving' \subseteq Bundles
    <2>1. CASE resolving' = resolving \cup {Top(t).bundle} /\ GoTo(t, "deps") /\ UNCHANGED throwing
      <3> DEFINE c == [Top(t) EXCEPT !.pc = "deps"]
      <3>1. /\ c.op = "resolve" /\ c.bundle = Top(t).bundle /\ c.pc = "deps"
            /\ c.next = Top(t).next /\ c.old = Top(t).old
        BY <1>1, <1>2 DEF CallRecord
      <3>2. IsCall(c) /\ CallKnows(c)
        BY <1>1, <1>2, <3>1 DEF IsCall, CallKnows
      <3>3. Kept
        BY <1>1, <1>3, <2>1, <3>2, KeptByGoTo DEF Locked
      <3> QED
        BY <1>2, <2>1, <3>3, NotThrown DEF CallRecord, BInv, Typed
    <2>2. CASE Throw(t) /\ UNCHANGED resolving
      BY <1>1, <1>3, <2>2, ThrowKeeps DEF BInv, Typed
    <2> QED
      BY <2>1, <2>2 DEF ResolveBegins
  <1> QED
    BY <1>4 DEF ResolveBegins, Kept, ThrownInCalls, BInv, Typed, AreCalls, subsystem

\* A required bundle that is in the map and has the state looked for is one
\* the call may go past.
LEMMA RequiredFacts ==
    ASSUME BInv, NEW t \in Threads, stack[t] # <<>>, HasNext(t)
    PROVE  /\ Top(t).next \in 1 .. Len(manifest[Top(t).bundle].requires)
           /\ NextRequired(t) \in bundles => NextRequired(t) \in Bundles
  <1>1. Top(t) \in CallRecord
    BY TopFacts
  <1>2. Top(t).bundle \in Bundles /\ Top(t).next \in Nat \ {0}
    BY <1>1 DEF CallRecord
  <1>3. Len(manifest[Top(t).bundle].requires) \in Nat
    BY <1>2, ManifestFacts DEF BInv
  <1> QED
    BY <1>2, <1>3 DEF HasNext, BInv, Typed

LEMMA ResolveDependencyStep ==
    ASSUME BInv, NEW t \in Threads, ResolveDependency(t)
    PROVE  BInv'
  <1>1. stack[t] # <<>> /\ Top(t).op = "resolve" /\ Top(t).pc = "deps" /\ HasNext(t)
    BY DEF ResolveDependency, In
  <1>2. Top(t) \in CallRecord /\ IsCall(Top(t)) /\ CallKnows(Top(t))
    BY <1>1, TopFacts
  <1>3. UNCHANGED <<manifest, state, loader, subsystem>>
    BY DEF ResolveDependency
  <1>4. manifest' = manifest /\ state' = state /\ bundles' = bundles
    BY <1>3 DEF loader
  <1> DEFINE d == NextRequired(t)
  <1>5. Top(t).next \in 1 .. Len(manifest[Top(t).bundle].requires) /\ (d \in bundles => d \in Bundles)
    BY <1>1, RequiredFacts
  <1>6. Kept /\ ThrownInCalls
    <2>1. CASE d \in bundles /\ IsResolved(d) /\ Advance(t) /\ UNCHANGED throwing
      <3> DEFINE c == [Top(t) EXCEPT !.next = @ + 1]
      <3>1. /\ c \in CallRecord /\ OnlyNew(c)
            /\ \A u \in Threads : stack[u] # <<>> => stack'[u] # <<>>
            /\ c.op = "resolve" /\ c.bundle = Top(t).bundle /\ c.pc = "deps"
            /\ c.next = Top(t).next + 1 /\ c.old = Top(t).old
        BY <1>1, <2>1, AdvanceReplaces
      <3> HIDE DEF c
      <3>2. IsCall(c)
        BY <1>1, <1>2, <1>5, <3>1, ManifestFacts DEF IsCall, CallRecord, BInv
      <3>3. Available(manifest[Top(t).bundle].requires[Top(t).next])
        BY <1>5, <2>1 DEF Available, NextRequired
      <3>4. \A i \in 1 .. c.next - 1 : i = Top(t).next \/ i \in 1 .. Top(t).next - 1
        BY <1>5, <3>1
      <3>5. CallKnows(c)
        BY <1>1, <1>2, <3>1, <3>3, <3>4 DEF CallKnows
      <3>6. Kept
        BY <1>4, <3>1, <3>2, <3>5, CarriedQuietly DEF Kept, OnlyNew
      <3> QED
        BY <2>1, <3>6, NotThrown
    <2>2. CASE d \in bundles /\ Push(t, Call("resolve", d)) /\ UNCHANGED throwing
      BY <1>4, <1>5, <2>2, KeptByPush, NotThrown DEF Operations
    <2>3. CASE Throw(t)
      BY <1>1, <1>4, <2>3, ThrowKeeps
    <2> QED
      BY <2>1, <2>2, <2>3 DEF ResolveDependency
  <1> QED
    BY <1>3, <1>6 DEF Kept, ThrownInCalls, BInv, Typed, AreCalls, loader, subsystem

LEMMA ResolveInstallsStep ==
    ASSUME BInv, NEW t \in Threads, ResolveInstalls(t)
    PROVE  BInv'
  <1>1. stack[t] # <<>> /\ Top(t).op = "resolve" /\ Top(t).pc = "deps" /\ ~HasNext(t)
    BY DEF ResolveInstalls, In
  <1>2. Top(t) \in CallRecord /\ IsCall(Top(t)) /\ CallKnows(Top(t))
    BY <1>1, TopFacts
  <1>3. manifest' = manifest /\ state' = state /\ bundles' = bundles
    BY DEF ResolveInstalls
  <1> DEFINE b == Top(t).bundle
             c == [Top(t) EXCEPT !.pc = "install"]
  <1>4. /\ c.op = "resolve" /\ c.bundle = b /\ c.pc = "install"
        /\ c.next = Top(t).next /\ c.old = Top(t).old
    BY <1>1, <1>2 DEF CallRecord
  <1>5. \A d \in Required(b) : Available(d)
    <2>1. b \in Bundles /\ Top(t).next \in Nat
      BY <1>2 DEF CallRecord
    <2>2. \A i \in DOMAIN manifest[b].requires : i \in 1 .. Top(t).next - 1
      BY <1>1, <2>1, ManifestFacts DEF HasNext, BInv
    <2>3. \A i \in 1 .. Top(t).next - 1 : Available(manifest[b].requires[i])
      BY <1>1, <1>2 DEF CallKnows
    <2> QED
      BY <2>2, <2>3 DEF Required
  <1>6. IsCall(c) /\ CallKnows(c)
    BY <1>1, <1>2, <1>4, <1>5 DEF IsCall, CallKnows
  <1>7. GoTo(t, "install")
    BY DEF ResolveInstalls
  <1>8. Kept
    BY <1>1, <1>3, <1>6, <1>7, KeptByGoTo DEF Locked
  <1>9. ThrownInCalls
    BY <1>8, NotThrown DEF ResolveInstalls
  <1> QED
    BY <1>8, <1>9 DEF ResolveInstalls, Kept, ThrownInCalls, BInv, Typed, AreCalls, subsystem

\* A call that goes on without learning anything new.
LEMMA KeptByGoingOn ==
    ASSUME BInv, NEW t \in Threads, stack[t] # <<>>,
           NEW pc \in {"lock", "commit"} \cup Locked, GoTo(t, pc),
           \/ Top(t).op \in {"start", "stop"} /\ Top(t).pc \notin {"check", "enter", "return"}
           \/ Top(t).op = "resolve" /\ Top(t).pc \in {"install", "extend"} /\ pc \in {"install", "extend", "commit"}
           \/ Top(t).op = "uninstall" /\ pc # "commit",
           manifest' = manifest, state' = state, bundles' = bundles
    PROVE  Kept
  <1> DEFINE c == [Top(t) EXCEPT !.pc = pc]
  <1>1. Top(t) \in CallRecord /\ IsCall(Top(t)) /\ CallKnows(Top(t))
    BY TopFacts
  <1>2. /\ c.op = Top(t).op /\ c.bundle = Top(t).bundle /\ c.pc = pc
        /\ c.next = Top(t).next /\ c.old = Top(t).old
    BY <1>1 DEF CallRecord
  <1>3. pc \notin {"check", "enter", "return"}
    BY DEF Locked
  <1>4. IsCall(c) /\ CallKnows(c)
    BY <1>1, <1>2, <1>3 DEF IsCall, CallKnows
  <1>5. pc \in {"check", "enter", "lock", "commit", "return"} \cup Locked
    OBVIOUS
  <1> QED
    BY <1>4, <1>5, KeptByGoTo

LEMMA InstallLibrariesStep ==
    ASSUME BInv, NEW t \in Threads, InstallLibraries(t)
    PROVE  BInv'
  <1>1. stack[t] # <<>> /\ Top(t).op = "resolve" /\ Top(t).pc = "install"
    BY DEF InstallLibraries, In
  <1>2. UNCHANGED <<manifest, state, loader, subsystem>>
    BY DEF InstallLibraries
  <1>3. manifest' = manifest /\ state' = state /\ bundles' = bundles
    BY <1>2 DEF loader
  <1>4. Kept /\ ThrownInCalls
    <2>1. ASSUME NEW pc \in {"commit", "extend"}, GoTo(t, pc), UNCHANGED throwing PROVE Kept /\ ThrownInCalls
      BY <1>1, <1>3, <2>1, KeptByGoingOn, NotThrown DEF Locked
    <2>2. CASE Throw(t)
      BY <1>1, <1>3, <2>2, ThrowKeeps
    <2> QED
      BY <2>1, <2>2 DEF InstallLibraries
  <1> QED
    BY <1>2, <1>4 DEF Kept, ThrownInCalls, BInv, Typed, AreCalls, loader, subsystem

LEMMA ExtendStep ==
    ASSUME BInv, NEW t \in Threads, Extend(t)
    PROVE  BInv'
  <1> DEFINE b == Top(t).bundle
             e == manifest[b].extends
  <1>1. stack[t] # <<>> /\ Top(t).op = "resolve" /\ Top(t).pc = "extend"
    BY DEF Extend, In
  <1>2. manifest' = manifest /\ state' = state /\ bundles' = bundles /\ throwing' = throwing
    BY DEF Extend
  <1>3. b \in Bundles
    BY <1>1, TopFacts DEF CallRecord
  <1>4. Kept /\ extensions' \in [Bundles -> SUBSET Bundles]
    <2>1. CASE e \in bundles /\ Push(t, Call("resolve", e)) /\ UNCHANGED extensions
      <3>1. e \in Bundles
        BY <2>1 DEF BInv, Typed
      <3> HIDE DEF e
      <3>2. Kept
        BY <1>2, <2>1, <3>1, KeptByPush DEF Operations
      <3> QED
        BY <2>1, <3>2 DEF BInv, Typed
    <2>2. CASE extensions' = [extensions EXCEPT ![e] = @ \cup {b}] /\ GoTo(t, "commit")
      <3>1. Kept
        BY <1>1, <1>2, <2>2, KeptByGoingOn
      <3> QED
        BY <1>3, <2>2, <3>1 DEF BInv, Typed
    <2>3. CASE GoTo(t, "commit") /\ UNCHANGED extensions
      <3>1. Kept
        BY <1>1, <1>2, <2>3, KeptByGoingOn
      <3> QED
        BY <2>3, <3>1 DEF BInv, Typed
    <2> QED
      BY <2>1, <2>2, <2>3 DEF Extend
  <1>5. ThrownInCalls
    BY <1>2, <1>4, NotThrown
  <1> QED
    BY <1>4, <1>5 DEF Extend, Kept, ThrownInCalls, BInv, Typed, AreCalls, subsystem

LEMMA StartOrStopBeginsStep ==
    ASSUME BInv, NEW t \in Threads, StartOrStopBegins(t)
    PROVE  BInv'
  <1>1. stack[t] # <<>> /\ Top(t).op \in {"start", "stop"} /\ Top(t).pc = "lock"
    BY DEF StartOrStopBegins, In
  <1>2. UNCHANGED <<manifest, state, loader, subsystem>>
    BY DEF StartOrStopBegins
  <1>3. manifest' = manifest /\ state' = state /\ bundles' = bundles
    BY <1>2 DEF loader
  <1>4. Kept /\ ThrownInCalls
    <2>1. ASSUME NEW pc \in {"deps", "deactivate"}, GoTo(t, pc), UNCHANGED throwing PROVE Kept /\ ThrownInCalls
      BY <1>1, <1>3, <2>1, KeptByGoingOn, NotThrown DEF Locked
    <2>2. CASE Throw(t)
      BY <1>1, <1>3, <2>2, ThrowKeeps
    <2> QED
      BY <2>1, <2>2 DEF StartOrStopBegins
  <1> QED
    BY <1>2, <1>4 DEF Kept, ThrownInCalls, BInv, Typed, AreCalls, loader, subsystem

LEMMA StartDependencyStep ==
    ASSUME BInv, NEW t \in Threads, StartDependency(t)
    PROVE  BInv'
  <1>1. stack[t] # <<>> /\ Top(t).op = "start" /\ Top(t).pc = "deps" /\ HasNext(t)
    BY DEF StartDependency, In
  <1>2. Top(t) \in CallRecord /\ IsCall(Top(t)) /\ CallKnows(Top(t))
    BY <1>1, TopFacts
  <1>3. UNCHANGED <<manifest, state, loader, subsystem>>
    BY DEF StartDependency
  <1>4. manifest' = manifest /\ state' = state /\ bundles' = bundles
    BY <1>3 DEF loader
  <1> DEFINE d == NextRequired(t)
  <1>5. Top(t).next \in 1 .. Len(manifest[Top(t).bundle].requires) /\ (d \in bundles => d \in Bundles)
    BY <1>1, RequiredFacts
  <1>6. Kept /\ ThrownInCalls
    <2>1. CASE Advance(t) /\ UNCHANGED throwing
      <3> DEFINE c == [Top(t) EXCEPT !.next = @ + 1]
      <3>1. /\ c \in CallRecord /\ OnlyNew(c)
            /\ \A u \in Threads : stack[u] # <<>> => stack'[u] # <<>>
            /\ c.op = "start" /\ c.bundle = Top(t).bundle /\ c.pc = "deps"
            /\ c.next = Top(t).next + 1 /\ c.old = Top(t).old
        BY <1>1, <2>1, AdvanceReplaces
      <3> HIDE DEF c
      <3>2. IsCall(c)
        BY <1>1, <1>2, <1>5, <3>1, ManifestFacts DEF IsCall, CallRecord, BInv
      <3>3. CallKnows(c)
        BY <1>1, <1>2, <3>1 DEF CallKnows
      <3>4. Kept
        BY <1>4, <3>1, <3>2, <3>3, CarriedQuietly DEF Kept, OnlyNew
      <3> QED
        BY <2>1, <3>4, NotThrown
    <2>2. CASE d \in bundles /\ Push(t, Call("start", d)) /\ UNCHANGED throwing
      BY <1>4, <1>5, <2>2, KeptByPush, NotThrown DEF Operations
    <2>3. CASE Throw(t)
      BY <1>1, <1>4, <2>3, ThrowKeeps
    <2> QED
      BY <2>1, <2>2, <2>3 DEF StartDependency
  <1> QED
    BY <1>3, <1>6 DEF Kept, ThrownInCalls, BInv, Typed, AreCalls, loader, subsystem

LEMMA LoadActivatorStep ==
    ASSUME BInv, NEW t \in Threads, LoadActivator(t)
    PROVE  BInv'
  <1>1. stack[t] # <<>> /\ Top(t).op = "start" /\ Top(t).pc = "deps"
    BY DEF LoadActivator, In
  <1>2. manifest' = manifest /\ state' = state /\ bundles' = bundles
    BY DEF LoadActivator
  <1>3. Top(t).bundle \in Bundles
    BY <1>1, TopFacts DEF CallRecord
  <1>4. classLoader' \in [Bundles -> {"null", "empty", "loaded"}] /\ activator' \in [Bundles -> BOOLEAN]
    BY <1>3 DEF LoadActivator, BInv, Typed
  <1>5. Kept /\ ThrownInCalls
    <2>1. ASSUME NEW pc \in {"activate", "commit"}, GoTo(t, pc), UNCHANGED throwing PROVE Kept /\ ThrownInCalls
      BY <1>1, <1>2, <2>1, KeptByGoingOn, NotThrown DEF Locked
    <2>2. CASE Throw(t)
      BY <1>1, <1>2, <2>2, ThrowKeeps
    <2> QED
      BY <2>1, <2>2 DEF LoadActivator
  <1> QED
    BY <1>4, <1>5 DEF LoadActivator, Kept, ThrownInCalls, BInv, Typed, AreCalls, subsystem

LEMMA ActivatorStartsStep ==
    ASSUME BInv, NEW t \in Threads, ActivatorStarts(t)
    PROVE  BInv'
  <1>1. stack[t] # <<>> /\ Top(t).op = "start" /\ Top(t).pc = "activate"
    BY DEF ActivatorStarts, In
  <1>2. manifest' = manifest /\ state' = state /\ bundles' = bundles
    BY DEF ActivatorStarts
  <1>3. running' \in [Bundles -> BOOLEAN]
    BY DEF ActivatorStarts, BInv, Typed
  <1>4. Kept /\ ThrownInCalls
    <2>1. CASE GoTo(t, "commit") /\ UNCHANGED throwing
      BY <1>1, <1>2, <2>1, KeptByGoingOn, NotThrown
    <2>2. CASE Throw(t)
      BY <1>1, <1>2, <2>2, ThrowKeeps
    <2> QED
      BY <2>1, <2>2 DEF ActivatorStarts
  <1> QED
    BY <1>3, <1>4 DEF ActivatorStarts, Kept, ThrownInCalls, BInv, Typed, AreCalls, subsystem

LEMMA ActivatorStopsStep ==
    ASSUME BInv, NEW t \in Threads, ActivatorStops(t)
    PROVE  BInv'
  <1>1. stack[t] # <<>> /\ Top(t).op = "stop" /\ Top(t).pc = "deactivate"
    BY DEF ActivatorStops, In
  <1>2. manifest' = manifest /\ state' = state /\ bundles' = bundles
    BY DEF ActivatorStops
  <1>3. running' \in [Bundles -> BOOLEAN]
    BY DEF ActivatorStops, BInv, Typed
  <1>4. Kept /\ ThrownInCalls
    <2>1. CASE GoTo(t, "commit") /\ UNCHANGED throwing
      BY <1>1, <1>2, <2>1, KeptByGoingOn, NotThrown
    <2>2. CASE Throw(t)
      BY <1>1, <1>2, <2>2, ThrowKeeps
    <2> QED
      BY <2>1, <2>2 DEF ActivatorStops
  <1> QED
    BY <1>3, <1>4 DEF ActivatorStops, Kept, ThrownInCalls, BInv, Typed, AreCalls, subsystem

LEMMA UninstallBeginsStep ==
    ASSUME BInv, NEW t \in Threads, UninstallBegins(t)
    PROVE  BInv'
  <1>1. stack[t] # <<>> /\ Top(t).op = "uninstall" /\ GoTo(t, "remove")
    BY DEF UninstallBegins, In
  <1>2. UNCHANGED <<manifest, state, loader, throwing, subsystem>>
    BY DEF UninstallBegins
  <1>3. manifest' = manifest /\ state' = state /\ bundles' = bundles
    BY <1>2 DEF loader
  <1>4. Kept /\ ThrownInCalls
    BY <1>1, <1>2, <1>3, KeptByGoingOn, NotThrown DEF Locked
  <1> QED
    BY <1>2, <1>4 DEF Kept, ThrownInCalls, BInv, Typed, AreCalls, loader, subsystem

-----------------------------------------------------------------------------
(* The steps that change a state or the map.                                 *)

LEMMA UninstallRemovesStep ==
    ASSUME BInv, NEW t \in Threads, UninstallRemoves(t)
    PROVE  BInv'
  <1>1. stack[t] # <<>> /\ Top(t).op = "uninstall" /\ Top(t).pc = "remove"
    BY DEF UninstallRemoves, In
  <1>2. Top(t) \in CallRecord /\ IsCall(Top(t)) /\ CallKnows(Top(t))
    BY <1>1, TopFacts
  <1>3. manifest' = manifest /\ state' = state
    BY DEF UninstallRemoves
  <1> PICK b \in Bundles : b = Top(t).bundle
    BY <1>2 DEF CallRecord
  <1>4. extensions' \in [Bundles -> SUBSET Bundles] /\ classLoader' \in [Bundles -> {"null", "empty", "loaded"}]
    BY <1>2 DEF UninstallRemoves, Unextended, BInv, Typed
  <1>5. Kept /\ ThrownInCalls /\ bundles' \subseteq Bundles
    <2>1. CASE bundles' = bundles \ {b} /\ GoTo(t, "commit") /\ UNCHANGED throwing
      <3>1. PICK c \in CallRecord :
            /\ OnlyNew(c)
            /\ \A u \in Threads : stack[u] # <<>> => stack'[u] # <<>>
            /\ c.op = "uninstall" /\ c.bundle = b /\ c.pc = "commit"
            /\ c.next = Top(t).next /\ c.old = Top(t).old
        <4>1. LET c == [Top(t) EXCEPT !.pc = "commit"] IN
              /\ c \in CallRecord /\ OnlyNew(c)
              /\ \A u \in Threads : stack[u] # <<>> => stack'[u] # <<>>
              /\ c.op = "uninstall" /\ c.bundle = b /\ c.pc = "commit"
              /\ c.next = Top(t).next /\ c.old = Top(t).old
          BY <1>1, <2>1, GoToReplaces
        <4> QED
          BY <4>1
      <3>2. Steady
        BY <1>3, <2>1 DEF Steady, BInv, Typed, IsResolved
      <3>3. IsCall(c)'
        BY <1>1, <1>2, <1>3, <3>1 DEF IsCall
      <3>4. CallKnows(c)'
        BY <1>1, <1>2, <1>3, <2>1, <3>1 DEF CallKnows
      <3>5. \A a \in Bundles : IsResolved(a)' => IsResolved(a)
        BY <1>3 DEF IsResolved
      <3>6. \A a \in Bundles : state'[a] = "uninstalled" => a \notin bundles'
        BY <1>3, <2>1 DEF BInv, CallsKnow
      <3>7. DependenciesResolved' /\ CallsKnow' /\ AreCalls'
        BY <3>1, <3>2, <3>3, <3>4, <3>5, <3>6, Carried
      <3>8. Kept
        BY <3>1, <3>7 DEF Kept, OnlyNew
      <3> QED
        BY <2>1, <3>8, NotThrown DEF BInv, Typed
    <2>2. CASE Throw(t) /\ UNCHANGED bundles
      BY <1>1, <1>3, <2>2, ThrowKeeps DEF BInv, Typed
    <2> QED
      BY <2>1, <2>2 DEF UninstallRemoves
  <1> QED
    BY <1>4, <1>5 DEF UninstallRemoves, Kept, ThrownInCalls, BInv, Typed, AreCalls, subsystem

LEMMA EnterStep ==
    ASSUME BInv, NEW t \in Threads, Enter(t)
    PROVE  BInv'
  <1>1. stack[t] # <<>> /\ Top(t).op \in {"start", "stop"} /\ Top(t).pc = "enter"
    BY DEF Enter, In
  <1>2. Top(t) \in CallRecord /\ IsCall(Top(t)) /\ CallKnows(Top(t))
    BY <1>1, TopFacts
  <1> PICK b \in Bundles : b = Top(t).bundle
    BY <1>2 DEF CallRecord
  <1>3. UNCHANGED <<manifest, loader, throwing, subsystem>>
    BY DEF Enter
  <1>4. manifest' = manifest /\ bundles' = bundles
    BY <1>3 DEF loader
  <1>5. state[b] \in BundleStates
    BY <1>2 DEF BInv, Typed
  <1>6. PICK c \in CallRecord :
        /\ c = [Top(t) EXCEPT !.old = state[b], !.pc = "lock"]
        /\ c.op = Top(t).op /\ c.bundle = b /\ c.pc = "lock"
        /\ c.next = Top(t).next /\ c.old = state[b]
    <2> DEFINE e == [Top(t) EXCEPT !.old = state[b], !.pc = "lock"]
    <2>1. /\ e \in CallRecord
          /\ e.op = Top(t).op /\ e.bundle = b /\ e.pc = "lock"
          /\ e.next = Top(t).next /\ e.old = state[b]
      BY <1>2, <1>5 DEF CallRecord
    <2> QED
      BY <2>1
  <1>7. stack' = [stack EXCEPT ![t][Len(stack[t])] = c]
    BY <1>6 DEF Enter
  <1>8. state' = [state EXCEPT ![b] = IF Top(t).op = "start" THEN "starting" ELSE "stopping"]
    BY DEF Enter
  <1>9. OnlyNew(c) /\ \A u \in Threads : stack[u] # <<>> => stack'[u] # <<>>
    BY <1>1, <1>6, <1>7, Replaced DEF BInv
  <1>10. /\ state[b] # "installed" /\ \A d \in Required(b) : Available(d)
         /\ state[b] = "uninstalled" => b \notin bundles
    BY <1>1, <1>2 DEF CallKnows, BInv, CallsKnow
  <1>11. Steady
    BY <1>2, <1>4, <1>8 DEF Steady, BInv, Typed, IsResolved, BundleStates
  <1>12. IsCall(c)'
    BY <1>1, <1>2, <1>4, <1>5, <1>6, BundleAssumption DEF IsCall
  <1>13. CallKnows(c)'
    <2>1. state'[b] # "installed"
      BY <1>10, <1>11, <1>2 DEF Steady
    <2>2. \A d \in Required(b)' : Available(d)'
      BY <1>10, <1>11, RequiredStays
    <2>3. c.old # "installed" /\ (c.old = "uninstalled" => b \notin bundles')
      BY <1>4, <1>6, <1>10
    <2> QED
      BY <1>1, <1>6, <2>1, <2>2, <2>3 DEF CallKnows
  <1>14. \A a \in Bundles : IsResolved(a)' => IsResolved(a) \/ \A d \in Required(a) : Available(d)
    BY <1>2, <1>8, <1>10 DEF IsResolved, BInv, Typed
  <1>15. \A a \in Bundles : state'[a] = "uninstalled" => a \notin bundles'
    BY <1>2, <1>4, <1>8 DEF BInv, Typed, CallsKnow
  <1>16. DependenciesResolved' /\ CallsKnow' /\ AreCalls'
    BY <1>9, <1>11, <1>12, <1>13, <1>14, <1>15, Carried
  <1>17. ThrownInCalls
    BY <1>3, <1>9 DEF ThrownInCalls, BInv, Typed
  <1> QED
    BY <1>3, <1>9, <1>11, <1>16, <1>17
    DEF ThrownInCalls, OnlyNew, Steady, BInv, Typed, AreCalls, loader, subsystem

LEMMA OutcomeIsSteady ==
    ASSUME BInv, NEW b \in Bundles, NEW new \in BundleStates \ {"installed"},
           state' = [state EXCEPT ![b] = new], manifest' = manifest, bundles' = bundles,
           b \in bundles => new \in {"resolved", "active"}
    PROVE  Steady
  BY DEF Steady, BInv, Typed, IsResolved

\* A call sets the state it ends in, and returns or has still to.
LEMMA OutcomeStep ==
    ASSUME BInv, NEW t \in Threads, stack[t] # <<>>, ~throwing[t], Top(t).pc \in {"commit", "return"},
           state' = [state EXCEPT ![Top(t).bundle] = Outcome(Top(t).op)],
           UNCHANGED <<manifest, loader, throwing, subsystem>>,
           \/ Pop(t)
           \/ /\ Top(t).op \in {"start", "stop"}
              /\ stack' = [stack EXCEPT ![t][Len(stack[t])] = [Top(t) EXCEPT !.old = None, !.pc = "return"]]
    PROVE  BInv'
  <1>2. PICK c \in CallRecord : c = Top(t) /\ IsCall(c) /\ CallKnows(c)
    BY TopFacts
  <1> DEFINE b == c.bundle
  <1>4. manifest' = manifest /\ bundles' = bundles
    BY DEF loader
  <1>5. state' = [state EXCEPT ![b] = Outcome(c.op)]
    BY <1>2
  <1>6. b \in Bundles /\ c.op \in Operations /\ (c.pc = "return" => c.op \in {"start", "stop"})
    BY <1>2 DEF CallRecord, IsCall
  <1>8. /\ Outcome(c.op) \in BundleStates \ {"installed"}
        /\ c.op # "uninstall" => Outcome(c.op) \in {"resolved", "active"}
    BY <1>6 DEF Outcome, Operations, BundleStates
  <1>9. c.op = "uninstall" => b \notin bundles
    BY <1>2, <1>6 DEF CallKnows
  <1>10. c.op # "uninstall" => \A d \in Required(b) : Available(d)
    BY <1>2, <1>6 DEF CallKnows, Operations
  <1>11. Steady
    BY <1>4, <1>5, <1>6, <1>8, <1>9, OutcomeIsSteady
  <1>12. \E d \in CallRecord : /\ OnlyNew(d) /\ IsCall(d)' /\ CallKnows(d)'
                              /\ \A u \in Threads : u # t => (stack[u] # <<>> => stack'[u] # <<>>)
    <2>1. CASE Pop(t)
      <3>1. /\ OnlyNew(c)
            /\ \A u \in Threads : u # t => stack'[u] = stack[u]
        BY <1>2, <2>1, Popped DEF BInv
      <3>2. IsCall(c)' /\ CallKnows(c)'
        BY <1>2, <1>11, CallStays DEF BInv
      <3> QED
        BY <3>1, <3>2
    <2>2. CASE /\ c.op \in {"start", "stop"}
               /\ stack' = [stack EXCEPT ![t][Len(stack[t])] = [c EXCEPT !.old = None, !.pc = "return"]]
      <3>1. PICK d \in CallRecord :
            /\ d = [c EXCEPT !.old = None, !.pc = "return"]
            /\ d.op = c.op /\ d.bundle = b /\ d.pc = "return" /\ d.next = c.next /\ d.old = None
        <4> DEFINE e == [c EXCEPT !.old = None, !.pc = "return"]
        <4>1. /\ e \in CallRecord
              /\ e.op = c.op /\ e.bundle = b /\ e.pc = "return" /\ e.next = c.next /\ e.old = None
          BY <1>2 DEF CallRecord
        <4> QED
          BY <4>1
      <3>2. OnlyNew(d) /\ \A u \in Threads : stack[u] # <<>> => stack'[u] # <<>>
        BY <2>2, <3>1, Replaced DEF BInv
      <3>3. IsCall(d)'
        BY <1>2, <1>4, <2>2, <3>1 DEF IsCall
      <3>4. state'[b] # "installed" /\ \A a \in Required(b)' : Available(a)'
        BY <1>5, <1>6, <1>8, <1>10, <1>11, <2>2, RequiredStays DEF BInv, Typed
      <3>5. CallKnows(d)'
        BY <2>2, <3>1, <3>4, BundleAssumption DEF CallKnows, BundleStates
      <3> QED
        BY <3>2, <3>3, <3>5
    <2> QED
      BY <1>2, <2>1, <2>2
  <1>13. \A a \in Bundles : IsResolved(a)' => IsResolved(a) \/ \A d \in Required(a) : Available(d)
    <2>1. c.op = "uninstall" => Outcome(c.op) = "uninstalled"
      BY DEF Outcome
    <2> QED
      BY <1>5, <1>6, <1>10, <2>1 DEF IsResolved, BInv, Typed
  <1>14. \A a \in Bundles : state'[a] = "uninstalled" => a \notin bundles'
    BY <1>4, <1>5, <1>6, <1>8, <1>9 DEF BInv, Typed, CallsKnow
  <1>15. DependenciesResolved' /\ CallsKnow' /\ AreCalls'
    BY <1>11, <1>12, <1>13, <1>14, Carried
  <1>16. ThrownInCalls
    BY <1>12 DEF ThrownInCalls, BInv, Typed
  <1> QED
    BY <1>11, <1>12, <1>15, <1>16
    DEF ThrownInCalls, OnlyNew, Steady, BInv, Typed, AreCalls, loader, subsystem

LEMMA CommitStep ==
    ASSUME BInv, NEW t \in Threads, Commit(t)
    PROVE  BInv'
  BY OutcomeStep DEF Commit

LEMMA ReturnStep ==
    ASSUME BInv, NEW t \in Threads, Return(t)
    PROVE  BInv'
  BY OutcomeStep DEF Return

LEMMA UnwindStep ==
    ASSUME BInv, NEW t \in Threads, Unwind(t)
    PROVE  BInv'
  <1>1. stack[t] # <<>> /\ Pop(t)
    BY DEF Unwind, BInv, Typed
  <1>2. PICK c \in CallRecord : c = Top(t) /\ IsCall(c) /\ CallKnows(c)
    BY <1>1, TopFacts
  <1> DEFINE b == c.bundle
  <1>3. manifest' = manifest /\ bundles' = bundles
    BY DEF Unwind
  <1>4. state' = IF c.old = None THEN state ELSE [state EXCEPT ![b] = c.old]
    BY <1>2 DEF Unwind
  <1>5. throwing' = [throwing EXCEPT ![t] = Len(stack[t]) > 1]
    BY DEF Unwind
  <1>6. /\ OnlyNew(c)
        /\ \A u \in Threads : u # t => stack'[u] = stack[u]
        /\ Len(stack[t]) > 1 => stack'[t] # <<>>
    BY <1>1, Popped DEF BInv
  <1>7. ThrownInCalls
    <2>1. throwing' \in [Threads -> BOOLEAN]
      BY <1>5 DEF BInv, Typed
    <2>2. throwing'[t] <=> Len(stack[t]) > 1
      BY <1>5 DEF BInv, Typed
    <2>3. \A u \in Threads : u # t => (throwing'[u] <=> throwing[u])
      BY <1>5 DEF BInv, Typed
    <2>4. \A u \in Threads : throwing[u] => stack[u] # <<>>
      BY DEF BInv, Typed
    <2> QED
      BY <1>6, <2>1, <2>2, <2>3, <2>4 DEF ThrownInCalls
  <1>8. b \in Bundles /\ c.op \in Operations /\ (c.old # None => c.old \in BundleStates \ {"installed"})
    BY <1>2 DEF CallRecord, CallKnows
  <1>9. c.old = "uninstalled" => b \notin bundles
    BY <1>2 DEF CallKnows
  <1>10. c.old # None => \A d \in Required(b) : Available(d)
    BY <1>2 DEF CallKnows, IsCall
  <1>11. Steady
    BY <1>3, <1>4, <1>8, <1>9 DEF Steady, BInv, Typed, IsResolved, BundleStates
  <1>12. IsCall(c)' /\ CallKnows(c)'
    BY <1>2, <1>11, CallStays DEF BInv
  <1>13. \A a \in Bundles : IsResolved(a)' => IsResolved(a) \/ \A d \in Required(a) : Available(d)
    BY <1>4, <1>8, <1>10 DEF IsResolved, BInv, Typed
  <1>14. \A a \in Bundles : state'[a] = "uninstalled" => a \notin bundles'
    BY <1>3, <1>4, <1>8, <1>9 DEF BInv, Typed, CallsKnow
  <1>15. DependenciesResolved' /\ CallsKnow' /\ AreCalls'
    BY <1>6, <1>11, <1>12, <1>13, <1>14, Carried
  <1>16. resolving' \subseteq Bundles /\ phase' \in {"loaded", "resolveAll", "startAll", "sort", "stopAll", "stopped", "aborted"}
    BY DEF Unwind, BInv, Typed
  <1> QED
    BY <1>6, <1>7, <1>11, <1>15, <1>16
    DEF Unwind, ThrownInCalls, OnlyNew, Steady, BInv, Typed, AreCalls

-----------------------------------------------------------------------------
(* The main thread's loops and the administrators.                           *)

LEMMA MainLoopStep ==
    ASSUME BInv, MainLoop
    PROVE  BInv'
  <1>1. Main \in Threads
    BY DEF Threads
  <1>2. UNCHANGED <<manifest, state, loader, throwing>>
    BY DEF MainLoop, ResolveAllBundles, StartAllBundles, SortBundles, StopAllBundles, LoopBegins
  <1>3. manifest' = manifest /\ state' = state /\ bundles' = bundles
    BY <1>2 DEF loader
  <1>4. /\ phase' \in {"loaded", "resolveAll", "startAll", "sort", "stopAll", "stopped", "aborted"}
        /\ todo' \subseteq Bundles
    BY DEF MainLoop, ResolveAllBundles, StartAllBundles, SortBundles, StopAllBundles, LoopBegins,
           Lowest, BInv, Typed
  <1>5. order' \in Seq(Bundles)
    <2>1. order \in Seq(Bundles) /\ todo \subseteq Bundles
      BY DEF BInv, Typed
    <2>2. CASE UNCHANGED order
      BY <2>1, <2>2
    <2>3. ASSUME NEW b \in todo, order' = <<b>> \o order PROVE order' \in Seq(Bundles)
      BY <2>1, <2>3
    <2>4. CASE order # <<>> /\ order' = Tail(order)
      BY <2>1, <2>4
    <2> QED
      BY <2>2, <2>3, <2>4
      DEF MainLoop, ResolveAllBundles, StartAllBundles, SortBundles, StopAllBundles, LoopBegins, Lowest
  <1>6. Kept
    <2>1. CASE UNCHANGED stack
      BY <1>3, <2>1, KeptUnchanged
    <2>2. ASSUME NEW op \in Operations, NEW b \in Bundles, Push(Main, Call(op, b)) PROVE Kept
      BY <1>1, <1>3, <2>2, KeptByPush
    <2>3. \/ UNCHANGED stack
          \/ \E b \in todo : Push(Main, Call("resolve", b))
          \/ \E b \in todo : Push(Main, Call("start", b))
          \/ order # <<>> /\ Push(Main, Call("stop", Head(order)))
      BY DEF MainLoop, ResolveAllBundles, StartAllBundles, SortBundles, StopAllBundles, LoopBegins, Lowest
    <2>4. todo \subseteq Bundles /\ (order # <<>> => Head(order) \in Bundles)
      <3>1. todo \subseteq Bundles /\ order \in Seq(Bundles)
        BY DEF BInv, Typed
      <3> QED
        BY <3>1
    <2> QED
      BY <2>1, <2>2, <2>3, <2>4 DEF Operations
  <1>7. ThrownInCalls
    BY <1>2, <1>6, NotThrown
  <1> QED
    BY <1>2, <1>4, <1>5, <1>6, <1>7 DEF Kept, ThrownInCalls, BInv, Typed, AreCalls, loader

LEMMA PerformActionStep ==
    ASSUME BInv, Admissible \subseteq Operations,
           NEW t \in Admins, NEW op \in Admissible, NEW b \in Bundles, PerformAction(t, op, b)
    PROVE  BInv'
  <1>1. t \in Threads /\ op \in Operations
    BY DEF Threads
  <1>2. UNCHANGED <<manifest, state, loader, throwing, subsystem>> /\ Push(t, Call(op, b))
    BY DEF PerformAction
  <1>3. manifest' = manifest /\ state' = state /\ bundles' = bundles
    BY <1>2 DEF loader
  <1>4. Kept
    BY <1>1, <1>2, <1>3, KeptByPush
  <1>5. ThrownInCalls
    BY <1>2, <1>4, NotThrown
  <1> QED
    BY <1>2, <1>4, <1>5 DEF Kept, ThrownInCalls, BInv, Typed, AreCalls, loader, subsystem

\* Every step of a thread in a call.
LEMMA ThreadStep ==
    ASSUME BInv, NEW t \in Threads, Step(t)
    PROVE  BInv'
  <1>1. CASE \E op \in Operations : Check(t, op)
    BY <1>1, CheckStep
  <1>2. CASE Enter(t) \/ Commit(t) \/ Return(t) \/ Unwind(t)
    BY <1>2, EnterStep, CommitStep, ReturnStep, UnwindStep
  <1>3. CASE Resolve(t)
    BY <1>3, ResolveBeginsStep, ResolveDependencyStep, ResolveInstallsStep, InstallLibrariesStep,
       ExtendStep DEF Resolve
  <1>4. CASE StartStopUninstall(t)
    BY <1>4, StartOrStopBeginsStep, StartDependencyStep, LoadActivatorStep, ActivatorStartsStep,
       ActivatorStopsStep, UninstallBeginsStep, UninstallRemovesStep DEF StartStopUninstall
  <1> QED
    BY <1>1, <1>2, <1>3, <1>4 DEF Step

-----------------------------------------------------------------------------
(* The theorems.                                                             *)

\* The inductive invariant, with the history variable.
Inv == BInv /\ disturbed \subseteq Bundles

LEMMA InvIsTyped == Inv <=> TypeOK /\ DependenciesResolved /\ CallsKnow
  BY DEF Inv, BInv, Typed, TypeOK

LEMMA InitInv ==
    ASSUME Init
    PROVE  Inv
  <1>1. \A t \in Threads : stack[t] = <<>>
    BY DEF Init
  <1>2. stack \in [Threads -> Seq(CallRecord)]
    BY EmptySeq DEF Init
  <1>3. Typed
    BY <1>1, <1>2, EmptySeq DEF Init, Typed, BundleStates
  <1>4. DependenciesResolved /\ CallsKnow
    BY <1>1 DEF Init, DependenciesResolved, CallsKnow, IsResolved
  <1> QED
    BY <1>3, <1>4 DEF Init, Inv, BInv

LEMMA NextInv ==
    ASSUME Inv, [Next]_vars, Admissible \subseteq Operations
    PROVE  Inv'
  <1>1. CASE UNCHANGED vars
    <2>1. DependenciesResolved' /\ CallsKnow' /\ AreCalls'
      BY <1>1, CarriedUnchanged DEF Inv, vars, loader
    <2>2. Typed'
      BY <1>1, <2>1 DEF Inv, BInv, Typed, AreCalls, vars, loader, subsystem
    <2> QED
      BY <1>1, <2>1, <2>2 DEF Inv, BInv, vars
  <1>2. CASE Next
    <2>1. BInv'
      BY <1>2, ThreadStep, MainLoopStep, PerformActionStep DEF Next, ThreadRuns, MainRuns, Inv
    <2>2. Tracked
      BY <1>2 DEF Next, ThreadRuns, MainRuns
    <2>3. Overlap' \subseteq Bundles
      BY DEF Overlap
    <2> QED
      BY <2>1, <2>2, <2>3 DEF Tracked, Inv
  <1> QED
    BY <1>1, <1>2

\* Bundle and BundleLoader keep their data well formed and every exception
\* has a call to unwind, for any bundles and any number of administrators.
THEOREM BundleTypeCorrect == Spec => []TypeOK
  <1>1. Admissible \subseteq Operations
    BY BundleAssumption
  <1>2. Init => Inv
    BY InitInv
  <1>3. Inv /\ [Next]_vars => Inv'
    BY <1>1, NextInv
  <1>4. Inv => TypeOK
    BY InvIsTyped
  <1> QED
    BY <1>2, <1>3, <1>4, PTL DEF Spec

\* A bundle is never resolved before all it requires are resolved, for any
\* graph of requirements, cyclic ones too, any number of threads and failures.
THEOREM DependenciesResolvedHolds == Spec => []DependenciesResolved
  <1>1. Admissible \subseteq Operations
    BY BundleAssumption
  <1>2. Init => Inv
    BY InitInv
  <1>3. Inv /\ [Next]_vars => Inv'
    BY <1>1, NextInv
  <1>4. Inv => DependenciesResolved
    BY InvIsTyped
  <1> QED
    BY <1>2, <1>3, <1>4, PTL DEF Spec
=============================================================================
