------------------------- MODULE TCPServerDispatcher -------------------------
(***************************************************************************)
(* Poco::Net::TCPServer and its TCPServerDispatcher (osp/Net/src): one     *)
(* thread accepts connections and puts them into a NotificationQueue;      *)
(* threads borrowed from a pool, which other parts of the program use too, *)
(* take them out and end when there is nothing left to do.  The queue is   *)
(* NotificationQueue itself, with its wait list and its time-outs.         *)
(*                                                                         *)
(* enqueue() calls the queue and the pool with the dispatcher's _mutex     *)
(* held, while workers use the queue without it: enqueue() is three steps, *)
(* every other section under _mutex is one.                                *)
(***************************************************************************)
EXTENDS Naturals, FiniteSets, Sequences, SequencesExt

CONSTANTS
    Workers,         \* the threads of the pool
    MaxThreads,      \* TCPServerParams::getMaxThreads()
    MaxQueued,       \* TCPServerParams::getMaxQueued()
    MaxConnections,  \* bound: connections accepted
    MaxFailures      \* bound: exceptions of the pool and of the factory

Connections == 1..MaxConnections    \* by the order in which they are accepted
NoConnection == 0

ASSUME DispatcherAssumption ==
    /\ IsFiniteSet(Workers)
    /\ MaxThreads \in Nat \ {0} /\ MaxQueued \in Nat
    /\ MaxConnections \in Nat /\ MaxFailures \in Nat

VARIABLES
    (* NotificationQueue _queue, pc being a worker's place inside a wait. *)
    nfQueue, waitQueue, pNf, nfAvailable, pc,
    clock, ticket, urgent, received, cleared,
    (* TCPServerDispatcher *)
    rc, currentThreads, stopped,
    totalConnections, currentConnections, maxConcurrentConnections, refusedConnections,
    (* The threads *)
    at,              \* where each worker is in TCPServerDispatcher::run()
    job,             \* the connection a worker has got from the queue
    acceptor,        \* where TCPServer::run() is
    owner,           \* where the owner of the TCPServer is
    (* Bounds and history *)
    accepted,        \* number of connections accepted
    failures,        \* exceptions so far
    starved,         \* the last attempt to get a thread from the pool failed
    killed           \* workers that left run() by an exception of the factory

queue == <<nfQueue, waitQueue, pNf, nfAvailable, pc, clock, ticket, urgent, received, cleared>>
counters == <<totalConnections, currentConnections, maxConcurrentConnections, refusedConnections>>
threads == <<at, job, acceptor, owner>>
history == <<accepted, failures, starved, killed>>
vars == <<queue, rc, currentThreads, stopped, counters, threads, history>>

Q == INSTANCE NotificationQueue
         WITH Threads <- Workers, Notifications <- Connections, NoNf <- NoConnection

Init ==
    /\ Q!Init
    /\ rc = 1 /\ currentThreads = 0 /\ stopped = FALSE
    /\ totalConnections = 0 /\ currentConnections = 0
    /\ maxConcurrentConnections = 0 /\ refusedConnections = 0
    /\ at = [t \in Workers |-> "pooled"]
    /\ job = [t \in Workers |-> NoConnection]
    /\ acceptor = "polling"
    /\ owner = "running"
    /\ accepted = 0 /\ failures = 0 /\ starved = FALSE /\ killed = 0

\* enqueue() is the one section of _mutex that is more than one step.
MutexFree == acceptor \in {"polling", "ended"}

-----------------------------------------------------------------------------
\* TCPServer::run() tests its _stopped before it polls again.
NextRound == IF owner = "running" THEN "polling" ELSE "ended"

\* Variant: a connection is refused without being counted.
Accept_Uncounted ==
    /\ acceptor = "polling"
    /\ accepted < MaxConnections
    /\ accepted' = accepted + 1
    /\ acceptor' = IF Len(nfQueue) < MaxQueued THEN "enqueueing" ELSE NextRound
    /\ UNCHANGED <<queue, rc, currentThreads, stopped, counters, at, job, owner, failures,
                   starved, killed>>

\* Poll and accept, and the head of enqueue(), which takes _mutex.
Accept ==
    /\ acceptor = "polling"
    /\ accepted < MaxConnections
    /\ accepted' = accepted + 1
    /\ \/ /\ Len(nfQueue) < MaxQueued
          /\ acceptor' = "enqueueing"
          /\ UNCHANGED refusedConnections
       \/ /\ Len(nfQueue) >= MaxQueued
          /\ refusedConnections' = refusedConnections + 1
          /\ acceptor' = NextRound
    /\ UNCHANGED <<queue, rc, currentThreads, stopped, totalConnections, currentConnections,
                   maxConcurrentConnections, at, job, owner, failures, starved, killed>>

\* poll() times out.
PollTimesOut ==
    /\ acceptor = "polling"
    /\ acceptor' = NextRound
    /\ UNCHANGED <<queue, rc, currentThreads, stopped, counters, at, job, owner, history>>

EnqueueConnection ==
    /\ acceptor = "enqueueing"
    /\ Q!EnqueueNotification(accepted)
    /\ acceptor' = "enqueued"
    /\ UNCHANGED <<rc, currentThreads, stopped, counters, at, job, owner, history>>

\* Variant: another thread only for a backlog.
NeedsThread_Backlog == Len(nfQueue) > 1 /\ currentThreads < MaxThreads

\* Variant: the number of threads is not limited.
NeedsThread_NoLimit == waitQueue = <<>>

\* What enqueue() asks before it takes another thread from the pool.
NeedsThread == waitQueue = <<>> /\ currentThreads < MaxThreads

\* startWithPriority(): the thread runs the dispatcher some time later.
StartThread ==
    /\ acceptor = "enqueued" /\ NeedsThread
    /\ \E t \in Workers :
          /\ at[t] = "pooled"
          /\ at' = [at EXCEPT ![t] = "assigned"]
    /\ currentThreads' = currentThreads + 1
    /\ starved' = FALSE
    /\ acceptor' = NextRound
    /\ UNCHANGED <<queue, rc, stopped, counters, job, owner, accepted, failures, killed>>

\* The pool has no thread left: others use it too.
NoThreadAvailable ==
    /\ acceptor = "enqueued" /\ NeedsThread
    /\ failures < MaxFailures \/ \A t \in Workers : at[t] # "pooled"
    /\ failures' = IF failures < MaxFailures THEN failures + 1 ELSE failures
    /\ starved' = TRUE
    /\ acceptor' = NextRound
    /\ UNCHANGED <<queue, rc, currentThreads, stopped, counters, at, job, owner, accepted, killed>>

NeedsNoThread ==
    /\ acceptor = "enqueued" /\ ~NeedsThread
    /\ acceptor' = NextRound
    /\ UNCHANGED <<queue, rc, currentThreads, stopped, counters, at, job, owner, history>>

Acceptor ==
    \/ PollTimesOut \/ EnqueueConnection \/ StartThread \/ NoThreadAvailable \/ NeedsNoThread

-----------------------------------------------------------------------------
\* The pool's thread enters run(), whose guard duplicates the dispatcher.  If
\* that is deleted already, what follows is undefined: the thread is lost.
BeginRun(t) ==
    /\ at[t] = "assigned" /\ MutexFree
    /\ \/ /\ rc > 0
          /\ rc' = rc + 1
          /\ at' = [at EXCEPT ![t] = "polling"]
       \/ /\ rc = 0
          /\ at' = [at EXCEPT ![t] = "lost"]
          /\ UNCHANGED rc
    /\ UNCHANGED <<queue, currentThreads, stopped, counters, job, acceptor, owner, history>>

\* waitDequeueNotification(idleTime) returns c, or null.
Got(t, c) ==
    /\ job' = [job EXCEPT ![t] = c]
    /\ at' = [at EXCEPT ![t] = IF c = NoConnection THEN "checking" ELSE "creating"]
    /\ UNCHANGED <<rc, currentThreads, stopped, counters, acceptor, owner, history>>

TakeConnection(t) ==
    /\ at[t] = "polling"
    /\ Q!DequeueNotification(t)
    /\ Got(t, Head(nfQueue))

BeginIdle(t) ==
    /\ at[t] = "polling"
    /\ Q!BeginWait(t, "timedWait") \/ Q!WaitTimesOut(t)
    /\ UNCHANGED <<rc, currentThreads, stopped, counters, threads, history>>

EndIdle(t) ==
    /\ at[t] = "polling"
    /\ Q!FinishWait(t) \/ Q!Withdraw(t)
    /\ Got(t, pNf[t])

\* createConnection() throws: run() is left as it is, but for its guard.
FactoryThrows(t) ==
    /\ at[t] = "creating" /\ MutexFree
    /\ failures < MaxFailures
    /\ failures' = failures + 1
    /\ killed' = killed + 1
    /\ at' = [at EXCEPT ![t] = "pooled"]
    /\ job' = [job EXCEPT ![t] = NoConnection]
    /\ rc' = rc - 1
    /\ UNCHANGED <<queue, currentThreads, stopped, counters, acceptor, owner, accepted, starved>>

BeginConnection(t) ==
    /\ at[t] = "creating" /\ MutexFree
    /\ at' = [at EXCEPT ![t] = "serving"]
    /\ totalConnections' = totalConnections + 1
    /\ currentConnections' = currentConnections + 1
    /\ maxConcurrentConnections' = IF currentConnections' > maxConcurrentConnections
                                   THEN currentConnections' ELSE maxConcurrentConnections
    /\ UNCHANGED <<queue, rc, currentThreads, stopped, refusedConnections, job, acceptor, owner,
                   history>>

\* pConnection->start() returns, whatever happened to the connection.
EndConnection(t) ==
    /\ at[t] = "serving" /\ MutexFree
    /\ at' = [at EXCEPT ![t] = "checking"]
    /\ job' = [job EXCEPT ![t] = NoConnection]
    /\ currentConnections' = currentConnections - 1
    /\ UNCHANGED <<queue, rc, currentThreads, stopped, totalConnections, maxConcurrentConnections,
                   refusedConnections, acceptor, owner, history>>

\* The thread is one of several and finds nothing to do.
Superfluous == currentThreads > 1 /\ nfQueue = <<>>

\* Variant: a thread that finds the dispatcher stopped forgets to count itself out.
CheckEnd_Uncounted(t) ==
    /\ at[t] = "checking" /\ MutexFree
    /\ at' = [at EXCEPT ![t] = IF stopped \/ Superfluous THEN "leaving" ELSE "polling"]
    /\ currentThreads' = IF Superfluous THEN currentThreads - 1 ELSE currentThreads
    /\ UNCHANGED <<queue, rc, stopped, counters, job, acceptor, owner, history>>

\* Variant: only superfluous threads end.
CheckEnd_IgnoresStop(t) ==
    /\ at[t] = "checking" /\ MutexFree
    /\ at' = [at EXCEPT ![t] = IF Superfluous THEN "leaving" ELSE "polling"]
    /\ currentThreads' = IF Superfluous THEN currentThreads - 1 ELSE currentThreads
    /\ UNCHANGED <<queue, rc, stopped, counters, job, acceptor, owner, history>>

\* The end of the loop's body.
CheckEnd(t) ==
    /\ at[t] = "checking" /\ MutexFree
    /\ \/ /\ stopped \/ Superfluous
          /\ currentThreads' = currentThreads - 1
          /\ at' = [at EXCEPT ![t] = "leaving"]
       \/ /\ ~(stopped \/ Superfluous)
          /\ at' = [at EXCEPT ![t] = "polling"]
          /\ UNCHANGED currentThreads
    /\ UNCHANGED <<queue, rc, stopped, counters, job, acceptor, owner, history>>

\* The guard of run() releases the dispatcher.
EndRun(t) ==
    /\ at[t] = "leaving" /\ MutexFree
    /\ at' = [at EXCEPT ![t] = "pooled"]
    /\ rc' = rc - 1
    /\ UNCHANGED <<queue, currentThreads, stopped, counters, job, acceptor, owner, history>>

Worker(t) ==
    \/ BeginRun(t) \/ TakeConnection(t) \/ BeginIdle(t) \/ EndIdle(t) \/ FactoryThrows(t)
    \/ BeginConnection(t) \/ EndConnection(t) \/ CheckEnd(t) \/ EndRun(t)

-----------------------------------------------------------------------------
OwnerGoes(from, to) ==
    /\ owner = from
    /\ owner' = to
    /\ UNCHANGED <<currentThreads, counters, at, job, acceptor, history>>

\* TCPServer::stop() sets its _stopped and joins the accepting thread.
StopAccepting ==
    /\ OwnerGoes("running", "joining")
    /\ UNCHANGED <<queue, rc, stopped>>

\* TCPServerDispatcher::stop(), without the mutex.
StopFlags ==
    /\ acceptor = "ended"
    /\ OwnerGoes("joining", "clearing")
    /\ stopped' = TRUE
    /\ UNCHANGED <<queue, rc>>

StopClears ==
    /\ OwnerGoes("clearing", "waking")
    /\ Q!Clear \/ (nfQueue = <<>> /\ UNCHANGED queue)
    /\ UNCHANGED <<rc, stopped>>

StopWakes ==
    /\ OwnerGoes("waking", "stopped")
    /\ Q!WakeUpAll \/ (waitQueue = <<>> /\ UNCHANGED queue)
    /\ UNCHANGED <<rc, stopped>>

\* The destructor of TCPServer; the dispatcher is deleted when rc is 0.
Release ==
    /\ OwnerGoes("stopped", "gone")
    /\ rc' = rc - 1
    /\ UNCHANGED <<queue, stopped>>

Owner == StopFlags \/ StopClears \/ StopWakes

Next ==
    \/ Accept \/ Acceptor \/ StopAccepting \/ Owner \/ Release
    \/ \E t \in Workers : Worker(t)

Spec == Init /\ [][Next]_vars

\* Every thread that can go on does so, in the end; a connection is served in
\* finite time.  Nobody has to connect, to stop or to destroy the server.
Fairness ==
    /\ WF_vars(Acceptor) /\ WF_vars(Owner)
    /\ \A t \in Workers : WF_vars(Worker(t))

FairSpec == Spec /\ Fairness

-----------------------------------------------------------------------------
\* The workers between startWithPriority() and the counting out in CheckEnd.
Running ==
    {t \in Workers : at[t] \in {"assigned", "polling", "creating", "serving", "checking", "lost"}}

\* The workers inside run(), whose guard holds a reference.
Holding ==
    {t \in Workers : at[t] \in {"polling", "creating", "serving", "checking", "leaving"}}

\* Types of the variables of TCPServerDispatcher and of its threads.
TypeOK ==
    /\ Q!TypeOK
    /\ rc \in Nat /\ currentThreads \in 0..MaxThreads /\ stopped \in BOOLEAN
    /\ totalConnections \in Nat /\ currentConnections \in Nat
    /\ maxConcurrentConnections \in Nat /\ refusedConnections \in Nat
    /\ at \in [Workers -> {"pooled", "assigned", "polling", "creating", "serving", "checking",
                           "leaving", "lost"}]
    /\ job \in [Workers -> Connections \cup {NoConnection}]
    /\ acceptor \in {"polling", "enqueueing", "enqueued", "ended"}
    /\ owner \in {"running", "joining", "clearing", "waking", "stopped", "gone"}
    /\ accepted \in 0..MaxConnections /\ failures \in 0..MaxFailures
    /\ starved \in BOOLEAN /\ killed \in Nat

\* The threads the dispatcher believes to have are the ones that run it, and
\* the ones the factory's exception took from it, which it never gets back; so
\* no more than the configured number of connections is ever served at a time.
\* (currentThreads is counted up by the acceptor after the pool has started
\* the thread, down by the thread itself, in another section of the mutex.)
ThreadsCounted ==
    /\ currentThreads = Cardinality(Running) + killed
    /\ maxConcurrentConnections <= MaxThreads

\* The reference count is one for the server and one for each worker inside
\* run(), however it is left: the dispatcher is neither deleted under a worker
\* that has entered run() nor kept alive by one that has gone.
RefCounted == rc = Cardinality(Holding) + (IF owner = "gone" THEN 0 ELSE 1)

\* No connection is left in the queue without a thread that will take it: the
\* last thread never ends while enqueue() relies on it.  Excepted are what
\* the code gives up: the pool had no thread when there was none (the queued
\* connection then waits for the next one to arrive), and dead threads that
\* are still counted.
QueuedHasThread ==
    nfQueue # <<>> /\ acceptor = "polling" /\ owner = "running"
        => Running # {} \/ starved \/ killed > 0

\* Every connection accepted is refused, in the queue, in the slot of a waiting
\* thread, with a worker, served, discarded by stop(), or lost to an exception
\* of the factory, and the statistics say so: none is lost between the
\* acceptor's and the workers' steps, none counted twice.
ConnectionsAccounted ==
    /\ accepted = refusedConnections + (IF acceptor = "enqueueing" THEN 1 ELSE 0)
                    + Len(nfQueue) + Cardinality({t \in Workers : pNf[t] # NoConnection})
                    + Cardinality({t \in Workers : at[t] = "creating"})
                    + totalConnections + killed + Cardinality(cleared)
    /\ currentConnections = Cardinality({t \in Workers : at[t] = "serving"})

\* After TCPServerDispatcher::stop() has cleared the queue nothing is put into
\* it: the accepting thread has been joined first.
StoppedIsEmpty == owner \in {"waking", "stopped", "gone"} => nfQueue = <<>>

\* A connection that is queued leaves the queue, unless the exceptions above
\* have taken the thread it was queued for.
QueuedIsServed ==
    \A c \in Connections :
        (c \in ToSet(nfQueue)) ~> (c \notin ToSet(nfQueue) \/ starved \/ killed > 0)

\* Once the dispatcher is stopped every worker goes back to the pool: stop()
\* wakes the idle ones, and one that begins to wait after that times out.  (A
\* worker the pool starts after the dispatcher's end is lost, see BeginRun.)
StopEnds == stopped ~> (\A t \in Workers : at[t] \in {"pooled", "lost"})
=============================================================================
