-------------------------------- MODULE Timer --------------------------------
(***************************************************************************)
(* Poco::Util::Timer (osp/Util/src/Timer.cpp) on its TimedNotificationQueue *)
(* (osp/Foundation/src/TimedNotificationQueue.cpp), the event loop of every *)
(* script.  The timer's thread looks at the first entry of a queue ordered *)
(* by time, waits until it is due without holding the queue's mutex, and   *)
(* erases it through the iterator it has kept.  cancel() and the destructor *)
(* are entries too, with a time in the past, so that they are executed by  *)
(* the timer's thread between two tasks.                                   *)
(*                                                                         *)
(* Times are abstracted to what orders the queue: a task's time lies before *)
(* Clock(0), the time of cancel() and the destructor, or after it; among    *)
(* the tasks of each kind it is any, and the first of the latter is due or  *)
(* not.                                                                     *)
(***************************************************************************)
EXTENDS Naturals, FiniteSets, Sequences, SequencesExt

CONSTANTS
    Tasks,        \* the TimerTasks; each is scheduled at most once
    Periodic,     \* those scheduled with an interval
    Callers,      \* threads that call cancel(), once each
    Stop,         \* the StopNotification
    Nothing       \* no entry

ASSUME TimerAssumption ==
    /\ Periodic \subseteq Tasks
    /\ Tasks \cap Callers = {}
    /\ {Stop, Nothing} \cap (Tasks \cup Callers) = {}
    /\ Stop # Nothing

\* What can be in the queue; a CancelNotification is named by its caller.
Controls == Callers \cup {Stop}
Entries == Tasks \cup Controls

VARIABLES
    nfQueue,      \* TimedNotificationQueue::_nfQueue, in the order of the times
    early,        \* the tasks in it whose time lies before Clock(0)
    nfAvailable,  \* _nfAvailable, an event that is reset by the wait it ends
    thread,       \* where the timer's thread is
    it,           \* the iterator it keeps while the mutex is not held
    pNf,          \* the notification it executes
    scheduled,    \* the tasks scheduled so far
    isCancelled,  \* the tasks on which TimerTask::cancel() was called
    caller,       \* where each caller of cancel() is
    finished,     \* CancelNotification::_finished of each caller
    timer,        \* the Timer itself: "alive", in its destructor, or "gone"
    (* History *)
    purging       \* what was scheduled when each caller's cancel() was posted

queueVars == <<nfQueue, early, nfAvailable>>
vars == <<nfQueue, early, nfAvailable, thread, it, pNf, scheduled, isCancelled, caller, finished,
          timer, purging>>

Init ==
    /\ nfQueue = <<>> /\ early = {} /\ nfAvailable = FALSE
    /\ thread = "looking" /\ it = Nothing /\ pNf = Nothing
    /\ scheduled = {} /\ isCancelled = {}
    /\ caller = [c \in Callers |-> "running"]
    /\ finished = {}
    /\ timer = "alive"
    /\ purging = [c \in Callers |-> {}]

-----------------------------------------------------------------------------
(* TimedNotificationQueue *)

\* How many entries of E are queued.
Queued(E) == Cardinality({i \in DOMAIN nfQueue : nfQueue[i] \in E})

\* Variant: the event is set for the first entry only.
EnqueueNotification_First(e, i) ==
    /\ nfQueue' = InsertAt(nfQueue, i, e)
    /\ nfAvailable' = (nfAvailable \/ nfQueue = <<>>)

\* enqueueNotification(): e becomes the i-th entry.
EnqueueNotification(e, i) ==
    /\ nfQueue' = InsertAt(nfQueue, i, e)
    /\ nfAvailable' = TRUE

\* A Clock(0) goes behind the others of its kind and what comes before them.
EnqueueControl(e) == EnqueueNotification(e, Queued(early \cup Controls) + 1) /\ UNCHANGED early

\* A task whose time lies before that, a Timestamp before the system was started.
EnqueueEarly(e) ==
    /\ \E i \in 1..(Queued(early) + 1) : EnqueueNotification(e, i)
    /\ early' = early \cup {e}

\* Any other goes behind them.
EnqueueTask(e) ==
    /\ \E i \in (Queued(early \cup Controls) + 1)..(Len(nfQueue) + 1) : EnqueueNotification(e, i)
    /\ UNCHANGED early

\* clear().
Clear == nfQueue' = <<>> /\ early' = {}

ThreadGoes(from, to) ==
    /\ thread = from /\ thread' = to
    /\ UNCHANGED <<scheduled, isCancelled, caller, timer, purging>>

\* The section under the mutex at the head of waitDequeueNotification's loop.
Look ==
    /\ \/ /\ nfQueue = <<>>
          /\ ThreadGoes("looking", "blocked")
          /\ UNCHANGED it
       \/ /\ nfQueue # <<>>
          /\ ThreadGoes("looking", "timing")
          /\ it' = Head(nfQueue)
    /\ UNCHANGED <<queueVars, pNf, finished>>

\* The time of the entry is compared with the clock.
Time ==
    /\ \/ ThreadGoes("timing", "taking")
       \/ it \in Tasks \ early /\ ThreadGoes("timing", "sleeping")
    /\ UNCHANGED <<queueVars, it, pNf, finished>>

\* wait() returns true, or _nfAvailable.wait() returns.
WakeUp ==
    /\ nfAvailable
    /\ ThreadGoes("blocked", "looking") \/ ThreadGoes("sleeping", "looking")
    /\ nfAvailable' = FALSE
    /\ it' = Nothing
    /\ UNCHANGED <<nfQueue, early, pNf, finished>>

\* wait() returns false, whether the event is set in the same instant or not.
SleepEnds ==
    /\ ThreadGoes("sleeping", "taking")
    /\ UNCHANGED <<queueVars, it, pNf, finished>>

\* dequeueOne(): by the iterator, under the mutex again.
DequeueOne ==
    /\ ThreadGoes("taking", "executing")
    /\ \E i \in DOMAIN nfQueue : nfQueue[i] = it /\ nfQueue' = RemoveAt(nfQueue, i)
    /\ early' = early \ {it}
    /\ pNf' = it
    /\ it' = Nothing
    /\ UNCHANGED <<nfAvailable, finished>>

-----------------------------------------------------------------------------
(* Timer::run() and the execute() of each kind of notification. *)

\* Variant: the waiting caller is told first and the queue cleared after.
ExecuteCancel_TellFirst ==
    \/ /\ pNf \in Callers
       /\ ThreadGoes("executing", "cleared")
       /\ finished' = finished \cup {pNf}
       /\ UNCHANGED <<queueVars, it, pNf>>
    \/ /\ ThreadGoes("cleared", "looking")
       /\ Clear
       /\ pNf' = Nothing
       /\ UNCHANGED <<nfAvailable, it, finished>>

\* Variant: execute() returns false, as that of the StopNotification does.
ExecuteCancel_Ends ==
    /\ pNf \in Callers
    /\ ThreadGoes("executing", "ended")
    /\ Clear
    /\ finished' = finished \cup {pNf}
    /\ pNf' = Nothing
    /\ UNCHANGED <<nfAvailable, it>>

\* CancelNotification: the queue is cleared, then the caller is told.
ExecuteCancel ==
    \/ /\ pNf \in Callers
       /\ ThreadGoes("executing", "cleared")
       /\ Clear
       /\ UNCHANGED <<nfAvailable, it, pNf, finished>>
    \/ /\ ThreadGoes("cleared", "looking")
       /\ finished' = finished \cup {pNf}
       /\ pNf' = Nothing
       /\ UNCHANGED <<queueVars, it>>

\* StopNotification: run() returns.
ExecuteStop ==
    /\ pNf = Stop
    /\ ThreadGoes("executing", "ended")
    /\ Clear
    /\ pNf' = Nothing
    /\ UNCHANGED <<nfAvailable, it, finished>>

\* A task that has not been cancelled begins to run.
BeginTask ==
    /\ pNf \in Tasks
    /\ ThreadGoes("executing", IF pNf \in isCancelled THEN "ran" ELSE "running")
    /\ UNCHANGED <<queueVars, it, pNf, finished>>

\* TimerTask::run() returns, or throws what execute() catches.
EndTask ==
    /\ ThreadGoes("running", "ran")
    /\ UNCHANGED <<queueVars, it, pNf, finished>>

\* Variant: the notification is not released after its execution.
Repeat_Held ==
    /\ ThreadGoes("ran", "looking")
    /\ \/ pNf \in Periodic \ isCancelled /\ EnqueueTask(pNf)
       \/ pNf \notin Periodic \ isCancelled /\ UNCHANGED queueVars
    /\ UNCHANGED <<it, pNf, finished>>

\* A task with an interval is put back unless it was cancelled in the meantime.
Repeat ==
    /\ ThreadGoes("ran", "looking")
    /\ \/ pNf \in Periodic \ isCancelled /\ EnqueueTask(pNf)
       \/ pNf \notin Periodic \ isCancelled /\ UNCHANGED queueVars
    /\ pNf' = Nothing
    /\ UNCHANGED <<it, finished>>

Run ==
    \/ Look \/ Time \/ WakeUp \/ SleepEnds \/ DequeueOne
    \/ ExecuteCancel \/ ExecuteStop \/ BeginTask \/ EndTask \/ Repeat

-----------------------------------------------------------------------------
(* The other threads. *)

\* schedule() and scheduleAtFixedRate(), with validateTask().
Schedule(k) ==
    /\ timer = "alive"
    /\ k \notin scheduled \cup isCancelled
    /\ scheduled' = scheduled \cup {k}
    /\ EnqueueTask(k) \/ EnqueueEarly(k)
    /\ UNCHANGED <<thread, it, pNf, isCancelled, caller, finished, timer, purging>>

\* TimerTask::cancel().
CancelTask(k) ==
    /\ isCancelled' = isCancelled \cup {k}
    /\ UNCHANGED <<queueVars, thread, it, pNf, scheduled, caller, finished, timer, purging>>

Posting(c, wait) ==
    /\ timer = "alive"
    /\ caller[c] = "running"
    /\ caller' = [caller EXCEPT ![c] = IF wait THEN "waiting" ELSE "gone on"]
    /\ purging' = [purging EXCEPT ![c] = {k \in Tasks : pNf = k \/ Contains(nfQueue, k)}]
    /\ UNCHANGED <<thread, it, pNf, scheduled, isCancelled, finished, timer>>

\* Variant: the queue is cleared by the caller.
Cancel_Clears(c, wait) ==
    /\ Posting(c, wait)
    /\ nfQueue' = <<c>> /\ early' = {}
    /\ nfAvailable' = TRUE

\* cancel(wait) up to its wait.
Cancel(c, wait) ==
    /\ Posting(c, wait)
    /\ EnqueueControl(c)

\* CancelNotification::wait() returns.
CancelReturns(c) ==
    /\ caller[c] = "waiting" /\ c \in finished
    /\ caller' = [caller EXCEPT ![c] = "returned"]
    /\ UNCHANGED <<queueVars, thread, it, pNf, scheduled, isCancelled, finished, timer, purging>>

\* ~Timer(), which nobody calls while another thread is inside cancel().
Destroy ==
    /\ timer = "alive"
    /\ \A c \in Callers : caller[c] # "waiting"
    /\ timer' = "joining"
    /\ EnqueueControl(Stop)
    /\ UNCHANGED <<thread, it, pNf, scheduled, isCancelled, caller, finished, purging>>

\* _thread.join() returns.
Joined ==
    /\ timer = "joining" /\ thread = "ended"
    /\ timer' = "gone"
    /\ UNCHANGED <<queueVars, thread, it, pNf, scheduled, isCancelled, caller, finished, purging>>

Next ==
    \/ Run \/ Destroy \/ Joined
    \/ \E k \in Tasks : Schedule(k) \/ CancelTask(k)
    \/ \E c \in Callers : CancelReturns(c) \/ \E wait \in BOOLEAN : Cancel(c, wait)

Spec == Init /\ [][Next]_vars

\* The timer's thread and a waiting caller are scheduled, a sleep and a task
\* end.  Nobody has to schedule, cancel or destroy anything.
Fairness == WF_vars(Run) /\ WF_vars(Joined) /\ \A c \in Callers : WF_vars(CancelReturns(c))

FairSpec == Spec /\ Fairness

-----------------------------------------------------------------------------
\* Types of the variables of Timer and its queue; the thread holds an iterator
\* or a notification in the places where it may use it, and nowhere else.
TypeOK ==
    /\ nfQueue \in Seq(Entries) /\ early \subseteq Tasks /\ nfAvailable \in BOOLEAN
    /\ thread \in {"looking", "blocked", "timing", "sleeping", "taking", "executing", "running",
                   "ran", "cleared", "ended"}
    /\ it \in Entries \cup {Nothing} /\ pNf \in Entries \cup {Nothing}
    /\ it # Nothing <=> thread \in {"timing", "sleeping", "taking"}
    /\ pNf # Nothing <=> thread \in {"executing", "running", "ran", "cleared"}
    /\ scheduled \subseteq Tasks /\ isCancelled \subseteq Tasks
    /\ caller \in [Callers -> {"running", "waiting", "gone on", "returned"}]
    /\ finished \subseteq Callers
    /\ timer \in {"alive", "joining", "gone"}
    /\ purging \in [Callers -> SUBSET Tasks]

\* The iterator the thread keeps while the mutex is not held still points into
\* the queue when it is used: everything that removes entries (cancel(), the
\* destructor) is executed by this very thread.
IteratorIsValid ==
    thread \in {"timing", "sleeping", "taking"} => Contains(nfQueue, it)

\* The thread never sleeps past an entry: while it is blocked on an empty queue
\* or sleeps until its entry is due, an entry posted before that one has set
\* the event, even if it was posted before the sleep began.
NoMissedEntry ==
    /\ thread = "blocked" => nfQueue = <<>> \/ nfAvailable
    /\ thread = "sleeping" => Head(nfQueue) = it \/ nfAvailable

\* When cancel(true) has returned, nothing that was scheduled when it was
\* called is in the queue or running, nor comes back: not even a task that was
\* running at the time of the call and puts itself back into the queue.
PurgedStaysPurged ==
    \A c \in Callers :
        caller[c] = "returned"
            => \A k \in purging[c] : pNf # k /\ ~Contains(nfQueue, k)

\* What was scheduled when cancel() was called is purged, waited for or not,
\* whatever is scheduled before it, whatever repeats itself, and even when
\* another thread's cancel() or the destructor clears the entry that should do it.
CancelPurges ==
    \A c \in Callers, k \in Tasks :
        (k \in purging[c]) ~> (pNf # k /\ ~Contains(nfQueue, k))

-----------------------------------------------------------------------------
(* What Timer.h says and the code does not do. *)

\* cancel(true) "waits until the queue has been purged", on a class "save for
\* multithreaded use": it returns, whatever other threads call.
CancelTerminates == \A c \in Callers : (caller[c] = "waiting") ~> (caller[c] = "returned")

\* What Timer.h says of ~Timer(): "Destroys the Timer, cancelling all pending
\* tasks", after whatever calls of cancel() that have returned.
DestructorReturns == (timer = "joining") ~> (timer = "gone")
=============================================================================
