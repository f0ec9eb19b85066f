# A verification of the OSP platform in `CppCon2015/osp`

The repository holds the material of several talks. Its one large program is the
server platform behind *On C++, Javascript and WebSockets* (CppCon 2015):
`src/CppCon2015/osp`, the Open Service Platform on top of the POCO libraries,
with the application `src/CppCon2015/app` and its services
`src/CppCon2015/services`. This project models its concurrent core in TLA+,
checks the models with TLC and proves the main results with TLAPS. Paths below
are relative to `src/CppCon2015/osp` unless they begin with `src/`.

| | modules | configurations | proofs |
|---|---|---|---|
| work queue | `NotificationQueue`, `Mailbox`, `NotificationQueueMailbox` | `NotificationQueue.cfg` | `NotificationQueueProofs` |
| TCP server | `TCPServerDispatcher` (on `NotificationQueue`) | `TCPServerDispatcher.cfg` | `TCPServerDispatcherProofs` |
| WebEvent service | `WebEventService` (on `Mailbox`), `MCWebEventService` | `WebEvent*.cfg` | `WebEventServiceProofs`, `WebEventTokenProofs` |
| bundle life cycle | `BundleLoader` (implements `BundleLifeCycle`), `MCBundleLoader` | `Bundle*.cfg` | `BundleLoaderProofs`, `BundleOwnershipProofs` |
| timer | `Timer` | `Timer*.cfg` | `TimerProofs` |
| remoting | `Remoting`, `RemoteCall`, `RemotingCalls`, `MCRemoting` | `Remoting*.cfg` | `RemotingProofs` |

`PROJECT.json` lists components, runs, the code behind every definition,
hazards, findings and theorems. A module has an `MC` module beside it only where
its constants are more than names and numbers, or symmetric.

## 1. The system

### How the parts interact

    AppServer ── OSPSubsystem ── BundleLoader ── bundles and their activators
                                     │                 │ register in
                                     │           ServiceRegistry
       HTTP threads  ────────────────┤                 │ finds
       (TCPServerDispatcher)         │           WebEvent service ── browsers
            │                   BundleAdmin            │
            └── NotificationQueue ◄────────────────────┘
                                                 RemotingNG, JS executors, Timer

`AppServer` is an application with an `OSPSubsystem`, which loads the bundles of
a repository, resolves and starts them, and stops them at exit. Bundles register
services; the web server bundle serves HTTP on the threads of a
`TCPServerDispatcher`, the WebEvent bundle pushes events to browsers over
WebSockets, the JavaScript bundle runs scripts driven by a `Timer`, and
RemotingNG makes services callable from other processes and, through the
JavaScript bridge, from scripts. Threads hand work to each other through
`NotificationQueue` (or its sibling `TimedNotificationQueue`) nearly everywhere.

### Inventory

For each component: its state; its operations; what is hard; what makes it
correct. *Modelled* ones come first.

**NotificationQueue** (`Foundation/src/NotificationQueue.cpp`) – modelled.
State: the queue, the wait list of `WaitInfo`s (slot and event), a mutex.
Operations: post, post urgently, take, wait with and without time-out, wake all,
dispatch, clear. Hard: the hand-over bypasses the queue, and a wait's time-out
races with it. Correct if every notification is delivered once, in order, and
no waiter is forgotten.

**TCP server and dispatcher** (`Net/src/TCPServer.cpp`,
`TCPServerDispatcher.cpp`) – modelled. State: a queue of connections, a reference
count, counts of threads and connections, two stop flags. Operations: accept,
enqueue, serve, stop, destroy. Hard: threads end when idle while connections are
being queued; the count of threads is raised by one thread and lowered by
another; the dispatcher deletes itself. Correct if accepted connections are
served, refused or counted as lost, never forgotten, and the counts are right.

**WebEvent service** (`OSP/WebEvent`) – modelled. State: sockets of subscribers,
two maps of subscriptions, the list of watched sockets, two queues, a stop flag.
Threads: main, workers, HTTP threads (handshakes), callers of `notify()`, the
destructor. Hard: a socket travels between the main thread's `select()` and a
worker; removal is requested by several threads; everything overtakes
everything. Correct if the maps agree, a subscriber's socket has exactly one reader, a
subscriber is shut down once, is notified of what it asked for, is removed when
gone, and if destruction ends.

**Bundle life cycle** (`OSP/src/Bundle.cpp`, `BundleLoader.cpp`,
`OSPSubsystem.cpp`, and `OSP/BundleAdmin` as the other caller) – modelled, but
for loading at startup, upgrade and unloading at exit. State: a state per
bundle, the loader's map, the set of bundles being resolved, class loaders,
activators, extension bundles. Operations: resolve, start, stop, uninstall, and
the loops over all bundles. Hard: recursion under a recursive mutex, states read
and written without it, exceptions that unwind half the work. Correct if bundles
keep in step with the bundles they require, in every state a failure leaves.

**Timer and its timed queue** (`Util/src/Timer.cpp`, `TimerTask.cpp`,
`Foundation/src/TimedNotificationQueue.cpp`) – modelled. State: entries by time,
an event, a thread with an iterator into the queue. Operations: schedule, cancel
(with and without wait), cancel a task, destroy. Hard: the thread keeps its
iterator while the mutex is released; a running task puts itself back behind a
cancel; cancelling clears other people's cancellations. Correct if nothing is
executed late, nothing runs after a `cancel(true)` that returned, and callers
return.

**Remoting connections** (`RemotingNG/TCP`) – modelled in part. State: per end of
a connection a state machine (handshake, established, closing, closed, aborted),
handlers and channels; the manager's connection and the pending ones; frame
queues. Operations: get a connection, request, reply, close, shut down, time out.
Hard: two peers, lost connections, time-outs against late answers, a state
written without the lock others test it with. Correct if both ends agree on the
end, no connection is left to itself, and each request gets its own reply.

**Service registry** (`OSP/src/ServiceRegistry.cpp`) and the **service bundles**
(`src/CppCon2015/services`) – planned. State: services by name. Hard: events are
sent after unlocking. Correct if listeners end up with what is registered, and
if a stopped bundle's services are gone.

**WebTunnel** (`WebTunnel/src/SocketDispatcher.cpp`) – planned. The same threads
as the WebEvent service, with read time-outs. The forwarders and the reflector
around it copy bytes.

**JavaScript executor** (`JS/Core/src/JSExecutor.cpp`) – planned, on top of
`Timer`: timed functions, `stop()`, and a destructor that may run on the timer's
own thread. **Remote events and ORB** (`RemotingNG/src`) – planned: subscriptions
with expiry; the rest are locked registries, marshalling is generated code.

**Web server bundle** (`OSP/Web`): session and path maps behind one mutex each,
requests are I/O. **Bundle repository, files, code cache**: sequential file
system work at startup. **Extension points, preferences, versions, QL**:
sequential, parsers. **JavaScript bridge and wrappers**: value conversions on
one thread. **General libraries** (Crypto, NetSSL, Zip, XML, JSON, Geo, Data,
the rest of Foundation, Net and Util): bindings, codecs, containers.
**Generators** (CodeGeneration, CppParser, PageCompiler, RemoteGen): build tools.
**Talks** (ACCU-2013, ACCU2014, C++Now2013): benchmarks and slides. V8, SQLite,
expat, OpenSSL and CppUnit are vendored. None of these is modelled; `PROJECT.json`
gives the reason for each.

## 2. NotificationQueue

Each section under `_mutex` is one action; blocking on the event, its time-out
and coming back are steps of their own, since they happen outside the mutex.
A `WaitInfo` belongs to one call and a thread is in one call, so it is named by
its thread: `waitQueue` is a sequence of threads, `pNf` and `nfAvailable` are
functions of them.

| code | action |
|---|---|
| `enqueueNotification`, `enqueueUrgentNotification` | the actions of these names, `HandOver` for the branch they share |
| `dequeueNotification`; the other two when the queue is not empty | `DequeueNotification` |
| `waitDequeueNotification` on an empty queue | `BeginWait`, then `FinishWait`, or `WaitTimesOut` and `Withdraw` |
| `dispatch`, `wakeUpAll`, `clear` | `Dispatch`, `WakeUpAll`, `Clear` |

`clock`, `ticket`, `urgent`, `received` and `cleared` are history. Each
notification is posted at most once, which is also the bound of the model.

`Mailbox` is what the users of the queue rely on: a box, a notification set
aside for a thread, and what each thread has. Wait list, events and time-outs
are gone. `NotificationQueueMailbox` maps `box` to `nfQueue`, `aside` to the
slots and `got` to `received`. Under the scheduling of the threads, what was set
aside is taken, even by a thread whose wait timed out at that moment.

Run `notification_queue`: three threads and two notifications, so that one can
overtake the other while two threads wait and a third posts, withdraws or wakes.
It checks `TypeOK`, `NoIdleWaiter`, `NoForgottenWaiter`, `ExactlyOnce`, `Fifo` and
`ImplementsFairMailbox`. Nobody is obliged to post or to
wake, so a state in which all wait is allowed to remain. `UrgentFirst` is proved
and not listed in the run.

## 3. TCP server and dispatcher

The dispatcher's queue is the module `NotificationQueue` itself
(`Q == INSTANCE NotificationQueue`), with connections as notifications and the
pool's threads as its threads: idle workers are its waiters, and what is proved
of the queue is used in the proofs of the dispatcher. `enqueue()` calls queue and
pool with `_mutex` held while workers use the queue without it, so it is three
steps, between which `MutexFree` keeps workers out of sections of `_mutex`; every
other section is one step.

| code | action |
|---|---|
| `TCPServer::run()` | `Accept`, `PollTimesOut`, `NextRound` |
| `enqueue()` | the head in `Accept`, `EnqueueConnection`, then `StartThread`, `NoThreadAvailable` or `NeedsNoThread` |
| `ThreadPool::startWithPriority()`, the dispatcher's `run()` entered and left | `StartThread`, `BeginRun`, `EndRun` |
| `waitDequeueNotification(idleTime)` in `run()` | `TakeConnection`, or `BeginIdle` and `EndIdle` |
| `createConnection()`, `beginConnection()`, `endConnection()` | `FactoryThrows`, `BeginConnection`, `EndConnection` |
| the test at the end of the loop | `CheckEnd` |
| `TCPServer::stop()`, `TCPServerDispatcher::stop()` | `StopAccepting`, `StopFlags`, `StopClears`, `StopWakes` |
| `~TCPServer()`, `release()` | `Release` |

The pool has other users: `NoThreadAvailable` happens when it is exhausted and, up
to `MaxFailures` times together with the factory's exceptions, at any other time.
What a thread does in a deleted dispatcher (`BeginRun` with `rc = 0`) is undefined;
the model ends it in the place `lost`.

Run `dispatcher`: two workers, two places in the queue, four connections, one
failure (about 140,000 states). Four connections are two served, one or two
queued and one that finds the queue full; two workers are the fewest of which
one can be superfluous. It checks

- `ThreadsCounted`: the counter is the number of threads it stands for, whoever
  raised and lowered it (the same of the reference count is proved: `RefCountedHolds`);
- `QueuedHasThread`: no connection lies in the queue without a thread that will
  come back to it. A worker decides to end on `_currentThreads > 1` and an empty
  queue, `enqueue()` decides to start none on an idle thread or the limit: it is
  the mutex around both, and the idle thread's handed-over slot, that make them
  agree. Exceptions are those the code has: the pool had no thread (`starved`), or
  the factory threw (`killed`), which leaves `_currentThreads` too high;
- `ConnectionsAccounted`: every accepted connection is in one place, and the
  statistics say which. A connection queued behind `clear()` in `stop()` is still
  in one place, so this run would not notice one; that the queue of a stopped
  dispatcher stays empty is the theorem `StoppedIsEmptyHolds`;
- `QueuedIsServed`, `StopEnds`, under fairness.

## 4. WebEvent service

The execution of a task is one action: `execute()` of any task works on
variables of its own thread and on the two queues, each of which is used once or
at its end. The queues are those of `Mailbox`: a waiter that has been handed a
notification is a thread that has not yet taken it, so the model needs no wait
list. The one place where being in the wait list matters is `wakeUpAll()` in the
destructor, which wakes any subset of the threads that may have entered it.

| code | action |
|---|---|
| `preflightRequest()`, the rest of `handleRequest()` | `Preflight`, `Connect` |
| `notify()` | `NotifyCall` |
| `runMain()`: `select()`, the two loops, the loop over the queue | `Select`, `ProcessReady`, `ProcessBroken`, `MainTask`, `Drained` |
| the `…Impl` functions of the main thread | `ExecuteAdd`, `ExecuteRemove`, `ExecuteSubscribe`, `ExecuteUnsubscribe`, `ExecuteWatch`, `ExecuteNotify` |
| `runWorker()` | `WorkerTakes` and the actions below |
| `sendImpl()` | `SendDelivers`, `SendFails` |
| `receiveImpl()` by frame | `ReceiveIgnored`, `ReceiveEnd`, `ReceiveRequest`, `ReceiveViolation`, `ReceiveFails` |
| `shutdownImpl()` | `ShutdownCloses`, `ShutdownThrows` |
| `~WebEventServiceImpl()` | `DtorStops`, `DtorWakesMain`, `DtorWakesWorkers`, `DtorJoins` |

Opcodes are sets of bits, because `receiveImpl()` tests them with `&`. Subjects
are sequences of their parts; the cutting at dots in `notifyImpl()` becomes
`Levels`. Clients (`ClientSends`, `ClientGoes`) and `select()` (`Readable`) are
outside the code and modelled from how it uses them. The environment may do
anything at any time within the bounds.

Runs, all with two workers and a subject with a child:

- `webevent_safety`: two sockets, two frames, one `notify()`, a limit of two
  sockets; sockets and workers are symmetric. `MapsAgree`, `OneReader`,
  `NoDeafSubscriber`, `ShutdownOnce` (1,960,000 states). Two frames are enough
  for a subscription overtaken by a removal, two sockets for a notification to
  both, two workers for a send that fails beside a read. Destruction is left to
  the next run: stopping only removes behaviours of threads.
  `OneReader` counts two kinds of readers. `Readers` are those for `receiveImpl()`:
  the main thread's select, a watch or a receive that is queued, a worker that
  executes one; there is at most one for any socket. `ClosingReaders` are the
  workers in `shutdownImpl()` that wait for the client's CLOSE with
  `receiveFrame()` (`WebEventServiceImpl.cpp:679-683`); there is none while the
  socket is a subscriber, and at most one after. The two kinds do meet, once the
  subscriber is removed: section 9.
- `webevent_liveness`: one socket, with the destructor. `GoneIsRemoved` and
  `SubscribersAreNotified`.
- `webevent_destructor` refutes a sentence of a header (section 9).

## 5. Bundle life cycle

Every thread has a stack of calls (`stack`), for `resolve()` and `start()` call
themselves for the bundles a bundle needs. A call is a record of the operation,
the bundle, the place in the function, the next required bundle, and the state
the `StateChange` object will restore. An exception sets `throwing`, and
`Unwind` leaves one call at a time, doing what that call does on its way out.
The mutex is not a variable: `Holds` derives it from where the calls are.

| code | action |
|---|---|
| the test at the head of `Bundle::resolve`, `start`, `stop`, `uninstall` | `Check` |
| `StateChange`, its `commit()` and destructor | `Enter`, `Commit` and `Return`, `Unwind` |
| `resolveBundle`, `resolveDependency`, `installLibraries`, the extension | `ResolveBegins`, `ResolveDependency`, `ResolveInstalls`, `InstallLibraries`, `Extend` |
| `startBundle`, `startDependencies`, `loadActivator` | `StartOrStopBegins`, `StartDependency`, `LoadActivator`, `ActivatorStarts` |
| `stopBundle`, `uninstallBundle` | `ActivatorStops`, `UninstallBegins`, `UninstallRemoves` |
| `resolveAllBundles`, `startAllBundles`, `sortBundles`, `stopAllBundles` | the actions of these names, in the order of `OSPSubsystem` |
| `BundleInfoHandler::performAction` | `PerformAction` |

`start()` and `stop()` write the state they end in twice: `commit()` does, then the
event is sent, then `~StateChange()` writes it again, whatever the bundle has been
through since (`Return`). A class loader is null, without a library, or with one:
after a failed `loadLibrary()` it stays without, and `uninstall()` fails, because
`unloadLibrary()` throws before the class loader is reset (`CannotUnload`).

Libraries, files and activators may fail wherever they are used, up to
`MaxFailures` times. Activators are atomic and do not call the loader.
`Manifests` is a set: TLC checks a chain against its run levels, with two lazy
bundles and one that extends what it requires; a cycle with a bundle that depends
on both its members; and a tangle, of a bundle that is extended by one it requires,
which has no activator, and a missing bundle.

The code tests and sets a bundle's state before it takes the mutex. Two threads
that operate on one bundle at once can therefore both pass the test, and the
later one restores or commits a state the other has left long ago. Nothing the
repository says excludes or promises anything about that. The history variable
`disturbed` collects the bundles this happened to; `Settled`, `ExtensionsAreLoaded`,
`ImplementsLifeCycle`, `DependenciesFirst` and `StopOrder` speak of the others.
`DependenciesResolved`, `ResolvingIsOnStack` and `CallsReturn` hold for all.

Runs:

- `bundle_loader`: three bundles, the three manifests, the main thread and an
  administrator with two calls, one failure. Three bundles give every shape of a
  dependency relation the code distinguishes (direct, transitive, cyclic,
  missing, extended); two calls and a failure give a failed operation followed
  by one that meets what it left, during startup, in operation, and at shutdown
  (423,000 states). Every call returns, under weak fairness of each thread.
  `DependenciesFirst` speaks of the states of the required
  bundles when an activator starts, not of their activators: after a failure an
  active bundle may have none that runs (section 9).
- `bundle_shutdown` refutes a sentence of the documentation (section 9).

`BundleLifeCycle` is the abstract specification: the states `Bundle.h` names, the
activator, and the moves between them, of one bundle at a time and nothing of
threads, calls or failures. Its `Next` lets go of a bundle once it is disturbed.
`ImplementsLifeCycle` says that the loader is one of its implementations; a
dropped test of the state, or a `StateChange` that restores too much, is a move it
does not have. That an activator runs only in a bundle that is active or on its way
(`RunningIsActive`) is a consequence with `Settled`, and is proved, not checked.

## 6. Timer

`Timer` is the timer with its `TimedNotificationQueue`. A time of zero (`Clock(0)`,
used for `cancel()` and the destructor) goes behind the entries of its kind and
before the tasks, but for those scheduled for a time before the system was started,
whose `Clock` is negative (`early`). Any other task is inserted anywhere behind
them, and whether the first task is due is a choice of `Time`. That covers every
clock: the order of the tasks, the periods and the length of sleeps are all
arbitrary.

| code | action |
|---|---|
| `enqueueNotification()` | `EnqueueNotification`, by `EnqueueControl`, `EnqueueTask` or `EnqueueEarly`, in every action that posts |
| `waitDequeueNotification()`: the locked section, the comparison of times, `wait()`, `_nfAvailable.wait()` | `Look`, `Time`, `WakeUp`, `SleepEnds` |
| `dequeueOne()` | `DequeueOne` |
| `TimerNotification::execute()` and its relatives, `TimerTask::run()` | `BeginTask`, `EndTask`, `Repeat` |
| `CancelNotification::execute()`, `StopNotification::execute()` | `ExecuteCancel` (two steps: clear, tell), `ExecuteStop` |
| `schedule()`, `scheduleAtFixedRate()` | `Schedule` |
| `TimerTask::cancel()` | `CancelTask` |
| `cancel(wait)`, `CancelNotification::wait()` | `Cancel`, `CancelReturns` |
| `~Timer()` | `Destroy`, `Joined` |

`purging` is history. `Timer` is not destroyed while another thread is
inside `cancel()`: that would be the caller's error.

Run `timer`: a task run once, a periodic one, two threads that call `cancel()`
with or without waiting (97,000 states). Two callers are needed for one
cancellation to clear another, a periodic task for one that comes back. It checks
`IteratorIsValid` (what the thread's iterator points to is still in the queue:
only the thread itself removes entries), `NoMissedEntry` (an earlier entry
inserted after the thread has chosen what to sleep for wakes it),
`PurgedStaysPurged` (what was scheduled before a `cancel(true)` that has returned is
neither queued nor running again) and, under fairness, `CancelPurges`: every
`cancel()`, waited for or not, is followed by the purge of what was scheduled when it
was called, even if its own entry is cleared by somebody else's.

That the caller of `cancel(true)` returns is another matter. Run `timer_cancel`
refutes `CancelTerminates`: of two threads in `cancel(true)` the first clears the
entry of the second, whose caller waits for ever on a queue that has been purged,
although `Timer.h` says that it waits until then. Run `timer_destructor` shows the same
fate for the destructor's entry (section 9).

## 7. Remoting

One client process with several threads (`Users`), each with a `Transport` to the
same server address, the client's `ConnectionManager`, and both ends of every TCP
connection. A connection's thread assigns `_state` without the mutex that
`close()` and `sendFrame()` take, so every read, test or write of it that another
thread's step can come between is a step of its own. `close()` is two steps, its
test and its write, between which it holds the connection's mutex (`closing`,
`Locked`), and in `shutdown()` the manager's too (`Free`): the connection's thread may
write ABORTED or CLOSING_ACTIVE between the two, and the state it leaves its loop
with is not the one it finds behind it. A frame travels into the peer's input in one
step; from a broken connection it never arrives, whatever the sender is told.

| code | action |
|---|---|
| `Connection::runImpl()`: handshake | `Start`, `Establish`, `HandshakeFails` |
| `receiveFrame()`, `processFrame()`, the idle time-out | `ReceiveFrame`, `HandleFrame`, `ReceiveThrows`, `FrameFails`, `IdleTimesOut`, `PollTimesOut`; `NextRound` is the loop's test |
| behind the loop: `sendBYE()`, `receiveBYE()`, closing the socket | `SendBYE` or `SkipBYE`, `FinishClose` or `FinishAbort` |
| `close()` | `CloseTests`, `CloseSets` |
| `ConnectionManager::shutdown()` | `Shutdown`, or `ShutdownClosing` and `ShutdownClosed` |
| `getConnection()`, `createConnection()`, `waitReady()` | `GetConnection`, `CreateConnection`, `CreateConnectionThrows`, `Connected`, and `ConnectTimesOut`, or `ConnectClosing` and `ConnectClosed` |
| `Transport::beginRequest()`, `sendRequest()`, `endRequest()` | `Begin` with `AllocChannel`, `SendRequest`, `EndRequest` with `Ended` |
| an exception in the serialization or in `sendRequest()` | `Abandon`, the second half of `SendRequest`, both with `Leave` |
| `~ChannelIOS()` of the stream this left behind | `Discard` |
| `ServerConnection`, `ServerTransport` | `Serve`, `Refuse`, `Answer` |

A request or reply is one frame that carries its channel and, as a tag of the
model, the number of the request it belongs to. The network (`Break`, `Stall`) is
outside the code.

Two paths of exceptions matter to the caller:

- *The server has no thread* (`ServerConnection.cpp:57`). `start()` throws, the request
  is not executed, the exception is caught in `processFrame()`, and the destructor of
  the reply stream, whose frame was never sent, sends it empty. The client's
  deserializer finds no message in it and throws. `Refuse` is this path, and
  `refused` remembers for which requests: their reply is in the caller's queue but is
  not an answer.
- *A request stream is left with an unsent frame.* `sendBytes()` may throw on a
  connection that is up (`Stall`: the time-out for sending), `sendFrame()` on one that is
  closing, and the serialization at any time. The `Transport` keeps the stream
  (`leftover`) until the next `beginRequest()` replaces it (`Transport.cpp:234`), or it
  is destroyed itself: then `~ChannelIOS()` sends the frame after all, on the old
  connection and channel (`Discard`). A call that has failed may so be executed later.

Runs:

- `remoting`: two users, two connections, two requests (505,000 states, the users
  being symmetric). Two connections are what a retry after a time-out needs, two users
  what two requests on one connection need, two requests what a late reply or a late
  request of an earlier call needs.
- `remoting_unreliable`: two users and two requests on one connection that may break,
  stall, or bring a frame that `receiveFrame()` throws on (194,000 states). Here the
  connection's thread overwrites what `close()` has set and the other way round.

They check

- `NothingAfterBye` (in the second run): no frame follows a BYE, although `sendFrame()`
  runs on other threads than the one that sends it;
- `NoStray` (in the first): every established connection is the manager's, or on its way to it.
  Excepted are connections that `createConnection()` gave up (`timedOut`): its
  `close()` does nothing before the connection is established, so a late HELO
  establishes one that nobody knows until it idles out;
- `ImplementsCall`: what the callers see is `RemoteCall`, a remote call without
  connections, channels and buffers. It is executed at most once; it is answered, if
  at all, by its own reply, and only after it was executed, whatever is closed, broken,
  late or tried again; the empty reply to a refused request is no answer; a call that
  failed before its request was sent may be sent late, once. `RemotingCalls` maps a
  request to its place: the stream it was left in, the type of the frame that carries
  its number, or the server's thread that executes it. Channels used twice on a
  connection would give a request the late reply of another;
- `NoLostRequest` (in the first): while both ends are up and sending does not time out, a request that
  somebody waits for is in one place: on its way, served, on its way back, be it with an
  empty reply, or answered;
- `BothEndsEnd` (in the second): when one end closes, aborts, times out or fails, the threads of
  both ends leave `runImpl()`. A connection on which sending times out is excepted: an
  end whose BYE could not be sent leaves, and the other learns of it only when the
  socket is closed with the last reference.

## 8. Fairness

Where a configuration has properties of both kinds it uses one specification for
both. Nobody outside the code is ever obliged to do anything: no client, caller,
administrator or peer.

- *NotificationQueue*: a thread whose event is set or whose wait timed out runs;
  a timed wait ends.
- *TCP server*: weak fairness for the accepting thread (not for the arrival of
  connections), for an owner that has begun to stop, and for each worker: the
  operating system schedules threads, waits for `idleTime` end, and a connection is
  served in finite time.
- *WebEvent*: the main thread, each worker and a begun destructor run. Weak
  fairness per worker and not per task, as the operating system gives it.
- *Bundles*: each thread runs and the application is shut down some time; weak
  fairness is enough for a mutex that is released on every path, since with one
  administrator a waiting thread's step stays enabled when it is released.
- *Timer*: the timer's thread and a waiting caller run; a sleep and a task end.
- *Remoting*: some connection thread, waiting caller or begun `close()` moves as long
  as one can. That is less than the fairness of each thread, and enough since what
  they can do is bounded. `waitReady()` has a time-out; no idle time-out, no exception
  on a sound connection, no answer of a service and no end of a request is assumed.

`CHECK_DEADLOCK FALSE` is set except for the queue: a stopped system, or one whose
bounds are used up, does nothing.

## 9. What the code does and its documentation does not say

| run | refuted | what happens |
|---|---|---|
| `webevent_destructor` | shutdown sequence of `NotificationQueue.h:47-51` | a thread that tested `_stopped` before it was set and waits after `wakeUpAll()` is never woken; `join()` blocks |
| `bundle_shutdown` | `00200-OSPBundles.page:306` | with a required bundle uninstalled, `sortBundles()` never ends |
| `timer_cancel` | `Timer.h:68-69` | of two threads in `cancel(true)` one clears the other's entry; that call never returns |
| `timer_destructor` | `Timer.h:57-58` | a `CancelNotification` clears the `StopNotification` posted behind it; `join()` never returns |

Each has a run that finds it and an entry under `findings`. More is in the models
and has no run of its own:

- *A client that closes its WebSocket stays subscribed* (`WebEventService.h:62-63`:
  "by simply closing the WebSocket"). `WebEventServiceImpl.cpp:582` tests the opcode of
  a frame as a mask: CLOSE (`0x8`) shares a bit with PONG (`0xA`) and is ignored as an
  unsolicited one (`ReceiveIgnored`). The subscription goes when the connection does.
- *A removed subscriber's WebSocket need not be closed* (`WebEventService.h:138-140`).
  A client sends two frames. A failed send posts the removal; a worker that has
  read the client's first frame posts `WatchSocket` behind it. The main thread
  executes both: the socket is watched again without a subscriber (`ExecuteWatch`).
  The worker in `shutdownImpl()` polls, and `receiveFrame()` throws on what the client
  sent (`ShutdownThrows`): `close()` is skipped, and the watched socket keeps the
  `WebSocket` open.
- *An active bundle need not have started its activator* (`Bundle.h:235-237`).
  `resolve()`; `start()` stores the class loader, loads the library, and `classFor()`
  throws; `start()` again finds the class loader, takes the bundle's null
  activator, starts nothing and commits `active`; `isActive()` is true.
- *Two workers may read one WebSocket at once.* The main thread finds a socket
  readable and queues a `ReceiveNotification` for it. Before a worker takes it, a send
  to the same socket fails, or `select()` has it in the list of exceptions too
  (`WebEventServiceImpl.cpp:332-348`), and the removal queues a `ShutdownNotification`
  that is not passive. One worker is then in `receiveImpl()`, another in
  `shutdownImpl()` (`:679-683`), both in `receiveFrame()` of one `WebSocket`, which has no
  lock. `OneReader` says that this is the only way two can meet, and only after
  the removal. The model takes a frame whole, so it does not show what becomes of a
  frame of which each takes a part.
- *A remote call that failed may be executed* (`Transport.cpp:234`): section 7.

## 10. What is proved

The theorems hold for all values of the constants, under the assumptions named
in the modules: `NoNfAssumption` (null is not a notification),
`DispatcherAssumption` (finitely many threads, at least one of which may be used),
`FiniteAssumption` and `FramesAssumption` (sockets, subjects and workers are finite
sets; frames are requests about known subjects), `BundleAssumption` (names are
distinct, manifests well formed), `TimerAssumption` (the kinds of entries are
distinct), `RemotingAssumption` (the bounds are numbers).

**`NotificationQueueProofs`.** `TypeCorrect`, `NoIdleWaiterHolds`,
`NoForgottenWaiterHolds`, `ExactlyOnceHolds`, `FifoHolds`, `UrgentFirstHolds`,
`QueueImplementsMailbox`. Three inductive invariants build on each other.
`WaitInv` relates each thread's place to the wait list, its slot and its event:
without it a hand-over could fill the slot of a thread that is not waiting.
`OwnerInv` adds that a posted notification has some owner and no two: what
`ExactlyOnce` counts. `OrderInv` adds that the queue is sorted by ticket, urgent
ones first and in reverse. The step simulation of `Mailbox` needs `OwnerInv` to
know that a posted notification is new to it.

**`TCPServerDispatcherProofs`.** `TypeCorrect`, `ThreadsCountedHolds`,
`RefCountedHolds`, `QueuedHasThreadHolds`, `StoppedIsEmptyHolds`. Every step of the
dispatcher is a step of the queue or leaves it alone, so `WaitInv` is inherited
(`QP == INSTANCE NotificationQueueProofs`). `Counts` makes each counter the
cardinality of a set of places; the lemma `Move` says what one worker's change of
place does to such a set. `Attended` extends `QueuedHasThread` to the steps inside
`enqueue()`: it needs that a worker ends only when it is not the last one, or the
dispatcher is stopped, and that a thread in the wait list is a running worker. `ConnectionsAccountedHolds`
needs what was counted when: `Accounted` adds up, in the midst of `enqueue()` too,
what is accepted, refused, queued, served and lost, and it needs the queue's
`OwnerInv` to know that a connection is in one place.
`DispatcherImplementsQueue` says that every behaviour of the dispatcher is one of
the queue's specification, so the queue's theorems hold of it as they stand:
`DispatcherImplementsMailbox` composes it with the queue's refinement, and
`TakenInOrderHolds` with its `Fifo`, where `ByAccept` adds that the order of
enqueuing is that of accepting.

**`WebEventServiceProofs`.** `WebEventTypeCorrect` and `MapsAgreeHolds`. That the
maps agree is not inductive: executing an `AddSubscriberNotification` for a
socket that is a subscriber already would reset its names and leave its pairs.
`JoinsOnce` excludes it: an addition is queued once, after the handshake and
while the socket is no subscriber.

**`WebEventTokenProofs`.** `OneReaderHolds`, `NoDeafSubscriberHolds`,
`ShutdownOnceHolds`, for any clients and workers. All three rest on `TokenInv`: the
right to read a socket for `receiveImpl()` is a token, which is in an addition, the select list, a
watch or receive notification, or with the worker that reads, and `Tokens` counts
those places. Two of them would be two readers, none for a subscriber that is not
being removed would be a deaf one. The same invariant says when a shutdown may be
pending: never for a socket that is still to be added or is a subscriber, and never
twice; since a worker reads in `shutdownImpl()` only while it executes one, that is
also the second half of `OneReader`, a subscriber having no such reader and a removed
one at most one. The step of the main thread over the ready list keeps a token only because
the list is processed before anything else is (`ReadyInProcess`).

**`BundleLoaderProofs`.** `BundleTypeCorrect` and `DependenciesResolvedHolds`, for
any graph of requirements, any number of threads, calls and failures. The
invariant adds `CallsKnow`: a call that resolves a bundle knows that the
required bundles it has passed are available, and a call that starts or stops
one, that all are; so whatever it commits, or restores, is consistent. This
survives the steps of other threads by `Steady`: a required bundle that is
resolved or gone stays so, since no operation makes a bundle `installed` again
once it has left that state.

**`BundleOwnershipProofs`.** `BundleImplementsLifeCycle`, `SettledHolds`, `RunningIsActiveHolds`,
`ExtensionsAreLoadedHolds`, `ResolvingIsOnStackHolds`, `DependenciesFirstHolds`,
`StopOrderHolds`. The life cycle is guarded by the states of the bundles, not by a
lock, so what is true of a bundle depends on the calls on it. `Owned` says how, for
bundles no two calls have `disturbed`: at most one call has made the state
transient and will put it back or forward, without one it is settled, and the
activator runs only where a call or the state says so. The rest adds to it:
`ExtendsKnown` for extension bundles; `Resolving`, a bijection between
`_resolvingBundles` and the calls that resolve dependencies; `Ups`, that a required
bundle which a `start()` has passed stays in the state active until the activator runs, or
goes to stopping in a `stop()` that must first get the mutex; and `Sorted`, that in the list by which
`stopAllBundles()` goes every running bundle stands before what it requires, and
stays there while bundles are stopped. The step simulation of `BundleLifeCycle`
needs `Owned` alone: a step that writes a state is one of the only call on its
bundle (`Alone`), and that call's place says which move it makes.

**`TimerProofs`.** `TypeCorrect`, `IteratorIsValidHolds`, `NoMissedEntryHolds`,
`PurgedStaysPurgedHolds`, for any tasks and callers. `Held` ties iterator and
notification to the thread's place; `Seen` covers the steps between choosing an
entry and sleeping on it; `Purged` begins where the queue is cleared, before the
caller is told, and `Known` keeps a purged task from being scheduled anew, since
every task found by a `cancel()` was scheduled before it.

**`RemotingProofs`.** `TypeCorrect`, `NothingAfterByeHolds`, `NoStrayHolds`,
`ReplyMatchesHolds`, for any number of users, connections, requests and failures.
`Placed` says what `_state` tells of the thread, in the midst of a `close()` too; it is
what keeps an overwritten state from sending a frame after BYE. `Byes` traces a BYE back to a sender that
has sent it, `Creating` says that one user at a time creates a connection, while
the manager has none, and `Tagged` that a channel of a connection belongs to one
request for good, wherever its frames are. `NoLostRequestHolds` counts frames, and
its invariant `Located` has six parts. `Handshaken`: who sends is past the
handshake of the other end, so no frame is taken for a HELO. `Numbered`: a request
in flight has begun, and is on its user's channel; one that is left in a stream is
nobody's call any more. `Sides`: requests travel to the
server and replies to the client. `Single`: a request is in at most one place,
the streams of failed calls included, whatever has broken. `Refusals`: a refused request
is not executed, sent or left anywhere, so a reply to it is the empty one. `Kept`: on a connection that is up it is in one. Two results
come with it: `AtMostOncePlaced`, which is `Single` for every request, and
`GoneForGoodHolds`, that a request which is nowhere any more, not even in a stream
that its call has left behind, never comes back: nothing is sent, or served, a second
time. `RemotingImplementsCall` is the step
simulation of `RemoteCall`: `PlaceFacts` derives from `Located` that the places of
a request exclude each other, `NothingMoves` and `OneMoves` reduce a step to the
one request it moves, and there is one lemma for each action of `RemoteCall`. That
a reply is given to the one user who is in its call, and to that user only, is
where `Tagged` and `Numbered` are used; that an answer is the reply of a request
that was executed is where `Refusals` is.

Every safety invariant and action property of the runs that are expected to pass
is a theorem. Only model-checked is what speaks of liveness and fairness, which is
out of the prover's reach: `ImplementsFairMailbox`, `QueuedIsServed`, `StopEnds`,
`GoneIsRemoved`, `SubscribersAreNotified`, `CallsReturn`, `CancelPurges`,
`BothEndsEnd`.

## 11. Not modelled

- `NotificationQueue`: `empty()`, `size()` and `hasIdleThreads()`, which change
  nothing; the destructor, which is `clear()`. `dispatch()` runs observers under
  the mutex: one that calls the queue would block itself, and is left out.
- TCP server: what a connection does; the other users of the pool, but for the
  threads they take. A stopped server cannot be started again (`TCPServer.h:140`).
- WebEvent: the local delegates of `subjectNotified()` (application code; their
  map `_eventMap` is changed by callers while `notifyImpl()` walks it, without a
  lock), the contents and order of messages in a client's inbox, exceptions of
  `select()`. `preflightRequest()` compares the limit with the subscribers already
  added, so more than `maxSockets` can connect at once; nothing states a strict
  limit, and the model allows it as the code does.
- Loader: loading, upgrading and replacing bundles, unloading at exit, events to
  listeners, class loaders' libraries, activators that call the loader.
- Timer: absolute times and the length of sleeps; `dequeueNotification()` and the
  wait with a time-out of the queue, which `Timer` does not call.
- Remoting: `registerConnection()` and `abort()` of connections; the server's own
  manager; events, one-way and streamed messages, full frame queues, compression,
  partial frames; the wrap of channel numbers at 2^32. A `Transport` whose request
  failed keeps its connection, channel and frame queue until its next request; of
  those the model keeps the stream with its unsent frame, which alone makes a
  difference. A stream that could not send its frame is discarded before the next
  request of its `Transport` is sent, at any time up to then, since in the model
  the `Transport` may also be destroyed. `ConnectionManager::shutdown()` says in
  `ConnectionManager.h:95` that it closes all connections; like `close()` it does
  nothing for one whose handshake is not finished, which no property touches. The
  pool's thread takes its reference to a `Connection` when it begins to run:
  `ConnectTimesOut` assumes it has begun within the four seconds of `waitReady()`.
- The components without a module, with the reasons given in section 1 and in
  `PROJECT.json`.

## 12. Plan

1. `ServiceRegistry` with listeners and the WebEvent notifier's activator, run
   by the calls of `BundleLoader`.
2. `SocketDispatcher` of WebTunnel, from the parts it shares with the WebEvent
   service.
3. `TimedJSExecutor` on `Timer`: executors destroyed on the timer's own thread.
4. `EventDispatcher`: remote events with expiry, on `Remoting`.
5. Abstract specifications: the WebEvent service as a relation of clients and
   subjects with messages in flight.
