\* Two workers and four connections: two can be served, one or two queued, and
\* one more finds the queue full; one exception of the pool or of the factory.
CONSTANTS
    Workers = {w1, w2}
    MaxThreads = 2
    MaxQueued = 2
    MaxConnections = 4
    MaxFailures = 1
SPECIFICATION FairSpec
INVARIANTS
    TypeOK
    ThreadsCounted
    QueuedHasThread
    ConnectionsAccounted
PROPERTIES
    QueuedIsServed
    StopEnds
CHECK_DEADLOCK FALSE
