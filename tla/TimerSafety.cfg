\* A task run once, one with an interval, and two threads in cancel().
CONSTANTS
    Tasks = {once, often}
    Periodic = {often}
    Callers = {c1, c2}
    Stop = Stop
    Nothing = Nothing
SPECIFICATION FairSpec
INVARIANTS
    TypeOK
    IteratorIsValid
    NoMissedEntry
    PurgedStaysPurged
PROPERTIES
    CancelPurges
CHECK_DEADLOCK FALSE
