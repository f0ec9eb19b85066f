\* The destructor after calls of cancel() that have returned, or were not waited for.
CONSTANTS
    Tasks = {once, often}
    Periodic = {often}
    Callers = {c1, c2}
    Stop = Stop
    Nothing = Nothing
SPECIFICATION FairSpec
PROPERTIES
    DestructorReturns
CHECK_DEADLOCK FALSE
