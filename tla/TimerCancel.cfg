\* Two threads in cancel(), beside a task that runs and one with an interval.
CONSTANTS
    Tasks = {once, often}
    Periodic = {often}
    Callers = {c1, c2}
    Stop = Stop
    Nothing = Nothing
SPECIFICATION FairSpec
PROPERTIES
    CancelTerminates
CHECK_DEADLOCK FALSE
