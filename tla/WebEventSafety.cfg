CONSTANTS
    Sockets = {s1, s2}
    Workers = {w1, w2}
    Subjects <- MCSubjects
    ClientFrames <- MCFrames
    MaxSockets = 2
    MayStop = FALSE
    MaxFrames = 2
    MaxNotifies = 1
SPECIFICATION Spec
SYMMETRY MCSymmetry
CHECK_DEADLOCK FALSE
INVARIANTS
    TypeOK
    MapsAgree
    OneReader
    NoDeafSubscriber
    ShutdownOnce
