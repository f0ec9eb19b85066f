CONSTANTS
    Sockets = {s1}
    Workers = {w1, w2}
    Subjects <- MCSubjects
    ClientFrames <- MCLivenessFrames
    MaxSockets = 0
    MayStop = TRUE
    MaxFrames = 0
    MaxNotifies = 0
SPECIFICATION FairSpec
CHECK_DEADLOCK FALSE
PROPERTIES
    DestructorReturns
