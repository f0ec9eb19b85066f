\* The same over one connection, which breaks, stalls or brings a bad frame.
CONSTANTS
    Users = {u1, u2}
    MaxConnections = 1
    MaxRequests = 2
    Unreliable = {1}
SPECIFICATION FairSpec
INVARIANTS
    NothingAfterBye
PROPERTIES
    ImplementsCall
    BothEndsEnd
CHECK_DEADLOCK FALSE
