\* Two threads calling one server, over one connection after the other.
CONSTANTS
    Users = {u1, u2}
    MaxConnections = 2
    MaxRequests = 2
    Unreliable = {}
SPECIFICATION Spec
SYMMETRY Symmetry
INVARIANTS
    TypeOK
    NoStray
    NoLostRequest
PROPERTIES
    ImplementsCall
CHECK_DEADLOCK FALSE
