CONSTANTS
    Socket = {s1, s2, s3}
    Capacity = 3
    NULL = no
    Watched = {s1}
    Followed = {"reuse"}
SPECIFICATION Spec
CHECK_DEADLOCK FALSE
INVARIANTS
    TypeOK
    TableExact
    RecvReturns
PROPERTIES
    PendingReceived
    ClosedRemoved
