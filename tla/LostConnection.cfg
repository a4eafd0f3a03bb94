CONSTANTS
    Socket = {s1, s2, s3}
    Capacity = 3
    NULL = no
    Watched = {}
    Followed = {"append", "torn", "reuse"}
SPECIFICATION Spec
CHECK_DEADLOCK FALSE
SYMMETRY Symmetry
INVARIANTS
    AllActiveStored
