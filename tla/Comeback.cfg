CONSTANTS
    Socket = {s1, s2, s3}
    Beating = {s1}
    UserID = {u1, u2}
    RandomID = {r1}
    NULL = no
    TeamCount = 3
    TeamSize = 1
    Elsewhere = {}
    LateCount = 1
    LostCount = 2
    EvictCount = 3
    Hazards = {"comeback"}
    Overfull = 0
SPECIFICATION Spec
SYMMETRY Symmetry
CHECK_DEADLOCK FALSE
INVARIANTS
    NoEmptyRoom
