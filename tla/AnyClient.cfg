CONSTANTS
    Socket = {s1, s2}
    Beating = {s1}
    UserID = {u1, u2}
    RandomID = {r1}
    NULL = no
    TeamCount = 2
    TeamSize = 1
    Elsewhere = {e1}
    LateCount = 1
    LostCount = 2
    EvictCount = 3
    Hazards = {"joinInRoom", "relogin", "reuse", "sync", "elsewhere"}
    Overfull = 1
SPECIFICATION Spec
SYMMETRY Symmetry
CHECK_DEADLOCK FALSE
INVARIANTS
    SeatsDistinct
    EntityHasEntry
