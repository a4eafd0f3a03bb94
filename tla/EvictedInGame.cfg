CONSTANTS
    Socket = {s1, s2}
    Beating = {s1}
    UserID = {u1, u2}
    RandomID = {r1}
    NULL = no
    TeamCount = 2
    TeamSize = 1
    Elsewhere = {}
    LateCount = 1
    LostCount = 2
    EvictCount = 3
    Hazards = {}
    Overfull = 0
SPECIFICATION Spec
SYMMETRY Symmetry
CHECK_DEADLOCK FALSE
PROPERTIES
    GameOverDeletesRoom
