CONSTANTS
    Socket = {s1, s2}
    UserID = {u1, u2}
    RandomID = {r1, r2}
    NULL = no
    TeamCount = 1
    TeamSize = 3
    Elsewhere = {}
    Silent = {s1}
    MaxTaken = 1
    MinFree = 0
SPECIFICATION RaceSpec
SYMMETRY Symmetry
CHECK_DEADLOCK FALSE
INVARIANTS
    JoinedIsListed
