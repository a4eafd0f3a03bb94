CONSTANTS
    Socket = {s1, s2, s3}
    UserID = {u1, u2, u3}
    RandomID = {r1, r2}
    NULL = no
    TeamCount = 1
    TeamSize = 3
    Elsewhere = {}
SPECIFICATION ReadinessSpec
SYMMETRY Symmetry
PROPERTIES
    StartsWhenAllPressed
