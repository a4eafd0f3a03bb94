CONSTANTS
    Socket = {s1, s2, s3}
    UserID = {u1, u2, u3}
    RandomID = {r1, r2}
    NULL = no
    TeamCount = 2
    TeamSize = 2
    Elsewhere = {}
SPECIFICATION ReadinessSpec
SYMMETRY Symmetry
INVARIANTS
    ReadinessTypeOK
    FreeCount
    RoleOnce
    EntryHasEntity
    EntityHasEntry
    CaptainFirst
PROPERTIES
    KeepsRegistry
