CONSTANTS
    Socket = {s1, s2}
    UserID = {u1, u2}
    Ticket = {t1, t2}
    RoleName = {n1, n2}
    RoleType = {k1, k2}
    NULL = no
SPECIFICATION Spec
SYMMETRY Symmetry
INVARIANTS
    TypeOK
    OneRolePerType
    OrphansOnlyAfterCrash
    AnsweredIsLinked
    PlayersHaveRoles
PROPERTIES
    ChosenByLastLogin
