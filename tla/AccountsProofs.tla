---------------------------- MODULE AccountsProofs -----------------------------
(***************************************************************************)
(* For any users, sockets, tickets, names and types of role: the tables    *)
(* and the entities keep their types, and what Accounts states of roles,   *)
(* answers and sessions is true.                                           *)
(***************************************************************************)
EXTENDS Accounts, TLAPS

Row == [playerInfoID : UserID \cup {NULL}, session : Session \cup {NULL}]

(* A registration that is under way has its row. *)
StartedHasRow == ~Idle => registering.user \in User

(* PlayerInfoID is the row's own userID, or not set yet. *)
OwnLink == \A u \in User : userInfo[u].playerInfoID \in {NULL, u}

(* It is not set only within a registration, or after a torn one. *)
UnlinkedIsTorn ==
    \A u \in User : userInfo[u].playerInfoID = NULL => torn \/ registering.user = u

(* A session in the database names its user. *)
OwnSession ==
    \A u \in User : userInfo[u].session # NULL =>
        \E ticket \in Ticket : userInfo[u].session = <<u, ticket>>

(* Only the socket of the last login has the session of the database. *)
LastSession ==
    \A u \in User, s \in cache :
        userInfo[u].session # NULL /\ userInfo[u].session = entity[s].session =>
            u \in repeated \/ lastLogin[u] = s

(* What the tables say of each other. *)
Tables ==
    /\ StartedHasRow
    /\ OwnLink
    /\ UnlinkedIsTorn
    /\ OneRolePerType
    /\ OrphansOnlyAfterCrash
    /\ AnsweredIsLinked

Sessions ==
    /\ OwnSession
    /\ LastSession
    /\ PlayersHaveRoles

IInv == TypeOK /\ Tables /\ Sessions

-------------------------------------------------------------------------------
(* The empty database. *)
LEMMA InitHolds == Init => IInv
<1> SUFFICES ASSUME Init
             PROVE  IInv
  OBVIOUS
<1>1. User = {}
  BY DEF Init, User, EmptyTable
<1>2. userInfo \in [User -> Row]
  BY DEF Init, User, EmptyTable
<1>3. TypeOK
  BY <1>1, <1>2 DEF Init, TypeOK, Row, NewEntity, NotRegistering
<1>4. Tables
  BY <1>1 DEF Init, Tables, StartedHasRow, OwnLink, UnlinkedIsTorn, OneRolePerType,
              OrphansOnlyAfterCrash, AnsweredIsLinked, Idle
<1>5. Sessions
  BY <1>1 DEF Init, Sessions, OwnSession, LastSession, PlayersHaveRoles
<1> QED
  BY <1>3, <1>4, <1>5 DEF IInv

(* The rows once a name was inserted. *)
LEMMA InsertedRows ==
    ASSUME TypeOK, NEW u \in UserID
    PROVE  /\ DOMAIN Inserted(u) = User \cup {u}
           /\ \A x \in User : Inserted(u)[x] = userInfo[x]
           /\ u \notin User => Inserted(u)[u] = [playerInfoID |-> NULL, session |-> NULL]
           /\ Inserted(u) \in [User \cup {u} -> Row]
BY DEF Inserted, TypeOK, Row

(* The rows once one was linked: its user is set, the rest is kept. *)
LEMMA LinkedRows ==
    ASSUME TypeOK, NEW u \in User
    PROVE  /\ DOMAIN Linked(u) = User
           /\ \A x \in User : Linked(u)[x].session = userInfo[x].session
           /\ \A x \in User \ {u} : Linked(u)[x] = userInfo[x]
           /\ Linked(u)[u].playerInfoID = u
           /\ Linked(u) \in [User -> Row]
BY DEF Linked, TypeOK, Row, User

(* The rows once one has a new session. *)
LEMMA LoggedInRows ==
    ASSUME TypeOK, NEW u \in User, NEW ticket \in Ticket
    PROVE  /\ DOMAIN LoggedIn(u, <<u, ticket>>) = User
           /\ \A x \in User :
                 LoggedIn(u, <<u, ticket>>)[x].playerInfoID = userInfo[x].playerInfoID
           /\ \A x \in User \ {u} : LoggedIn(u, <<u, ticket>>)[x] = userInfo[x]
           /\ LoggedIn(u, <<u, ticket>>)[u].session = <<u, ticket>>
           /\ LoggedIn(u, <<u, ticket>>) \in [User -> Row]
BY DEF LoggedIn, TypeOK, Row, User, Session

(* The row a role is inserted with: its owner is linked, unless a          *)
(* registration was torn, and has no other role of the type.               *)
LEMMA InfoIDOwner ==
    ASSUME TypeOK, Tables, Idle, NEW u \in User
    PROVE  /\ InfoID(u) \in {0, u}
           /\ InfoID(u) = 0 => torn
           /\ InfoID(u) # 0 => InfoID(u) = userInfo[u].playerInfoID
<1>1. u # 0 /\ u # NULL /\ NULL # 0
  BY AccountAssumption DEF TypeOK
<1>2. registering.user = NULL
  BY DEF Idle, NotRegistering
<1> QED
  BY <1>1, <1>2 DEF InfoID, Tables, OwnLink, UnlinkedIsTorn

(* What the join finds for a user is a role under the user's own id. *)
LEMMA RowsAreOwned ==
    ASSUME TypeOK, OwnLink, NEW u \in User, NEW type, HasRole(u, type)
    PROVE  \E row \in playerInfo : row.roleID = u /\ row.roleType = type
<1>1. PICK row \in playerInfo :
          row.roleID = userInfo[u].playerInfoID /\ row.roleType = type
  BY DEF HasRole
<1>2. row.roleID # NULL
  BY <1>1, AccountAssumption DEF TypeOK
<1> QED
  BY <1>1, <1>2 DEF OwnLink

-------------------------------------------------------------------------------
(* One lemma for every action *)

(* A connection and an eviction only reset one entity. *)
LEMMA ConnectKeeps ==
    ASSUME IInv, NEW s \in Socket, Connect(s) \/ Evict(s)
    PROVE  IInv'
<1> USE AccountAssumption DEF IInv
<1>1. UNCHANGED <<userInfo, playerInfo, registering, answered, torn, lastLogin, repeated>>
  BY DEF Connect, Evict, history
<1>2. entity' = [entity EXCEPT ![s] = NewEntity] /\ cache' \in SUBSET Socket
      /\ \A x \in cache' : x = s \/ x \in cache
  BY DEF Connect, Evict, TypeOK
<1>3. TypeOK'
  BY <1>1, <1>2 DEF TypeOK, User, NewEntity, Session
<1>4. Tables'
  BY <1>1 DEF Tables, StartedHasRow, OwnLink, UnlinkedIsTorn, OneRolePerType,
              OrphansOnlyAfterCrash, AnsweredIsLinked, User, Idle
<1>5. entity'[s] = NewEntity /\ \A x \in Socket \ {s} : entity'[x] = entity[x]
  BY <1>2 DEF TypeOK
<1>6. OwnSession' /\ LastSession'
  BY <1>1, <1>2, <1>5 DEF Sessions, OwnSession, LastSession, User, NewEntity, TypeOK
<1>7. PlayersHaveRoles'
  BY <1>1, <1>2, <1>5 DEF Sessions, PlayersHaveRoles, NewEntity, TypeOK
<1> QED
  BY <1>3, <1>4, <1>6, <1>7 DEF Sessions

(* A crash leaves the tables; what it interrupts counts as torn. *)
LEMMA CrashKeeps ==
    ASSUME IInv, Crash
    PROVE  IInv'
<1> USE AccountAssumption DEF IInv, Crash
<1>1. TypeOK'
  BY DEF TypeOK, User, NewEntity, NotRegistering, Session
<1>2. StartedHasRow' /\ OwnLink' /\ OneRolePerType' /\ AnsweredIsLinked'
  BY DEF Tables, StartedHasRow, OwnLink, OneRolePerType, AnsweredIsLinked, User, Idle
<1>3. UnlinkedIsTorn'
  BY DEF Tables, UnlinkedIsTorn, User, Idle, NotRegistering, TypeOK
<1>4. OrphansOnlyAfterCrash'
  BY DEF Tables, OrphansOnlyAfterCrash
<1>5. Sessions'
  BY DEF Sessions, OwnSession, LastSession, PlayersHaveRoles, User
<1> QED
  BY <1>1, <1>2, <1>3, <1>4, <1>5 DEF Tables

(* A new row is unlinked while its registration is under way. *)
LEMMA RegisterInsertKeeps ==
    ASSUME IInv, NEW u \in UserID, RegisterInsert(u)
    PROVE  IInv'
<1> USE AccountAssumption DEF IInv
<1>1. /\ User' = User \cup {u}
      /\ \A x \in User : userInfo'[x] = userInfo[x]
      /\ u \notin User => userInfo'[u] = [playerInfoID |-> NULL, session |-> NULL]
      /\ userInfo' \in [User' -> Row]
  BY InsertedRows DEF RegisterInsert, User
<1>2. /\ registering' = [user |-> u, success |-> u \notin User]
      /\ UNCHANGED <<playerInfo, cache, entity, answered, torn, lastLogin, repeated>>
      /\ Idle
  BY DEF RegisterInsert, history
<1>3. TypeOK'
  BY <1>1, <1>2 DEF TypeOK, Row
<1>4. StartedHasRow' /\ OwnLink'
  BY <1>1, <1>2 DEF Tables, StartedHasRow, OwnLink
<1>5. UnlinkedIsTorn'
  <2>1. \A x \in User : userInfo[x].playerInfoID = NULL => torn
    BY <1>2 DEF Tables, UnlinkedIsTorn, Idle, NotRegistering, TypeOK
  <2> QED
    BY <2>1, <1>1, <1>2 DEF UnlinkedIsTorn
<1>6. OneRolePerType' /\ OrphansOnlyAfterCrash' /\ AnsweredIsLinked'
  BY <1>1, <1>2 DEF Tables, OneRolePerType, OrphansOnlyAfterCrash, AnsweredIsLinked
<1>7. OwnSession' /\ LastSession' /\ PlayersHaveRoles'
  BY <1>1, <1>2 DEF Sessions, OwnSession, LastSession, PlayersHaveRoles
<1> QED
  BY <1>3, <1>4, <1>5, <1>6, <1>7 DEF Tables, Sessions

(* The second statement links the row before the client is answered. *)
LEMMA RegisterLinkKeeps ==
    ASSUME IInv, RegisterLink
    PROVE  IInv'
<1> USE AccountAssumption DEF IInv
<1> DEFINE u == registering.user
<1>1. u \in User
  BY DEF RegisterLink, Tables, StartedHasRow
<1>2. /\ User' = User
      /\ \A x \in User : userInfo'[x].session = userInfo[x].session
      /\ \A x \in User \ {u} : userInfo'[x] = userInfo[x]
      /\ userInfo'[u].playerInfoID = u
      /\ userInfo' \in [User' -> Row]
  BY <1>1, LinkedRows DEF RegisterLink, User
<1>3. /\ answered' \subseteq answered \cup {u}
      /\ registering' = NotRegistering
      /\ UNCHANGED <<playerInfo, cache, entity, torn, lastLogin, repeated>>
  BY DEF RegisterLink
<1>4. u \in UserID
  BY <1>1 DEF TypeOK
<1>5. TypeOK'
  BY <1>2, <1>3, <1>4 DEF TypeOK, Row, NotRegistering
<1>6. StartedHasRow' /\ OwnLink'
  BY <1>1, <1>2, <1>3 DEF Tables, StartedHasRow, OwnLink, Idle
<1>7. UnlinkedIsTorn'
  <2>1. SUFFICES ASSUME NEW x \in User, userInfo'[x].playerInfoID = NULL
                 PROVE  torn
    BY <1>2, <1>3 DEF UnlinkedIsTorn
  <2>2. x # u
    BY <2>1, <1>2, <1>4
  <2> QED
    BY <2>1, <2>2, <1>2 DEF Tables, UnlinkedIsTorn
<1>8. OneRolePerType' /\ OrphansOnlyAfterCrash' /\ AnsweredIsLinked'
  BY <1>1, <1>2, <1>3 DEF Tables, OneRolePerType, OrphansOnlyAfterCrash, AnsweredIsLinked
<1>9. OwnSession' /\ LastSession' /\ PlayersHaveRoles'
  BY <1>2, <1>3 DEF Sessions, OwnSession, LastSession, PlayersHaveRoles
<1> QED
  BY <1>5, <1>6, <1>7, <1>8, <1>9 DEF Tables, Sessions

(* A login replaces the session of one user, in the table and in one       *)
(* entity: another entity that has it too drew the same random number.     *)
LEMMA LoginKeeps ==
    ASSUME IInv, NEW s \in Socket, NEW u \in UserID, NEW ticket \in Ticket, Login(s, u, ticket)
    PROVE  IInv'
<1> USE AccountAssumption DEF IInv
<1> DEFINE session == <<u, ticket>>
<1>1. /\ u \in User
      /\ UNCHANGED <<playerInfo, cache, registering, answered, torn>>
      /\ lastLogin' = [lastLogin EXCEPT ![u] = s]
  BY DEF Login
<1>2. /\ User' = User
      /\ \A x \in User : userInfo'[x].playerInfoID = userInfo[x].playerInfoID
      /\ \A x \in User \ {u} : userInfo'[x] = userInfo[x]
      /\ userInfo'[u].session = session
      /\ userInfo' \in [User' -> Row]
  <2>1. userInfo' = LoggedIn(u, <<u, ticket>>)
    BY DEF Login
  <2>2. /\ DOMAIN LoggedIn(u, <<u, ticket>>) = User
        /\ \A x \in User :
              LoggedIn(u, <<u, ticket>>)[x].playerInfoID = userInfo[x].playerInfoID
        /\ \A x \in User \ {u} : LoggedIn(u, <<u, ticket>>)[x] = userInfo[x]
        /\ LoggedIn(u, <<u, ticket>>)[u].session = <<u, ticket>>
        /\ LoggedIn(u, <<u, ticket>>) \in [User -> Row]
    BY <1>1, LoggedInRows
  <2>3. User' = User
    BY <2>1, <2>2 DEF User
  <2> QED
    BY <2>1, <2>2, <2>3
<1>3. /\ repeated \subseteq repeated' /\ repeated' \subseteq repeated \cup {u}
      /\ \A x \in cache \ {s} : entity[x].session = session => u \in repeated'
  BY DEF Login
<1>4. session \in Session /\ session # NULL
  BY DEF Session
<1>5. /\ entity' \in [Socket -> [session : Session \cup {NULL}, roleid : UserID \cup {0},
                                 roletype : RoleType \cup {NULL}, found : BOOLEAN]]
      /\ \A x \in Socket \ {s} : entity'[x] = entity[x]
      /\ s \in cache => entity'[s].session = session
      /\ \A x \in Socket : /\ entity'[x].roleid = entity[x].roleid
                           /\ entity'[x].roletype = entity[x].roletype
                           /\ entity'[x].found = entity[x].found
  <2>1. CASE s \in cache /\ entity' = [entity EXCEPT ![s].session = session]
    <3> HIDE DEF session
    <3> QED
      BY <2>1, <1>4 DEF TypeOK
  <2>2. CASE s \notin cache /\ entity' = entity
    BY <2>2 DEF TypeOK
  <2> QED
    BY <2>1, <2>2 DEF Login
<1>6. TypeOK'
  BY <1>1, <1>2, <1>3, <1>5 DEF TypeOK, Row
<1>7. Tables'
  <2>1. StartedHasRow' /\ OwnLink' /\ UnlinkedIsTorn'
    BY <1>1, <1>2 DEF Tables, StartedHasRow, OwnLink, UnlinkedIsTorn, Idle
  <2>2. OneRolePerType' /\ OrphansOnlyAfterCrash' /\ AnsweredIsLinked'
    BY <1>1, <1>2 DEF Tables, OneRolePerType, OrphansOnlyAfterCrash, AnsweredIsLinked
  <2> QED
    BY <2>1, <2>2 DEF Tables
<1>8. OwnSession'
  BY <1>2 DEF Sessions, OwnSession
<1>9. LastSession'
  <2>1. SUFFICES ASSUME NEW v \in User, NEW x \in cache, userInfo'[v].session # NULL,
                        userInfo'[v].session = entity'[x].session
                 PROVE  v \in repeated' \/ lastLogin'[v] = x
    BY <1>1, <1>2 DEF LastSession
  <2>2. CASE v = u
    <3>1. CASE x = s
      BY <2>2, <3>1, <1>1 DEF TypeOK
    <3>2. CASE x # s
      BY <2>1, <2>2, <3>2, <1>2, <1>3, <1>5 DEF TypeOK
    <3> QED
      BY <3>1, <3>2
  <2>3. CASE v # u
    <3>1. PICK t \in Ticket : userInfo[v].session = <<v, t>>
      BY <2>1, <2>3, <1>2 DEF Sessions, OwnSession
    <3>2. x # s
      BY <2>1, <2>3, <3>1, <1>2, <1>5
    <3>3. v \in repeated \/ lastLogin[v] = x
      BY <2>1, <2>3, <3>2, <1>2, <1>5 DEF Sessions, LastSession, TypeOK
    <3> QED
      BY <3>3, <2>3, <1>1, <1>3 DEF TypeOK
  <2> QED
    BY <2>2, <2>3
<1>10. PlayersHaveRoles'
  BY <1>1, <1>5 DEF Sessions, PlayersHaveRoles, TypeOK
<1> QED
  BY <1>6, <1>7, <1>8, <1>9, <1>10 DEF Sessions

(* A role is inserted under the id its user was looked up with. *)
LEMMA CreateRoleKeeps ==
    ASSUME IInv, NEW s \in Socket, NEW name \in RoleName, NEW type \in RoleType,
           CreateRole(s, name, type)
    PROVE  IInv'
<1> USE AccountAssumption DEF IInv
<1>1. PICK u \in BySession(s) :
         /\ ~HasRole(u, type)
         /\ playerInfo' = playerInfo \cup {[name |-> name, roleID |-> InfoID(u), roleType |-> type]}
  BY DEF CreateRole
<1> DEFINE new == [name |-> name, roleID |-> InfoID(u), roleType |-> type]
<1>2. /\ Idle
      /\ UNCHANGED <<userInfo, cache, entity, registering, answered, torn, lastLogin, repeated>>
  BY DEF CreateRole, history
<1>3. u \in User
  BY <1>1 DEF BySession
<1>4. /\ InfoID(u) \in {0, u}
      /\ InfoID(u) = 0 => torn
      /\ InfoID(u) # 0 => InfoID(u) = userInfo[u].playerInfoID
  BY <1>2, <1>3, InfoIDOwner
<1>5. TypeOK'
  <2>1. u \in UserID
    BY <1>3 DEF TypeOK
  <2>2. new \in [name : RoleName, roleID : UserID \cup {0}, roleType : RoleType]
    BY <2>1, <1>4
  <2>3. playerInfo' \subseteq [name : RoleName, roleID : UserID \cup {0}, roleType : RoleType]
    BY <2>2, <1>1 DEF TypeOK
  <2> QED
    BY <2>3, <1>2 DEF TypeOK, User
<1>6. StartedHasRow' /\ OwnLink' /\ UnlinkedIsTorn' /\ AnsweredIsLinked'
  BY <1>2 DEF Tables, StartedHasRow, OwnLink, UnlinkedIsTorn, AnsweredIsLinked, User, Idle
<1>7. OneRolePerType'
  <2>1. \A a \in playerInfo : a.roleID = InfoID(u) /\ a.roleType = type => InfoID(u) = 0
    BY <1>1, <1>4 DEF HasRole
  <2>2. new.roleID = InfoID(u) /\ new.roleType = type
    OBVIOUS
  <2>3. \A a \in playerInfo' : a \in playerInfo \/ a = new
    BY <1>1
  <2>4. SUFFICES ASSUME NEW a \in playerInfo', NEW b \in playerInfo',
                        a.roleID = b.roleID, a.roleType = b.roleType, a.roleID # 0
                 PROVE  a = b
    BY DEF OneRolePerType
  <2>5. CASE a \in playerInfo /\ b \in playerInfo
    BY <2>4, <2>5 DEF Tables, OneRolePerType
  <2>6. CASE a = new \/ b = new
    BY <2>1, <2>2, <2>3, <2>4, <2>6
  <2> QED
    BY <2>3, <2>5, <2>6
<1>8. OrphansOnlyAfterCrash'
  <2>1. new.roleID = InfoID(u)
    OBVIOUS
  <2> QED
    BY <2>1, <1>1, <1>2, <1>4 DEF Tables, OrphansOnlyAfterCrash
<1>9. OwnSession' /\ LastSession'
  BY <1>2 DEF Sessions, OwnSession, LastSession, User
<1>10. PlayersHaveRoles'
  BY <1>1, <1>2 DEF Sessions, PlayersHaveRoles
<1> QED
  BY <1>5, <1>6, <1>7, <1>8, <1>9, <1>10 DEF Tables, Sessions

(* What SelectRole does to the entity of s: it records the type, and the   *)
(* user whose role was found, if one was.                                  *)
LEMMA SelectRoleCases ==
    ASSUME TypeOK, NEW s \in Socket, NEW type \in RoleType, SelectRole(s, type)
    PROVE  /\ UNCHANGED <<userInfo, playerInfo, cache, registering, answered, torn, lastLogin,
                          repeated>>
           /\ s \in cache
           /\ \A x \in Socket \ {s} : entity'[x] = entity[x]
           /\ entity'[s].session = entity[s].session
           /\ entity'[s].roletype = type
           /\ \/ entity'[s].roleid = entity[s].roleid /\ entity'[s].found = FALSE
              \/ \E u \in Selectable(s, type) :
                    entity'[s].roleid = u /\ entity'[s].found = TRUE
           /\ entity' \in [Socket -> [session : Session \cup {NULL}, roleid : UserID \cup {0},
                                      roletype : RoleType \cup {NULL}, found : BOOLEAN]]
<1>1. /\ UNCHANGED <<userInfo, playerInfo, cache, registering, answered, torn, lastLogin, repeated>>
      /\ s \in cache
  BY DEF SelectRole, history
<1>2. CASE entity' = [entity EXCEPT ![s].roletype = type, ![s].found = FALSE]
  <2>1. /\ \A x \in Socket \ {s} : entity'[x] = entity[x]
        /\ entity'[s] = [entity[s] EXCEPT !.roletype = type, !.found = FALSE]
        /\ DOMAIN entity' = Socket
    BY <1>2 DEF TypeOK
  <2>2. entity[s] \in [session : Session \cup {NULL}, roleid : UserID \cup {0},
                          roletype : RoleType \cup {NULL}, found : BOOLEAN]
    BY DEF TypeOK
  <2>3. /\ entity'[s].session = entity[s].session
        /\ entity'[s].roletype = type
        /\ entity'[s].roleid = entity[s].roleid
        /\ entity'[s].found = FALSE
        /\ entity'[s] \in [session : Session \cup {NULL}, roleid : UserID \cup {0},
                            roletype : RoleType \cup {NULL}, found : BOOLEAN]
    BY <2>1, <2>2
  <2>4. entity' \in [Socket -> [session : Session \cup {NULL}, roleid : UserID \cup {0},
                                roletype : RoleType \cup {NULL}, found : BOOLEAN]]
    BY <1>2, <2>1, <2>3 DEF TypeOK
  <2> QED
    BY <1>1, <2>1, <2>3, <2>4
<1>3. CASE \E u \in Selectable(s, type) :
             entity' = [entity EXCEPT ![s].roletype = type, ![s].roleid = u, ![s].found = TRUE]
  <2>1. PICK u \in Selectable(s, type) :
          entity' = [entity EXCEPT ![s].roletype = type, ![s].roleid = u, ![s].found = TRUE]
    BY <1>3
  <2>2. u \in UserID
    BY DEF Selectable, BySession, TypeOK
  <2>3. /\ \A x \in Socket \ {s} : entity'[x] = entity[x]
        /\ entity'[s] = [entity[s] EXCEPT !.roletype = type, !.roleid = u, !.found = TRUE]
        /\ DOMAIN entity' = Socket
    BY <2>1 DEF TypeOK
  <2>4. entity[s] \in [session : Session \cup {NULL}, roleid : UserID \cup {0},
                       roletype : RoleType \cup {NULL}, found : BOOLEAN]
    BY DEF TypeOK
  <2>5. /\ entity'[s].session = entity[s].session
        /\ entity'[s].roletype = type
        /\ entity'[s].roleid = u
        /\ entity'[s].found = TRUE
        /\ entity'[s] \in [session : Session \cup {NULL}, roleid : UserID \cup {0},
                            roletype : RoleType \cup {NULL}, found : BOOLEAN]
    BY <2>2, <2>3, <2>4
  <2>6. entity' \in [Socket -> [session : Session \cup {NULL}, roleid : UserID \cup {0},
                                roletype : RoleType \cup {NULL}, found : BOOLEAN]]
    BY <2>3, <2>5, <2>1 DEF TypeOK
  <2> QED
    BY <1>1, <2>3, <2>5, <2>6
<1> QED
  BY <1>2, <1>3 DEF SelectRole

(* A selection gives the entity a user who has a role of the type.         *)
LEMMA SelectRoleKeeps ==
    ASSUME IInv, NEW s \in Socket, NEW type \in RoleType, SelectRole(s, type)
    PROVE  IInv'
<1> USE AccountAssumption DEF IInv
<1>1. /\ UNCHANGED <<userInfo, playerInfo, cache, registering, answered, torn, lastLogin, repeated>>
      /\ \A x \in Socket \ {s} : entity'[x] = entity[x]
      /\ entity'[s].session = entity[s].session
      /\ entity'[s].roletype = type
      /\ \/ entity'[s].roleid = entity[s].roleid /\ entity'[s].found = FALSE
         \/ \E u \in Selectable(s, type) : entity'[s].roleid = u /\ entity'[s].found = TRUE
      /\ entity' \in [Socket -> [session : Session \cup {NULL}, roleid : UserID \cup {0},
                                 roletype : RoleType \cup {NULL}, found : BOOLEAN]]
  BY SelectRoleCases
<1>2. TypeOK'
  BY <1>1 DEF TypeOK, User
<1>3. Tables'
  BY <1>1 DEF Tables, StartedHasRow, OwnLink, UnlinkedIsTorn, OneRolePerType,
              OrphansOnlyAfterCrash, AnsweredIsLinked, User, Idle
<1>4. OwnSession' /\ LastSession'
  BY <1>1 DEF Sessions, OwnSession, LastSession, User, TypeOK
<1>5. PlayersHaveRoles'
  <2>1. SUFFICES ASSUME NEW x \in cache, entity'[x].roleid # 0
                 PROVE  \E row \in playerInfo :
                           /\ row.roleID = entity'[x].roleid
                           /\ entity'[x].found => row.roleType = entity'[x].roletype
    BY <1>1 DEF PlayersHaveRoles
  <2>2. CASE x # s
    BY <2>1, <2>2, <1>1 DEF Sessions, PlayersHaveRoles, TypeOK
  <2>3. CASE x = s /\ entity'[s].roleid = entity[s].roleid /\ entity'[s].found = FALSE
    BY <2>1, <2>3 DEF Sessions, PlayersHaveRoles
  <2>4. CASE x = s /\ \E u \in Selectable(s, type) :
                         entity'[s].roleid = u /\ entity'[s].found = TRUE
    <3>1. PICK u \in Selectable(s, type) : entity'[s].roleid = u
      BY <2>4
    <3>2. u \in User /\ HasRole(u, type)
      BY DEF Selectable, BySession
    <3>3. \E row \in playerInfo : row.roleID = u /\ row.roleType = type
      BY <3>2, RowsAreOwned DEF Tables
    <3> QED
      BY <3>1, <3>3, <2>4, <1>1
  <2> QED
    BY <1>1, <2>2, <2>3, <2>4
<1> QED
  BY <1>2, <1>3, <1>4, <1>5 DEF Sessions

-------------------------------------------------------------------------------
(* Every step keeps the invariant. *)
LEMMA StepKeeps ==
    ASSUME IInv, [Next]_vars
    PROVE  IInv'
<1>1. CASE UNCHANGED vars
  BY <1>1 DEF vars, IInv, TypeOK, Tables, StartedHasRow, OwnLink, UnlinkedIsTorn, OneRolePerType,
              OrphansOnlyAfterCrash, AnsweredIsLinked, Sessions, OwnSession, LastSession,
              PlayersHaveRoles, User, Idle
<1>2. CASE \E s \in Socket : Connect(s) \/ Evict(s)
  BY <1>2, ConnectKeeps
<1>3. CASE \E s \in Socket, u \in UserID, ticket \in Ticket : Login(s, u, ticket)
  BY <1>3, LoginKeeps
<1>4. CASE \E s \in Socket, name \in RoleName, type \in RoleType : CreateRole(s, name, type)
  BY <1>4, CreateRoleKeeps
<1>5. CASE \E s \in Socket, type \in RoleType : SelectRole(s, type)
  BY <1>5, SelectRoleKeeps
<1>6. CASE \E u \in UserID : RegisterInsert(u)
  BY <1>6, RegisterInsertKeeps
<1>7. CASE RegisterLink
  BY <1>7, RegisterLinkKeeps
<1>8. CASE Crash
  BY <1>8, CrashKeeps
<1> QED
  BY <1>1, <1>2, <1>3, <1>4, <1>5, <1>6, <1>7, <1>8 DEF Next

(* The inductive invariant holds in every reachable state. *)
THEOREM Invariance == Spec => []IInv
<1>1. Init => IInv
  BY InitHolds
<1>2. IInv /\ [Next]_vars => IInv'
  BY StepKeeps
<1> QED
  BY <1>1, <1>2, PTL DEF Spec

(* The tables and the entities keep their types. *)
THEOREM AccountsTypeCorrect == Spec => []TypeOK
<1>1. IInv => TypeOK
  BY DEF IInv
<1> QED
  BY <1>1, Invariance, PTL

(* A user never has two roles of one type, through crashes and repeated    *)
(* registrations: CreateRole and its join look at the same column.         *)
THEOREM RolesAreUnique == Spec => []OneRolePerType
<1>1. IInv => OneRolePerType
  BY DEF IInv, Tables
<1> QED
  BY <1>1, Invariance, PTL

(* Without a crash within a registration no role belongs to nobody.        *)
THEOREM OrphansNeedACrash == Spec => []OrphansOnlyAfterCrash
<1>1. IInv => OrphansOnlyAfterCrash
  BY DEF IInv, Tables
<1> QED
  BY <1>1, Invariance, PTL

(* A registration that was answered is complete and stays so.              *)
THEOREM RegistrationsLast == Spec => []AnsweredIsLinked
<1>1. IInv => AnsweredIsLinked
  BY DEF IInv, Tables
<1> QED
  BY <1>1, Invariance, PTL

(* The role an entity holds is in the database.                            *)
THEOREM ChosenRolesExist == Spec => []PlayersHaveRoles
<1>1. IInv => PlayersHaveRoles
  BY DEF IInv, Sessions
<1> QED
  BY <1>1, Invariance, PTL

(* What a step gives to an entity is the role of a user who has logged in  *)
(* last on its socket, or whose random number was drawn twice.             *)
LEMMA GivenByLastLogin ==
    ASSUME IInv, [Next]_vars, NEW s \in Socket,
           entity'[s].roleid # entity[s].roleid, entity'[s].roleid # 0
    PROVE  entity'[s].roleid \in repeated \/ lastLogin[entity'[s].roleid] = s
<1> USE DEF IInv
<1>1. PICK x \in Socket, type \in RoleType : SelectRole(x, type)
  <2>1. ASSUME NEW x \in Socket, Connect(x) \/ Evict(x) PROVE FALSE
    BY <2>1 DEF Connect, Evict, NewEntity, TypeOK
  <2>2. ASSUME NEW x \in Socket, NEW u \in UserID, NEW ticket \in Ticket, Login(x, u, ticket)
        PROVE  FALSE
    BY <2>2 DEF Login, TypeOK
  <2>3. ASSUME NEW x \in Socket, NEW name \in RoleName, NEW type \in RoleType,
               CreateRole(x, name, type)
        PROVE  FALSE
    BY <2>3 DEF CreateRole
  <2>4. ASSUME NEW u \in UserID, RegisterInsert(u) PROVE FALSE
    BY <2>4 DEF RegisterInsert
  <2>5. ASSUME RegisterLink PROVE FALSE
    BY <2>5 DEF RegisterLink
  <2>6. ASSUME Crash PROVE FALSE
    BY <2>6 DEF Crash, NewEntity
  <2>7. ~ UNCHANGED vars
    BY DEF vars
  <2> QED
    BY <2>1, <2>2, <2>3, <2>4, <2>5, <2>6, <2>7 DEF Next
<1>2. /\ \A y \in Socket \ {x} : entity'[y] = entity[y]
      /\ x \in cache
      /\ \/ entity'[x].roleid = entity[x].roleid
         \/ \E u \in Selectable(x, type) : entity'[x].roleid = u
  BY <1>1, SelectRoleCases
<1>3. x = s
  BY <1>2
<1>4. entity'[s].roleid \in BySession(s)
  BY <1>2, <1>3 DEF Selectable
<1> QED
  BY <1>2, <1>3, <1>4 DEF BySession, Sessions, LastSession

(* A role is given to the socket of the user's last login only. *)
THEOREM LastLoginChooses == Spec => ChosenByLastLogin
<1>1. IInv /\ [Next]_vars =>
        [\A s \in Socket :
           LET u == entity'[s].roleid
           IN  u # entity[s].roleid /\ u # 0 => u \in repeated \/ lastLogin[u] = s]_vars
  BY GivenByLastLogin
<1> QED
  BY <1>1, Invariance, PTL DEF Spec, ChosenByLastLogin
===============================================================================
