-------------------------------- MODULE Accounts -------------------------------
(***************************************************************************)
(* Users, sessions and roles: CRegisterScene, CLoginScene, CCreateScene    *)
(* and CSelectScene between the database, which survives a crash, and the  *)
(* entities, which do not.  The worker thread runs one handler at a time   *)
(* and a handler is one step, except that the two statements of a          *)
(* registration are two.  A user stands for its name, its userID and the   *)
(* right password; requests with a wrong one or an invalid session change  *)
(* nothing.                                                                *)
(***************************************************************************)
EXTENDS Integers, FiniteSets

CONSTANTS
    Socket,
    UserID,
    Ticket,      \* what GenrateRandomID appends to the user's name
    RoleName,    \* playerInfo.name, UNIQUE
    RoleType,
    NULL

ASSUME AccountAssumption ==
    /\ 0 \notin UserID
    /\ NULL \notin UserID \cup RoleType \cup (UserID \X Ticket) \cup {0}

VARIABLES
    userInfo,    \* the table: a row for every registered user
    playerInfo,  \* the table of roles
    cache,       \* the sockets that have an entity
    entity,      \* the part of the entities that belongs to accounts
    registering, \* the registration between its two statements
    answered,    \* history: the users who were told that they are registered
    torn,        \* history: the process has ended within a registration
    lastLogin,   \* history: the socket of each user's last login
    repeated     \* history: users given a session that an entity still had

vars == <<userInfo, playerInfo, cache, entity, registering, answered, torn, lastLogin, repeated>>
history == <<answered, torn, lastLogin, repeated>>

Session == UserID \X Ticket

NewEntity == [session |-> NULL, roleid |-> 0, roletype |-> NULL, found |-> FALSE]
NotRegistering == [user |-> NULL, success |-> FALSE]
EmptyTable == [u \in {} |-> NULL]

Init ==
    /\ userInfo = EmptyTable
    /\ playerInfo = {}
    /\ cache = {}
    /\ entity = [s \in Socket |-> NewEntity]
    /\ registering = NotRegistering
    /\ answered = {}
    /\ torn = FALSE
    /\ lastLogin = [u \in UserID |-> NULL]
    /\ repeated = {}

User == DOMAIN userInfo

TypeOK ==
    /\ User \subseteq UserID
    /\ userInfo \in [User -> [playerInfoID : UserID \cup {NULL}, session : Session \cup {NULL}]]
    /\ playerInfo \subseteq [name : RoleName, roleID : UserID \cup {0}, roleType : RoleType]
    /\ cache \subseteq Socket
    /\ entity \in [Socket -> [session : Session \cup {NULL}, roleid : UserID \cup {0},
                              roletype : RoleType \cup {NULL}, found : BOOLEAN]]
    /\ registering \in [user : UserID \cup {NULL}, success : BOOLEAN]
    /\ answered \subseteq UserID
    /\ torn \in BOOLEAN
    /\ lastLogin \in [UserID -> Socket \cup {NULL}]
    /\ repeated \subseteq UserID

Idle == registering = NotRegistering

-------------------------------------------------------------------------------
(* Connections, evictions and the end of the process *)

Connect(s) ==
    /\ s \notin cache
    /\ cache' = cache \cup {s}
    /\ entity' = [entity EXCEPT ![s] = NewEntity]
    /\ UNCHANGED <<userInfo, playerInfo, registering, history>>

Evict(s) ==
    /\ s \in cache
    /\ cache' = cache \ {s}
    /\ entity' = [entity EXCEPT ![s] = NewEntity]
    /\ UNCHANGED <<userInfo, playerInfo, registering, history>>

(* The process ends, anywhere, and is started again. *)
Crash ==
    /\ cache' = {}
    /\ entity' = [s \in Socket |-> NewEntity]
    /\ registering' = NotRegistering
    /\ torn' = (torn \/ ~Idle)
    /\ UNCHANGED <<userInfo, playerInfo, answered, lastLogin, repeated>>

-------------------------------------------------------------------------------
(* CRegisterScene *)

(* Mutant of Inserted: the name is neither looked up nor UNIQUE. *)
InsertedAgain(u) ==
    [x \in User \cup {u} |-> IF x = u THEN [playerInfoID |-> NULL, session |-> NULL]
                                      ELSE userInfo[x]]

(* userInfo once the name is looked up and, if it is new, inserted. *)
Inserted(u) ==
    [x \in User \cup {u} |-> IF x \in User THEN userInfo[x]
                                           ELSE [playerInfoID |-> NULL, session |-> NULL]]

RegisterInsert(u) ==
    /\ Idle
    /\ userInfo' = Inserted(u)
    /\ registering' = [user |-> u, success |-> u \notin User]
    /\ UNCHANGED <<playerInfo, cache, entity, history>>

(* Mutant of Linked: the table is locked by the statement before. *)
LinkedNever(u) == userInfo

(* update userInfo set PlayerInfoID=userID where name=... *)
Linked(u) == [userInfo EXCEPT ![u].playerInfoID = u]

(* The row is linked whether it is new or not; then the client is told.    *)
RegisterLink ==
    /\ ~Idle
    /\ userInfo' = Linked(registering.user)
    /\ answered' = IF registering.success THEN answered \cup {registering.user} ELSE answered
    /\ registering' = NotRegistering
    /\ UNCHANGED <<playerInfo, cache, entity, torn, lastLogin, repeated>>

-------------------------------------------------------------------------------
(* CLoginScene *)

(* Mutant of LoggedIn: a session that is there is kept. *)
LoggedInFirst(u, session) ==
    IF userInfo[u].session = NULL THEN [userInfo EXCEPT ![u].session = session] ELSE userInfo

LoggedIn(u, session) == [userInfo EXCEPT ![u].session = session]

(* What else the entity holds of an earlier login stays. *)
Login(s, u, ticket) ==
    /\ Idle
    /\ u \in User
    /\ entity' = IF s \in cache THEN [entity EXCEPT ![s].session = <<u, ticket>>] ELSE entity
    /\ userInfo' = LoggedIn(u, <<u, ticket>>)
    /\ lastLogin' = [lastLogin EXCEPT ![u] = s]
    /\ repeated' = IF \E x \in cache \ {s} : entity[x].session = <<u, ticket>>
                     THEN repeated \cup {u} ELSE repeated
    /\ UNCHANGED <<playerInfo, cache, registering, answered, torn>>

-------------------------------------------------------------------------------
(* CCreateScene *)

(* The users select ... where session_id=... finds for the entity of s. *)
BySession(s) == {u \in User : userInfo[u].session # NULL /\ userInfo[u].session = entity[s].session}

(* Mutant of InfoID: NULL is not read as a number. *)
InfoIDRaw(u) == userInfo[u].playerInfoID

(* sqlite3_column_int, which reads NULL as 0. *)
InfoID(u) == IF userInfo[u].playerInfoID = NULL THEN 0 ELSE userInfo[u].playerInfoID

(* Mutant of HasRole: nothing is looked up before the insert. *)
HasRoleNever(u, type) == FALSE

(* The join of the two tables: NULL joins with nothing. *)
HasRole(u, type) ==
    \E row \in playerInfo : row.roleID = userInfo[u].playerInfoID /\ row.roleType = type

CreateRole(s, name, type) ==
    /\ Idle
    /\ s \in cache
    /\ \A row \in playerInfo : row.name # name
    /\ \E u \in BySession(s) :
          /\ ~HasRole(u, type)
          /\ playerInfo' = playerInfo \cup {[name |-> name, roleID |-> InfoID(u), roleType |-> type]}
    /\ UNCHANGED <<userInfo, cache, entity, registering, history>>

-------------------------------------------------------------------------------
(* CSelectScene *)

(* Mutant of Selectable: a left join without the condition on the type. *)
SelectableAnyway(s, type) == BySession(s)

Selectable(s, type) == {u \in BySession(s) : HasRole(u, type)}

(* The type is recorded before the role is looked for. *)
SelectRole(s, type) ==
    /\ Idle
    /\ s \in cache
    /\ \/ /\ Selectable(s, type) = {}
          /\ entity' = [entity EXCEPT ![s].roletype = type, ![s].found = FALSE]
       \/ \E u \in Selectable(s, type) :
             entity' = [entity EXCEPT ![s].roletype = type, ![s].roleid = u, ![s].found = TRUE]
    /\ UNCHANGED <<userInfo, playerInfo, cache, registering, history>>

-------------------------------------------------------------------------------
Next ==
    \/ \E s \in Socket :
          \/ Connect(s)
          \/ Evict(s)
          \/ \E u \in UserID, ticket \in Ticket : Login(s, u, ticket)
          \/ \E name \in RoleName, type \in RoleType : CreateRole(s, name, type)
          \/ \E type \in RoleType : SelectRole(s, type)
    \/ \E u \in UserID : RegisterInsert(u)
    \/ RegisterLink
    \/ Crash

Spec == Init /\ [][Next]_vars

-------------------------------------------------------------------------------
(* A user has one role of a type at most: CreateRole looks the pair up in  *)
(* a join over a column that a torn registration leaves NULL, and inserts  *)
(* under what it reads of that column, through crashes and registrations   *)
(* that are repeated later.                                                *)
OneRolePerType ==
    \A a, b \in playerInfo :
        a.roleID = b.roleID /\ a.roleType = b.roleType /\ a.roleID # 0 => a = b

(* Only a crash between the two statements of a registration makes roles   *)
(* that belong to no user, and that nobody can choose afterwards.          *)
OrphansOnlyAfterCrash == (\E row \in playerInfo : row.roleID = 0) => torn

(* Whoever was told to be registered has a row that roles can belong to,   *)
(* whatever ends the process afterwards and whoever registers the name     *)
(* again.                                                                  *)
AnsweredIsLinked ==
    \A u \in answered : u \in User /\ userInfo[u].playerInfoID = u

(* An entity with a roleid is of a user with a role; and if its last       *)
(* SelectRole was answered with the id, the type it records is of one.     *)
PlayersHaveRoles ==
    \A s \in cache : entity[s].roleid # 0 =>
        \E row \in playerInfo :
            /\ row.roleID = entity[s].roleid
            /\ entity[s].found => row.roleType = entity[s].roletype

(* The session of the first socket is good for its entity after a second   *)
(* login of the user elsewhere, but no role is found with it: a role is    *)
(* given to the socket of the user's last login only, unless the random    *)
(* number of a session was drawn twice.                                    *)
ChosenByLastLogin ==
    [][\A s \in Socket :
         LET u == entity'[s].roleid
         IN  u # entity[s].roleid /\ u # 0 => u \in repeated \/ lastLogin[u] = s]_vars
===============================================================================
