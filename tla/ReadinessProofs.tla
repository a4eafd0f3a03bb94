--------------------------- MODULE ReadinessProofs -----------------------------
(***************************************************************************)
(* Theorems about Readiness for all sockets, users, room ids and teams:    *)
(* the rooms of connected players with roles of their own stay coherent    *)
(* through every request of the lobby and of the game.                     *)
(***************************************************************************)
EXTENDS Readiness, CoherenceProofs

(* Whom ReadinessInit connects stays connected and keeps its role. *)
AllHaveRoles == cache = Socket /\ \A s \in Socket : entity[s].roleid # 0

RInv == ReadinessTypeOK /\ SeatsDistinct /\ Coherent /\ AllHaveRoles

(* What every handler leaves to every entity. *)
KeepsRole(x) == entity'[x].roleid = entity[x].roleid

LEMMA CrashKeeps ==
    ASSUME NEW kind, Crash(kind)
    PROVE  cache' = cache /\ \A x \in Socket : KeepsRole(x)
BY DEF Crash, KeepsRole

LEMMA CreateRoomKeeps ==
    ASSUME CacheTypeOK, NEW s \in Socket, NEW id \in RoomID, CreateRoom(s, id)
    PROVE  cache' = cache /\ \A x \in Socket : KeepsRole(x)
BY DEF CreateRoom, CacheTypeOK, Entity, KeepsRole

LEMMA AdmitKeeps ==
    ASSUME CacheTypeOK, NEW s \in Socket, NEW id, NEW seat, Admit(s, id, seat)
    PROVE  cache' = cache /\ \A x \in Socket : KeepsRole(x)
BY DEF Admit, CacheTypeOK, Entity, KeepsRole

LEMMA DepartedKeeps ==
    ASSUME CacheTypeOK, NEW s \in Socket, NEW heirs, entity' = Departed(s, heirs)
    PROVE  \A x \in Socket : KeepsRole(x)
BY DepartedFields DEF KeepsRole

LEMMA JoinRoomKeeps ==
    ASSUME CacheTypeOK, NEW s \in Socket, NEW id \in RoomID, JoinRoom(s, id)
    PROVE  cache' = cache /\ \A x \in Socket : KeepsRole(x)
BY AdmitKeeps, DepartedKeeps DEF JoinRoom, Rejoin

LEMMA JoinTeamKeeps ==
    ASSUME CacheTypeOK, NEW s \in Socket, NEW id \in RoomID, NEW seat \in Seat,
           JoinTeam(s, id, seat)
    PROVE  cache' = cache /\ \A x \in Socket : KeepsRole(x)
BY AdmitKeeps, CrashKeeps DEF JoinTeam

LEMMA LeaveRoomKeeps ==
    ASSUME CacheTypeOK, NEW s \in Socket, LeaveRoom(s)
    PROVE  cache' = cache /\ \A x \in Socket : KeepsRole(x)
BY DepartedKeeps, CrashKeeps DEF LeaveRoom, LeaveOwnRoom

LEMMA GameOverKeeps ==
    ASSUME CacheTypeOK, NEW s \in Socket, GameOver(s)
    PROVE  cache' = cache /\ \A x \in Socket : KeepsRole(x)
PROOF
<1>1. CASE Crash("NullEntity")
  BY <1>1, CrashKeeps
<1>2. CASE ~Crash("NullEntity")
  BY <1>2 DEF GameOver, SentHome, CacheTypeOK, Entity, KeepsRole
<1> QED
  BY <1>1, <1>2

LEMMA GameWaiteKeeps ==
    ASSUME CacheTypeOK, NEW s \in Socket, OwnRoom(s) # NULL, GameWaite(s)
    PROVE  cache' = cache /\ \A x \in Socket : KeepsRole(x)
PROOF
<1>1. entity' = [entity EXCEPT ![s].gamewaite = ~entity[s].gamewaite] /\ cache' = cache
  BY DEF GameWaite
<1>2. \A x \in Socket : entity[x] \in Entity
  BY DEF CacheTypeOK
<1> QED
  BY <1>1, <1>2 DEF CacheTypeOK, Entity, KeepsRole

LEMMA RsyncKeeps ==
    ASSUME CacheTypeOK, NEW s \in Socket, NEW sent, Rsync(s, sent)
    PROVE  cache' = cache /\ \A x \in Socket : KeepsRole(x)
PROOF
<1>1. entity[s] \in Entity /\ entity \in [Socket -> Entity]
  BY DEF CacheTypeOK
<1>2. Overwritten(s, sent).roleid = entity[s].roleid
  BY <1>1 DEF Overwritten, Entity
<1>3. cache' = cache /\ entity' = [entity EXCEPT ![s] = Overwritten(s, sent)]
  BY DEF Rsync
<1> QED
  BY <1>1, <1>2, <1>3 DEF KeepsRole

-------------------------------------------------------------------------------
(* One lemma per action: everything the theorems below are about. *)
StepKeeps ==
    /\ ReadinessTypeOK'
    /\ SeatsDistinct'
    /\ CoherentStep
    /\ AllHaveRoles'

LEMMA RolesStay ==
    ASSUME AllHaveRoles, cache' = cache, \A x \in Socket : KeepsRole(x)
    PROVE  AllHaveRoles'
BY DEF AllHaveRoles, KeepsRole

(* The histories apart, the types and seats are part of the step's claim.  *)
LEMMA TypesStay ==
    ASSUME CacheTypeOK', CoherentStep, pressed' \in [Socket -> BOOLEAN],
           started' \subseteq RoomID
    PROVE  ReadinessTypeOK'
BY DEF ReadinessTypeOK, CoherentStep, Coherent

LEMMA CreateKeeps ==
    ASSUME RInv, NEW s \in Socket, NEW id \in RoomID, Create(s, id)
    PROVE  StepKeeps
PROOF
<1>1. /\ CacheTypeOK /\ SeatsDistinct /\ Coherent /\ AllHaveRoles
      /\ id # 0 /\ CreateRoom(s, id) /\ entity[s].roleid # 0
  BY DEF RInv, ReadinessTypeOK, Create, AllHaveRoles
<1>2. CacheTypeOK' /\ SeatsDistinct' /\ CoherentStep
  BY <1>1, CreateRoomType, CreateRoomSeats, CreateRoomCoherent
<1>3. cache' = cache /\ \A x \in Socket : KeepsRole(x)
  BY <1>1, CreateRoomKeeps
<1>4. ReadinessTypeOK'
  BY <1>2, TypesStay DEF RInv, ReadinessTypeOK, Create
<1> QED
  BY <1>1, <1>2, <1>3, <1>4, RolesStay DEF StepKeeps

LEMMA JoinKeeps ==
    ASSUME RInv, NEW s \in Socket, NEW id \in RoomID, Join(s, id)
    PROVE  StepKeeps
PROOF
<1>1. /\ CacheTypeOK /\ SeatsDistinct /\ Coherent /\ AllHaveRoles
      /\ entity[s].roomid = 0 /\ entity[s].roleid # 0
  BY DEF RInv, ReadinessTypeOK, Join, AllHaveRoles
<1>2. JoinRoom(s, id) \/ \E seat \in Seat : JoinTeam(s, id, seat)
  BY DEF Join
<1>3. CacheTypeOK' /\ CoherentStep /\ cache' = cache /\ \A x \in Socket : KeepsRole(x)
  <2>1. CASE JoinRoom(s, id)
    BY <1>1, <2>1, JoinRoomType, JoinRoomCoherent, JoinRoomKeeps
  <2>2. CASE \E seat \in Seat : JoinTeam(s, id, seat)
    BY <1>1, <2>2, JoinTeamType, JoinTeamCoherent, JoinTeamKeeps DEF SeatName
  <2> QED
    BY <1>2, <2>1, <2>2
<1>4. SeatsDistinct'
  <2>1. CASE JoinRoom(s, id)
    BY <1>1, <2>1, JoinRoomSeats
  <2>2. CASE \E seat \in Seat : JoinTeam(s, id, seat)
    BY <1>1, <2>2, AdmitSeats, SeatsUnchanged DEF JoinTeam, SeatIsFree, Crash
  <2> QED
    BY <1>2, <2>1, <2>2
<1>5. ReadinessTypeOK'
  BY <1>3, TypesStay DEF RInv, ReadinessTypeOK, Join
<1> QED
  BY <1>1, <1>3, <1>4, <1>5, RolesStay DEF StepKeeps

LEMMA LeaveKeeps ==
    ASSUME RInv, NEW s \in Socket, Leave(s)
    PROVE  StepKeeps
PROOF
<1>1. /\ CacheTypeOK /\ SeatsDistinct /\ Coherent /\ AllHaveRoles
      /\ OwnRoom(s) # NULL /\ s \in cache
      /\ entity[s].roleid # 0 /\ entity[s].roomid \in RoomID
  BY DEF RInv, ReadinessTypeOK, Leave, AllHaveRoles, CacheTypeOK, Entity
<1>2. LeaveRoom(s) \/ JoinRoom(s, entity[s].roomid)
  BY DEF Leave
<1>3. CacheTypeOK' /\ SeatsDistinct' /\ CoherentStep
  <2>1. CASE LeaveRoom(s)
    BY <1>1, <2>1, LeaveOwnRoomType, LeaveOwnRoomSeats, LeaveOwnRoomCoherent DEF LeaveRoom
  <2>2. CASE JoinRoom(s, entity[s].roomid)
    BY <1>1, <2>2, JoinRoomType, JoinRoomSeats, JoinRoomCoherent
  <2> QED
    BY <1>2, <2>1, <2>2
<1>4. cache' = cache /\ \A x \in Socket : KeepsRole(x)
  BY <1>1, <1>2, LeaveRoomKeeps, JoinRoomKeeps
<1>5. ReadinessTypeOK'
  BY <1>3, TypesStay DEF RInv, ReadinessTypeOK, Leave, Restarted
<1> QED
  BY <1>1, <1>3, <1>4, <1>5, RolesStay DEF StepKeeps

LEMMA SwitchKeeps ==
    ASSUME RInv, NEW s \in Socket, Switch(s)
    PROVE  StepKeeps
PROOF
<1>1. /\ CacheTypeOK /\ SeatsDistinct /\ Coherent /\ AllHaveRoles
      /\ OwnRoom(s) # NULL /\ GameWaite(s)
  BY DEF RInv, ReadinessTypeOK, Switch
<1>2. UNCHANGED rooms
  BY <1>1 DEF GameWaite
<1>3. CacheTypeOK' /\ SeatsDistinct' /\ CoherentStep
  BY <1>1, <1>2, GameWaiteType, SeatsUnchanged, GameWaiteCoherent
<1>4. cache' = cache /\ \A x \in Socket : KeepsRole(x)
  BY <1>1, GameWaiteKeeps
<1> DEFINE turned == ~entity[s].gamewaite
<1>5. /\ turned \in BOOLEAN
      /\ pressed' = [pressed EXCEPT ![s] = turned] /\ started' = started
  BY DEF Switch
<1> HIDE DEF turned
<1>6. ReadinessTypeOK'
  BY <1>3, <1>5, TypesStay DEF RInv, ReadinessTypeOK
<1> QED
  BY <1>1, <1>3, <1>4, <1>6, RolesStay DEF StepKeeps

LEMMA SyncKeeps ==
    ASSUME RInv, NEW s \in Socket, Sync(s)
    PROVE  StepKeeps
PROOF
<1>1. CacheTypeOK /\ SeatsDistinct /\ Coherent /\ AllHaveRoles
  BY DEF RInv, ReadinessTypeOK
<1>2. PICK sent \in SentInfo :
        /\ KeepsPlace(s, sent) /\ Rsync(s, sent)
        /\ pressed' = [pressed EXCEPT ![s] = sent.gamewaite] /\ started' = started
  BY DEF Sync
<1>3. UNCHANGED rooms
  BY <1>2 DEF Rsync
<1>4. CacheTypeOK' /\ SeatsDistinct' /\ CoherentStep
  BY <1>1, <1>2, <1>3, RsyncType, SeatsUnchanged, RsyncCoherent
<1>5. cache' = cache /\ \A x \in Socket : KeepsRole(x)
  BY <1>1, <1>2, RsyncKeeps
<1>6. sent.gamewaite \in BOOLEAN
  BY DEF SentInfo
<1>7. ReadinessTypeOK'
  BY <1>2, <1>4, <1>6, TypesStay DEF RInv, ReadinessTypeOK
<1> QED
  BY <1>1, <1>4, <1>5, <1>7, RolesStay DEF StepKeeps

LEMMA StartKeeps ==
    ASSUME RInv, NEW s \in Socket, Start(s)
    PROVE  StepKeeps
PROOF
<1>1. CacheTypeOK /\ SeatsDistinct /\ Coherent /\ AllHaveRoles /\ UNCHANGED cacheVars
  BY DEF RInv, ReadinessTypeOK, Start
<1>2. CoherentStep /\ SeatsDistinct'
  BY <1>1, CoherentSame, SeatsUnchanged DEF cacheVars
<1>3. started' \subseteq RoomID
  BY <1>1 DEF RInv, ReadinessTypeOK, Start, CacheTypeOK, Entity, Served
<1>4. CacheTypeOK' /\ AllHaveRoles'
  BY <1>1 DEF CacheTypeOK, AllHaveRoles, cacheVars
<1>5. ReadinessTypeOK'
  BY <1>2, <1>3, <1>4, TypesStay DEF RInv, ReadinessTypeOK, Start
<1> QED
  BY <1>2, <1>4, <1>5 DEF StepKeeps

LEMMA FinishKeeps ==
    ASSUME RInv, NEW s \in Socket, Finish(s)
    PROVE  StepKeeps
PROOF
<1>1. CacheTypeOK /\ SeatsDistinct /\ Coherent /\ AllHaveRoles /\ GameOver(s)
  BY DEF RInv, ReadinessTypeOK, Finish
<1>2. CacheTypeOK' /\ SeatsDistinct' /\ CoherentStep
  BY <1>1, GameOverType, GameOverSeats, GameOverCoherent
<1>3. cache' = cache /\ \A x \in Socket : KeepsRole(x)
  BY <1>1, GameOverKeeps
<1>4. ReadinessTypeOK'
  BY <1>2, TypesStay DEF RInv, ReadinessTypeOK, Finish, Restarted
<1> QED
  BY <1>1, <1>2, <1>3, <1>4, RolesStay DEF StepKeeps

LEMMA StayKeeps ==
    ASSUME RInv, UNCHANGED readinessVars
    PROVE  StepKeeps
PROOF
<1>1. CacheTypeOK /\ SeatsDistinct /\ Coherent /\ UNCHANGED <<cache, entity, rooms, fault>>
  BY DEF RInv, ReadinessTypeOK, readinessVars
<1>2. CoherentStep /\ SeatsDistinct'
  BY <1>1, CoherentSame, SeatsUnchanged
<1>3. CacheTypeOK' /\ AllHaveRoles'
  BY <1>1 DEF RInv, CacheTypeOK, AllHaveRoles
<1>4. ReadinessTypeOK'
  BY <1>2, <1>3, TypesStay DEF RInv, ReadinessTypeOK, readinessVars
<1> QED
  BY <1>2, <1>3, <1>4 DEF StepKeeps

LEMMA ReadinessInitKeeps ==
    ASSUME ReadinessInit
    PROVE  RInv
PROOF
<1>1. PICK role \in [Socket -> UserID] :
        /\ \A s, x \in Socket : role[s] = role[x] => s = x
        /\ entity = [s \in Socket |-> [NewEntity EXCEPT !.roleid = role[s]]]
  BY DEF ReadinessInit
<1>2. \A s \in Socket : /\ entity[s] \in Entity
                        /\ entity[s].roleid = role[s] /\ role[s] \in UserID
                        /\ entity[s].roomid = 0
  BY <1>1, NewEntityType DEF NewEntity, Entity, RoleID
<1>3. /\ cache = Socket /\ \A id \in RoomID : ~Exists(id)
      /\ rooms = [id \in RoomID |-> NULL] /\ fault = "none"
  BY DEF ReadinessInit, Exists
<1>4. ReadinessTypeOK
  BY <1>1, <1>2, <1>3 DEF ReadinessInit, ReadinessTypeOK, CacheTypeOK, SeatsExist, Fault
<1>5. RolesUnique /\ EntityHasEntry /\ NoRoomZero
  BY <1>1, <1>2, <1>3 DEF RolesUnique, EntityHasEntry, NoRoomZero, RoomID
<1>6. Coherent /\ SeatsDistinct
  BY <1>3, <1>5 DEF Coherent, SeatsExist, FreeCount, RoleOnce, EntryHasEntity, CaptainFirst, RealRoles,
                    RoleIsOwners, SeatsDistinct
<1>7. AllHaveRoles
  BY <1>2, <1>3, UserAssumption DEF AllHaveRoles
<1> QED
  BY <1>4, <1>6, <1>7 DEF RInv

LEMMA ReadinessStepKeeps ==
    ASSUME RInv, [ReadinessNext]_readinessVars
    PROVE  StepKeeps
BY CreateKeeps, JoinKeeps, LeaveKeeps, SwitchKeeps, SyncKeeps, StartKeeps, FinishKeeps,
   StayKeeps DEF ReadinessNext

(* The inductive invariant of the lobby and the game.                      *)
THEOREM ReadinessInvariance == ReadinessSpec => []RInv
PROOF
<1>1. ReadinessInit => RInv
  BY ReadinessInitKeeps
<1>2. RInv /\ [ReadinessNext]_readinessVars => RInv'
  BY ReadinessStepKeeps DEF StepKeeps, CoherentStep, RInv
<1> QED
  BY <1>1, <1>2, PTL DEF ReadinessSpec

(* The variables keep to their types, and every seat that a join, an       *)
(* invitation or a new room gives is one the room has.                     *)
THEOREM ReadinessTypeCorrect == ReadinessSpec => []ReadinessTypeOK
PROOF
<1>1. RInv => ReadinessTypeOK
  BY DEF RInv
<1> QED
  BY <1>1, ReadinessInvariance, PTL

(* Among players who each have a role, freepersoncount is right after any  *)
(* sequence of creating, joining, leaving and finished games, and the last *)
(* player of a room is always recognised.                                  *)
THEOREM LobbyPlacesAreCounted == ReadinessSpec => []FreeCount
PROOF
<1>1. RInv => FreeCount
  BY DEF RInv, Coherent
<1> QED
  BY <1>1, ReadinessInvariance, PTL

(* A player with a role of its own is listed once in all rooms.            *)
THEOREM LobbyListedOnce == ReadinessSpec => []RoleOnce
PROOF
<1>1. RInv => RoleOnce
  BY DEF RInv, Coherent
<1> QED
  BY <1>1, ReadinessInvariance, PTL

(* Nobody is evicted in the lobby, so every entry of a room agrees with    *)
(* the entity of its player in room, role and seat.                        *)
THEOREM LobbyEntriesMatchEntities == ReadinessSpec => []EntryHasEntity
PROOF
<1>1. RInv => EntryHasEntity
  BY DEF RInv, Coherent
<1> QED
  BY <1>1, ReadinessInvariance, PTL

(* And no entity says it is in a room that is gone or does not list it: of *)
(* these requests none ever dereferences its own room in vain.             *)
THEOREM LobbyEntitiesMatchEntries == ReadinessSpec => []EntityHasEntry
PROOF
<1>1. RInv => EntityHasEntry
  BY DEF RInv, Coherent
<1> QED
  BY <1>1, ReadinessInvariance, PTL

(* However captains come and go, a room has one, the first of its list,    *)
(* and the captain's entity has the flag from which LeaveRoom tells it.    *)
THEOREM LobbyFirstIsCaptain == ReadinessSpec => []CaptainFirst
PROOF
<1>1. RInv => CaptainFirst
  BY DEF RInv, Coherent
<1> QED
  BY <1>1, ReadinessInvariance, PTL

(* The rooms of the lobby, seen as lists of roles, are a RoomRegistry for  *)
(* all sets of players and ids and all sizes of a room: every request      *)
(* opens or closes one room, lets one user in or out, or changes no list.  *)
THEOREM LobbyKeepsRegistry == ReadinessSpec => KeepsRegistry
PROOF
<1>1. ReadinessInit => Registry!Init
  BY DEF ReadinessInit, Registry!Init, PartyView, Exists
<1>2. RInv /\ [ReadinessNext]_readinessVars => [Registry!Next]_PartyView
  BY ReadinessStepKeeps DEF StepKeeps, CoherentStep
<1> QED
  BY <1>1, <1>2, ReadinessInvariance, PTL
     DEF ReadinessSpec, KeepsRegistry, Registry!Spec
===============================================================================
