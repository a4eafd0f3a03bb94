--------------------------- MODULE GameServerProofs ----------------------------
(***************************************************************************)
(* Theorems about GameServer for all sockets, users, room ids, teams,      *)
(* thresholds and Hazards.                                                 *)
(***************************************************************************)
EXTENDS GameServer, CoherenceProofs

LEMMA LobbyType ==
    ASSUME CacheTypeOK, NEW s \in Socket, Lobby(s)
    PROVE  CacheTypeOK'
PROOF
<1>1. CASE \E id \in RoomID : CreateRoom(s, id)
  BY <1>1, CreateRoomType
<1>2. CASE \E id \in RoomID, seat \in SeatName : JoinTeam(s, id, seat)
  BY <1>2, JoinTeamType
<1>3. CASE \E id \in RoomID : JoinRoom(s, id)
  BY <1>3, JoinRoomType
<1>4. CASE LeaveRoom(s)
  BY <1>4, LeaveOwnRoomType DEF LeaveRoom
<1>5. CASE GameWaite(s)
  BY <1>5, GameWaiteType
<1>6. CASE GameStartCrash(s)
  BY <1>6, CrashType DEF GameStartCrash, Fault
<1> QED
  BY <1>1, <1>2, <1>3, <1>4, <1>5, <1>6 DEF Lobby

LEMMA GameType ==
    ASSUME CacheTypeOK, NEW s \in Socket, Game(s)
    PROVE  CacheTypeOK'
BY GameOverType, RsyncType DEF Game

LEMMA TimerType ==
    ASSUME TypeOK, NEW s \in Socket, TimerFunc(s)
    PROVE  TypeOK'
PROOF
<1> USE DEF TypeOK
<1>1. sendMsgCount[s] \in 0..EvictCount /\ EvictCount \in Nat
  BY CountAssumption DEF KeepAliveTypeOK
<1>2. ASSUME NEW broken \in BOOLEAN, Counted(s, broken), sendMsgCount[s] < EvictCount
      PROVE  KeepAliveTypeOK'
  BY <1>1, <1>2 DEF Counted, KeepAliveTypeOK
<1>3. CASE sendMsgCount[s] < LateCount /\ Counted(s, isBroken[s]) /\ UNCHANGED cacheVars
  BY <1>1, <1>2, <1>3, CountAssumption DEF KeepAliveTypeOK, CacheTypeOK, cacheVars
<1>4. CASE TickLate(s)
  <2>1. CacheTypeOK'
    BY <1>4, LeaveOwnRoomType DEF TickLate, CacheTypeOK, cacheVars
  <2>2. KeepAliveTypeOK'
    <3>1. Counted(s, TRUE) /\ sendMsgCount[s] < LostCount
      BY <1>4 DEF TickLate, Late
    <3>2. sendMsgCount[s] < EvictCount
      BY <1>1, <3>1, CountAssumption
    <3> QED
      BY <1>2, <3>1, <3>2
  <2> QED
    BY <2>1, <2>2
<1>5. CASE Lost(s) /\ Counted(s, FALSE) /\ UNCHANGED cacheVars
  BY <1>2, <1>5 DEF Lost, CacheTypeOK, cacheVars
<1>6. CASE TickEvict(s)
  <2>1. CacheTypeOK'
    BY <1>6, NewEntityType DEF TickEvict, CacheTypeOK
  <2>2. KeepAliveTypeOK'
    BY <1>1, <1>6 DEF TickEvict, KeepAliveTypeOK, Scene
  <2> QED
    BY <2>1, <2>2
<1> QED
  BY <1>3, <1>4, <1>5, <1>6 DEF TimerFunc

(* Every variable keeps to its type, whatever clients send (any PlayerInfo *)
(* and any name of a seat): what a leave or a kick makes of a list is a    *)
(* list of players, and the heartbeat count stays within its thresholds.   *)
THEOREM TypeCorrect == Spec => []TypeOK
PROOF
<1>1. Init => TypeOK
  BY CountAssumption, NewEntityType
     DEF Init, CacheInit, KeepAliveInit, TypeOK, CacheTypeOK, KeepAliveTypeOK, Fault, Scene
<1>2. TypeOK /\ [Next]_vars => TypeOK'
  <2> SUFFICES ASSUME TypeOK, [Next]_vars
               PROVE  TypeOK'
    OBVIOUS
  <2>1. ASSUME NEW s \in Socket, Connect(s)
        PROVE  TypeOK'
    BY <2>1, NewEntityType
       DEF Connect, TypeOK, CacheTypeOK, KeepAliveTypeOK, keepAliveVars
  <2>2. ASSUME NEW s \in Socket, Reconnect(s)
        PROVE  TypeOK'
    BY <2>2, CountAssumption
       DEF Reconnect, TypeOK, CacheTypeOK, KeepAliveTypeOK, cacheVars
  <2>3. ASSUME NEW s \in Socket, NEW u \in UserID, SelectRole(s, u), UNCHANGED keepAliveVars
        PROVE  TypeOK'
    <3>1. u \in RoleID
      BY DEF RoleID
    <3>2. entity' \in [Socket -> Entity]
      BY <2>3, <3>1 DEF SelectRole, TypeOK, CacheTypeOK, Entity
    <3>3. CacheTypeOK'
      BY <2>3, <3>2 DEF SelectRole, TypeOK, CacheTypeOK
    <3> QED
      BY <2>3, <3>3 DEF TypeOK, KeepAliveTypeOK, keepAliveVars
  <2>4. ASSUME NEW s \in Socket, Lobby(s) \/ Game(s), UNCHANGED keepAliveVars
        PROVE  TypeOK'
    BY <2>4, LobbyType, GameType DEF TypeOK, KeepAliveTypeOK, keepAliveVars
  <2>5. ASSUME NEW s \in Socket, NEW scene \in Scene, Heartbeat(s, scene)
        PROVE  TypeOK'
    <3>1. CASE Crash("FreedInfo") /\ UNCHANGED keepAliveVars
      BY <3>1, CrashType DEF TypeOK, KeepAliveTypeOK, keepAliveVars, Fault
    <3>2. CASE UNCHANGED cacheVars
      <4>1. CacheTypeOK'
        BY <3>2 DEF TypeOK, CacheTypeOK, cacheVars
      <4>2. CASE UNCHANGED keepAliveVars
        BY <4>1, <4>2 DEF TypeOK, KeepAliveTypeOK, keepAliveVars
      <4>3. CASE ~UNCHANGED keepAliveVars
        <5>1. info' \in [Socket -> {"none", "live", "freed"}]
          BY <2>5, <4>3 DEF Heartbeat, TypeOK, KeepAliveTypeOK
        <5>2. sendMsgCount' \in [Socket -> 0..EvictCount]
          BY <2>5, <4>3, CountAssumption DEF Heartbeat, TypeOK, KeepAliveTypeOK
        <5>3. isBroken' \in [Socket -> BOOLEAN]
          BY <2>5, <4>3 DEF Heartbeat, TypeOK, KeepAliveTypeOK
        <5>4. hasThread' \in [Socket -> BOOLEAN]
          BY <2>5, <4>3 DEF Heartbeat, TypeOK, KeepAliveTypeOK
        <5>5. curscene' \in [Socket -> Scene]
          BY <2>5, <4>3 DEF Heartbeat, TypeOK, KeepAliveTypeOK
        <5>6. KeepAliveTypeOK'
          BY <5>1, <5>2, <5>3, <5>4, <5>5 DEF KeepAliveTypeOK
        <5> QED
          BY <4>1, <5>6 DEF TypeOK
      <4> QED
        BY <4>2, <4>3
    <3> QED
      BY <2>5, <3>1, <3>2 DEF Heartbeat
  <2>6. ASSUME NEW s \in Socket, TimerFunc(s)
        PROVE  TypeOK'
    BY <2>6, TimerType
  <2>7. CASE UNCHANGED vars
    BY <2>7 DEF vars, TypeOK, CacheTypeOK, KeepAliveTypeOK
  <2> QED
    BY <2>1, <2>2, <2>3, <2>4, <2>5, <2>6, <2>7 DEF Next
<1> QED
  BY <1>1, <1>2, PTL DEF Spec

-------------------------------------------------------------------------------
(* Seats *)

LEMMA LobbySeats ==
    ASSUME CacheTypeOK, SeatsDistinct, NEW s \in Socket, Lobby(s)
    PROVE  SeatsDistinct'
PROOF
<1>1. CASE \E id \in RoomID : CreateRoom(s, id)
  BY <1>1, CreateRoomSeats
<1>2. CASE \E id \in RoomID, seat \in SeatName : JoinTeam(s, id, seat)
  BY <1>2, AdmitSeats, SeatsUnchanged DEF JoinTeam, SeatIsFree, Crash
<1>3. CASE \E id \in RoomID : JoinRoom(s, id)
  BY <1>3, JoinRoomSeats
<1>4. CASE LeaveRoom(s)
  BY <1>4, LeaveOwnRoomSeats DEF LeaveRoom
<1>5. CASE GameWaite(s) \/ GameStartCrash(s)
  BY <1>5, SeatsUnchanged DEF GameWaite, GameStartCrash, Crash
<1> QED
  BY <1>1, <1>2, <1>3, <1>4, <1>5 DEF Lobby

(* No two players of a room ever have the same seat, for every choice of   *)
(* Hazards: no request, eviction or reuse of a socket can bring that about.*)
THEOREM SeatsAreDistinct == Spec => []SeatsDistinct
PROOF
<1>1. Init => SeatsDistinct
  BY DEF Init, CacheInit, SeatsDistinct, Exists
<1>2. TypeOK /\ SeatsDistinct /\ [Next]_vars => SeatsDistinct'
  <2> SUFFICES ASSUME TypeOK, SeatsDistinct, [Next]_vars
               PROVE  SeatsDistinct'
    OBVIOUS
  <2>1. CacheTypeOK
    BY DEF TypeOK
  <2>2. ASSUME NEW s \in Socket, Lobby(s)
        PROVE  SeatsDistinct'
    BY <2>1, <2>2, LobbySeats
  <2>3. ASSUME NEW s \in Socket, Game(s)
        PROVE  SeatsDistinct'
    BY <2>1, <2>3, GameOverSeats, SeatsUnchanged DEF Game, Rsync
  <2>4. ASSUME NEW s \in Socket, TimerFunc(s)
        PROVE  SeatsDistinct'
    BY <2>1, <2>4, LeaveOwnRoomSeats, SeatsUnchanged
       DEF TimerFunc, TickLate, TickEvict, cacheVars
  <2>5. CASE UNCHANGED rooms
    BY <2>5, SeatsUnchanged
  <2>6. ASSUME NEW s \in Socket,
               \/ Connect(s)
               \/ Reconnect(s)
               \/ \E u \in UserID : SelectRole(s, u)
               \/ \E scene \in Scene : Heartbeat(s, scene)
        PROVE  UNCHANGED rooms
    BY <2>6 DEF Connect, Reconnect, SelectRole, Heartbeat, Crash, cacheVars
  <2> QED
    BY <2>2, <2>3, <2>4, <2>5, <2>6 DEF Next, vars
<1> QED
  BY <1>1, <1>2, TypeCorrect, PTL DEF Spec

-------------------------------------------------------------------------------
(* Coherence, for the clients one expects: Hazards is empty *)

(* Who is listed is connected, or was: its socket number has a pointer to  *)
(* a deleted object in keepAliveInfoMap and is not handed out again.       *)
GoneForGood == \A x \in Socket : IsListed(x) => x \in cache \/ info[x] # "none"

(* A new connection gets a fresh entity; nobody lists its number yet.      *)
LEMMA ConnectCoherent ==
    ASSUME Hazards = {}, TypeOK, Coherent, GoneForGood, NEW s \in Socket, Connect(s)
    PROVE  CoherentStep
PROOF
<1> USE DEF TypeOK
<1>1. /\ s \notin cache /\ info[s] = "none" /\ cache' = cache \cup {s} /\ rooms' = rooms
      /\ cache \subseteq Socket
  BY DEF Connect, Admits, CacheTypeOK
<1>2. /\ entity'[s].roleid = 0 /\ entity'[s].roomid = 0
      /\ \A x \in cache : entity'[x] = entity[x]
  BY <1>1 DEF Connect, CacheTypeOK, NewEntity
<1>3. \A id \in RoomID : Exists(id) =>
        \A i \in DOMAIN Players(id) : Players(id)[i].socket # s
  BY <1>1 DEF GoneForGood, IsListed
<1>4. \A id \in RoomID : /\ Exists(id)' = Exists(id)
                         /\ Players(id)' = Players(id)
                         /\ rooms'[id] = rooms[id]
  BY <1>1 DEF Exists, Players
<1>5. SeatsExist' /\ FreeCount' /\ RoleOnce' /\ NoRoomZero' /\ RealRoles'
  BY <1>4 DEF Coherent, SeatsExist, FreeCount, RoleOnce, NoRoomZero, RealRoles, RoomID
<1>6. EntryHasEntity'
  BY <1>1, <1>2, <1>3, <1>4 DEF Coherent, EntryHasEntity
<1>7. EntityHasEntry'
  BY <1>1, <1>2 DEF Coherent, EntityHasEntry, OwnRoom
<1>8. CaptainFirst'
  BY <1>1, <1>2, <1>3, <1>4 DEF Coherent, CaptainFirst
<1>9. RolesUnique'
  BY <1>1, <1>2 DEF Coherent, RolesUnique
<1>10. RoleIsOwners'
  BY <1>1, <1>2, <1>4 DEF Coherent, RoleIsOwners, RealRoles
<1>11. UNCHANGED PartyView /\ \A x \in Socket : IsListed(x)' = IsListed(x)
  BY <1>1 DEF PartyView, Exists, Players, IsListed
<1> QED
  BY <1>5, <1>6, <1>7, <1>8, <1>9, <1>10, <1>11 DEF Coherent, CoherentStep

(* The chosen role is held by no connected player and listed in no room.   *)
LEMMA SelectRoleCoherent ==
    ASSUME Hazards = {}, TypeOK, Coherent, NEW s \in Socket, NEW u \in UserID,
           SelectRole(s, u)
    PROVE  CoherentStep
PROOF
<1> USE DEF TypeOK
<1>1. s \in cache /\ cache' = cache /\ rooms' = rooms /\ cache \subseteq Socket
  BY DEF SelectRole, Served, CacheTypeOK
<1>2. entity[s].roleid = 0 /\ ~HeldByEntity(u) /\ ~HeldInRoom(u)
  BY DEF SelectRole, RoleMayBeChosen, Admits
<1>3. /\ entity'[s].roleid = u /\ entity'[s].roomid = entity[s].roomid
      /\ entity'[s].seat = entity[s].seat /\ entity'[s].isroomctl = entity[s].isroomctl
      /\ \A x \in Socket \ {s} : entity'[x] = entity[x]
  BY DEF SelectRole, CacheTypeOK, Entity
<1>4. \A id \in RoomID : Exists(id) =>
        \A i \in DOMAIN Players(id) :
           Players(id)[i].socket # s /\ Players(id)[i].roleid # u
  BY <1>1, <1>2 DEF Coherent, EntryHasEntity, RealRoles, HeldInRoom, Listed, Players
<1>5. \A id \in RoomID : /\ Exists(id)' = Exists(id)
                         /\ Players(id)' = Players(id)
                         /\ rooms'[id] = rooms[id]
  BY <1>1 DEF Exists, Players
<1>6. SeatsExist' /\ FreeCount' /\ RoleOnce' /\ NoRoomZero' /\ RealRoles'
  BY <1>5 DEF Coherent, SeatsExist, FreeCount, RoleOnce, NoRoomZero, RealRoles, RoomID
<1>7. EntryHasEntity'
  BY <1>1, <1>3, <1>4, <1>5 DEF Coherent, EntryHasEntity
<1>8. EntityHasEntry'
  BY <1>1, <1>3 DEF Coherent, EntityHasEntry, OwnRoom
<1>9. CaptainFirst'
  BY <1>1, <1>3, <1>4, <1>5 DEF Coherent, CaptainFirst
<1>10. \A x \in cache : entity[x].roleid # u
  BY <1>2 DEF HeldByEntity
<1>11. RolesUnique'
  BY <1>1, <1>3, <1>10 DEF Coherent, RolesUnique
<1>12. RoleIsOwners'
  BY <1>1, <1>3, <1>4, <1>5 DEF Coherent, RoleIsOwners
<1>13. UNCHANGED PartyView /\ \A x \in Socket : IsListed(x)' = IsListed(x)
  BY <1>1 DEF PartyView, Exists, Players, IsListed
<1> QED
  BY <1>6, <1>7, <1>8, <1>9, <1>11, <1>12, <1>13 DEF Coherent, CoherentStep

(* Eviction takes an entity away and leaves the entry.  What is said of    *)
(* entries without an entity was true of the entry before.                 *)
LEMMA EvictCoherent ==
    ASSUME TypeOK, Coherent, NEW s \in Socket, Served(s), TickEvict(s)
    PROVE  CoherentStep
PROOF
<1> USE DEF TypeOK
<1>1. /\ cache' = cache \ {s} /\ rooms' = rooms /\ cache \subseteq Socket
      /\ \A x \in cache' : entity'[x] = entity[x]
  BY DEF TickEvict, CacheTypeOK
<1>2. \A id \in RoomID : /\ Exists(id)' = Exists(id)
                         /\ Players(id)' = Players(id)
                         /\ rooms'[id] = rooms[id]
  BY <1>1 DEF Exists, Players
<1>3. SeatsExist' /\ FreeCount' /\ RoleOnce' /\ NoRoomZero' /\ RealRoles'
  BY <1>2 DEF Coherent, SeatsExist, FreeCount, RoleOnce, NoRoomZero, RealRoles, RoomID
<1>4. EntryHasEntity'
  BY <1>1, <1>2 DEF Coherent, EntryHasEntity
<1>5. EntityHasEntry'
  BY <1>1 DEF Coherent, EntityHasEntry, OwnRoom
<1>6. CaptainFirst'
  BY <1>1, <1>2 DEF Coherent, CaptainFirst
<1>7. RolesUnique'
  BY <1>1 DEF Coherent, RolesUnique
<1>8. RoleIsOwners'
  BY <1>1, <1>2 DEF Coherent, RoleIsOwners
<1>9. UNCHANGED PartyView /\ \A x \in Socket : IsListed(x)' = IsListed(x)
  BY <1>1 DEF PartyView, Exists, Players, IsListed
<1> QED
  BY <1>3, <1>4, <1>5, <1>6, <1>7, <1>8, <1>9 DEF Coherent, CoherentStep

LEMMA StutterCoherent ==
    ASSUME CacheTypeOK, Coherent, UNCHANGED cacheVars
    PROVE  CoherentStep
BY CoherentSame DEF cacheVars

LEMMA LobbyCoherent ==
    ASSUME Hazards = {}, CacheTypeOK, SeatsDistinct, Coherent, NEW s \in Socket, Lobby(s)
    PROVE  CoherentStep
PROOF
<1>1. entity[s].roleid # 0 /\ (Roomless(s) <=> entity[s].roomid = 0)
  BY DEF Lobby, HasRole, Roomless, Admits
<1>2. CASE \E id \in RoomID : (id = 0 => Admits("collision")) /\ CreateRoom(s, id)
  BY <1>1, <1>2, CreateRoomCoherent DEF Admits
<1>3. CASE \E id \in RoomID, seat \in SeatName :
            Roomless(s) /\ MayBeNamed(seat) /\ JoinTeam(s, id, seat)
  BY <1>1, <1>3, JoinTeamCoherent DEF MayBeNamed, Admits
<1>4. CASE \E id \in RoomID : (Roomless(s) \/ entity[s].roomid = id) /\ JoinRoom(s, id)
  BY <1>1, <1>4, JoinRoomCoherent
<1>5. CASE LeaveRoom(s)
  BY <1>5, LeaveOwnRoomCoherent DEF LeaveRoom, Served
<1>6. CASE GameWaite(s)
  BY <1>6, GameWaiteCoherent
<1>7. CASE GameStartCrash(s)
  BY <1>7, CrashCoherent DEF GameStartCrash
<1> QED
  BY <1>2, <1>3, <1>4, <1>5, <1>6, <1>7 DEF Lobby

LEMMA GameCoherent ==
    ASSUME Hazards = {}, CacheTypeOK, Coherent, NEW s \in Socket, Game(s)
    PROVE  CoherentStep
BY RsyncCoherent, GameOverCoherent DEF Game, Admits

LEMMA TimerCoherent ==
    ASSUME TypeOK, Coherent, NEW s \in Socket, TimerFunc(s)
    PROVE  CoherentStep
PROOF
<1>1. CacheTypeOK /\ s \in cache
  BY DEF TypeOK, TimerFunc, Served
<1>2. CASE UNCHANGED cacheVars
  BY <1>1, <1>2, StutterCoherent
<1>3. CASE OwnRoom(s) # NULL /\ LeaveOwnRoom(s)
  BY <1>1, <1>3, LeaveOwnRoomCoherent
<1>4. CASE TickEvict(s)
  BY <1>4, EvictCoherent DEF TimerFunc
<1> QED
  BY <1>2, <1>3, <1>4 DEF TimerFunc, TickLate

(* A connection, or a trace of the last one, is not lost.                  *)
LEMMA NobodyForgotten ==
    ASSUME Hazards = {}, TypeOK, Next
    PROVE  \A x \in Socket : x \in cache \/ info[x] # "none"
                               => x \in cache' \/ info'[x] # "none"
PROOF
<1> USE DEF TypeOK
<1>1. ASSUME NEW s \in Socket, Connect(s) \/ Reconnect(s)
      PROVE  cache \subseteq cache' /\ info' = info
  BY <1>1 DEF Connect, Reconnect, cacheVars, keepAliveVars
<1>2. ASSUME NEW s \in Socket, \/ \E u \in UserID : SelectRole(s, u)
                               \/ Lobby(s)
                               \/ Game(s)
      PROVE  cache' = cache
  BY <1>2 DEF SelectRole, Lobby, CreateRoom, JoinTeam, Admit, JoinRoom, Rejoin, LeaveRoom,
              LeaveOwnRoom, GameWaite, GameStartCrash, Game, Rsync, GameOver, Crash
<1>3. ASSUME NEW s \in Socket, NEW scene \in Scene, Heartbeat(s, scene)
      PROVE  /\ cache' = cache
             /\ \A x \in Socket : info[x] # "none" => info'[x] # "none"
  BY <1>3 DEF Heartbeat, Crash, cacheVars, keepAliveVars, KeepAliveTypeOK
<1>4. ASSUME NEW s \in Socket, TimerFunc(s)
      PROVE  \A x \in Socket : x \in cache \/ info[x] # "none"
                                 => x \in cache' \/ info'[x] # "none"
  <2>1. CASE TickEvict(s)
    BY <2>1 DEF TickEvict, KeepAliveTypeOK
  <2>2. CASE ~TickEvict(s)
    <3>1. info' = info
      BY <1>4, <2>2 DEF TimerFunc, TickLate, Counted
    <3>2. cache' = cache
      BY <1>4, <2>2 DEF TimerFunc, TickLate, LeaveOwnRoom, Crash, cacheVars
    <3> QED
      BY <3>1, <3>2
  <2> QED
    BY <2>1, <2>2
<1> QED
  BY <1>1, <1>2, <1>3, <1>4 DEF Next, keepAliveVars

IInv == TypeOK /\ SeatsDistinct /\ Coherent /\ GoneForGood

LEMMA NextCoherent ==
    ASSUME Hazards = {}, IInv, [Next]_vars
    PROVE  CoherentStep /\ GoneForGood'
PROOF
<1>1. TypeOK /\ CacheTypeOK /\ SeatsDistinct /\ Coherent /\ GoneForGood
  BY DEF IInv, TypeOK
<1>2. CoherentStep
  <2>1. ASSUME NEW s \in Socket, Connect(s)
        PROVE  CoherentStep
    BY <1>1, <2>1, ConnectCoherent
  <2>2. ASSUME NEW s \in Socket, Reconnect(s)
        PROVE  CoherentStep
    BY <2>2 DEF Reconnect, Admits
  <2>3. ASSUME NEW s \in Socket, NEW u \in UserID, SelectRole(s, u)
        PROVE  CoherentStep
    BY <1>1, <2>3, SelectRoleCoherent
  <2>4. ASSUME NEW s \in Socket, Lobby(s) \/ Game(s)
        PROVE  CoherentStep
    BY <1>1, <2>4, LobbyCoherent, GameCoherent
  <2>5. ASSUME NEW s \in Socket, NEW scene \in Scene, Heartbeat(s, scene)
        PROVE  CoherentStep
    BY <1>1, <2>5, StutterCoherent, CrashCoherent DEF Heartbeat
  <2>6. ASSUME NEW s \in Socket, TimerFunc(s)
        PROVE  CoherentStep
    BY <1>1, <2>6, TimerCoherent
  <2>7. CASE UNCHANGED vars
    BY <1>1, <2>7, StutterCoherent DEF vars, cacheVars
  <2> QED
    BY <2>1, <2>2, <2>3, <2>4, <2>5, <2>6, <2>7 DEF Next
<1>3. \A x \in Socket : x \in cache \/ info[x] # "none"
                          => x \in cache' \/ info'[x] # "none"
  BY <1>1, NobodyForgotten DEF vars
<1>4. GoneForGood'
  BY <1>1, <1>2, <1>3 DEF GoneForGood, CoherentStep
<1> QED
  BY <1>2, <1>4

LEMMA InitCoherent ==
    ASSUME Init
    PROVE  Coherent /\ GoneForGood
PROOF
<1>1. cache = {} /\ \A id \in RoomID : ~Exists(id)
  BY DEF Init, CacheInit, Exists
<1>2. NoRoomZero
  BY DEF Init, CacheInit, NoRoomZero, RoomID
<1> QED
  BY <1>1, <1>2 DEF Coherent, SeatsExist, FreeCount, RoleOnce, EntryHasEntity, EntityHasEntry,
                    CaptainFirst, RealRoles, RolesUnique, RoleIsOwners, GoneForGood, IsListed

(* The inductive invariant behind the theorems that follow: rooms and      *)
(* entities fit together through every order of requests, silences and     *)
(* evictions.                                                              *)
THEOREM CoherenceInvariance ==
    ASSUME Hazards = {}
    PROVE  Spec => [](Coherent /\ GoneForGood)
PROOF
<1>1. Init => Coherent /\ GoneForGood
  BY InitCoherent
<1>2. IInv /\ [Next]_vars => (Coherent /\ GoneForGood)'
  BY NextCoherent DEF CoherentStep
<1>3. IInv <=> TypeOK /\ SeatsDistinct /\ Coherent /\ GoneForGood
  BY DEF IInv
<1> QED
  BY <1>1, <1>2, <1>3, TypeCorrect, SeatsAreDistinct, PTL DEF Spec

(* freepersoncount, added to and subtracted from by four handlers and the  *)
(* timers, is always right, and no room is without players.                *)
THEOREM PlacesAreCounted ==
    ASSUME Hazards = {}
    PROVE  Spec => []FreeCount
PROOF
<1>1. Coherent => FreeCount
  BY DEF Coherent
<1> QED
  BY <1>1, CoherenceInvariance, PTL

(* A player is listed once in all rooms, also after evictions.             *)
THEOREM ListedOnce ==
    ASSUME Hazards = {}
    PROVE  Spec => []RoleOnce
PROOF
<1>1. Coherent => RoleOnce
  BY DEF Coherent
<1> QED
  BY <1>1, CoherenceInvariance, PTL

(* An entry says of a connected player what its entity says.               *)
THEOREM EntriesMatchEntities ==
    ASSUME Hazards = {}
    PROVE  Spec => []EntryHasEntity
PROOF
<1>1. Coherent => EntryHasEntity
  BY DEF Coherent
<1> QED
  BY <1>1, CoherenceInvariance, PTL

(* The first of a room is its captain, its only one, and its entity knows. *)
THEOREM FirstIsCaptain ==
    ASSUME Hazards = {}
    PROVE  Spec => []CaptainFirst
PROOF
<1>1. Coherent => CaptainFirst
  BY DEF Coherent
<1> QED
  BY <1>1, CoherenceInvariance, PTL

(* The rooms of the server, seen as lists of roles, are a RoomRegistry.    *)
THEOREM ServerKeepsRegistry ==
    ASSUME Hazards = {}
    PROVE  Spec => KeepsRegistry
PROOF
<1>1. Init => Registry!Init
  BY DEF Init, CacheInit, Registry!Init, PartyView, Exists
<1>2. IInv /\ [Next]_vars => [Registry!Next]_PartyView
  BY NextCoherent DEF CoherentStep
<1>3. IInv <=> TypeOK /\ SeatsDistinct /\ Coherent /\ GoneForGood
  BY DEF IInv
<1> QED
  BY <1>1, <1>2, <1>3, TypeCorrect, SeatsAreDistinct, CoherenceInvariance, PTL
     DEF Spec, KeepsRegistry, Registry!Spec

-------------------------------------------------------------------------------
(* A player's own room, for nearly every client *)

(* The roles of connected players are their own: nobody chooses one that   *)
(* another has, and not both the entries of the evicted and those of       *)
(* players who changed their role are there to be taken over.  All other   *)
(* hazards are admitted.                                                   *)
RolesKeptApart ==
    /\ "sharedRole" \notin Hazards
    /\ ~({"comeback", "relogin"} \subseteq Hazards)

ComesBack == "comeback" \in Hazards

(* Who may yet give a place of a room back: each role on its list, or, if  *)
(* the roles of those who are gone are never taken again, each connected   *)
(* player that is in the room or on its list.                              *)
Claim(x) == IF ComesBack THEN entity[x].roleid ELSE x

Claims(id) ==
    IF ComesBack
      THEN {Players(id)[i].roleid : i \in DOMAIN Players(id)}
      ELSE {x \in cache : entity[x].roomid = id \/ Listed(Players(id), entity[x].roleid)}

(* The places that are taken suffice for all claims: so when the count     *)
(* says that the last player leaves, nobody else is in the room.           *)
PlacesSuffice ==
    \A id \in RandomID : Exists(id) =>
        /\ IsFiniteSet(Claims(id))
        /\ Cardinality(Claims(id)) <= PersonCount - rooms[id].free

(* An entry that no other connected player's leaving takes out. *)
IsOwn(x, m) ==
    /\ m.socket = x
    /\ \A y \in cache : entity[y].roleid = m.roleid => y = x
    /\ "relogin" \notin Hazards => m.roleid = entity[x].roleid

EachHasOwn ==
    \A x \in cache : entity[x].roomid # 0 =>
        /\ Exists(entity[x].roomid)
        /\ \E i \in DOMAIN Players(entity[x].roomid) : IsOwn(x, Players(entity[x].roomid)[i])

Secured == RealRoles /\ RolesUnique /\ PlacesSuffice /\ EachHasOwn

LEMMA OneClaimLess ==
    ASSUME NEW C, IsFiniteSet(C), NEW c \in C, NEW D \in SUBSET (C \ {c}),
           NEW n \in Int, Cardinality(C) <= n
    PROVE  IsFiniteSet(D) /\ Cardinality(D) <= n - 1
PROOF
<1>1. IsFiniteSet(C \ {c}) /\ Cardinality(C \ {c}) = Cardinality(C) - 1
  BY FS_RemoveElement
<1>2. IsFiniteSet(D) /\ Cardinality(D) <= Cardinality(C \ {c})
  BY <1>1, FS_Subset
<1> QED
  BY <1>1, <1>2, FS_CardinalityType

LEMMA OneClaimMore ==
    ASSUME NEW C, IsFiniteSet(C), NEW c, NEW D \in SUBSET (C \cup {c}),
           NEW n \in Int, Cardinality(C) <= n
    PROVE  IsFiniteSet(D) /\ Cardinality(D) <= n + 1
PROOF
<1>0. Cardinality(C) \in Nat
  BY FS_CardinalityType
<1>a. /\ IsFiniteSet(C \cup {c})
      /\ Cardinality(C \cup {c}) = IF c \in C THEN Cardinality(C) ELSE Cardinality(C) + 1
  BY FS_AddElement
<1>1. IsFiniteSet(C \cup {c}) /\ Cardinality(C \cup {c}) <= Cardinality(C) + 1
  BY <1>0, <1>a
<1>2. IsFiniteSet(D) /\ Cardinality(D) <= Cardinality(C \cup {c})
  BY <1>1, FS_Subset
<1>3. /\ Cardinality(C) \in Nat /\ Cardinality(D) \in Nat
      /\ Cardinality(C \cup {c}) \in Nat
  BY <1>1, <1>2, FS_CardinalityType
<1> QED
  BY <1>1, <1>2, <1>3

LEMMA NoClaimMore ==
    ASSUME NEW C, IsFiniteSet(C), NEW D \in SUBSET C, NEW n \in Int, Cardinality(C) <= n
    PROVE  IsFiniteSet(D) /\ Cardinality(D) <= n
PROOF
<1>1. IsFiniteSet(D) /\ Cardinality(D) <= Cardinality(C)
  BY FS_Subset
<1> QED
  BY <1>1, FS_CardinalityType

(* Who is in a room or on its list has a claim, and no two the same one.   *)
LEMMA OwnClaim ==
    ASSUME CacheTypeOK, Secured, RolesKeptApart, NEW s \in cache, NEW id \in RandomID, Exists(id),
           entity[s].roomid = id \/ Listed(Players(id), entity[s].roleid)
    PROVE  Claim(s) \in Claims(id)
PROOF
<1>1. CASE ~ComesBack
  BY <1>1 DEF Claim, Claims
<1>2. CASE ComesBack
  <2>1. Listed(Players(id), entity[s].roleid)
    <3>1. CASE entity[s].roomid = id
      <4>1. id # 0 /\ "relogin" \notin Hazards
        BY <1>2, RoomAssumption DEF ComesBack, RolesKeptApart
      <4>2. PICK i \in DOMAIN Players(id) : IsOwn(s, Players(id)[i])
        BY <3>1, <4>1 DEF Secured, EachHasOwn
      <4> QED
        BY <4>1, <4>2 DEF IsOwn, Listed
    <3> QED
      BY <3>1
  <2> QED
    BY <1>2, <2>1 DEF Claim, Claims, Listed
<1> QED
  BY <1>1, <1>2

LEMMA ClaimsDiffer ==
    ASSUME CacheTypeOK, Secured, RolesKeptApart, NEW s \in cache, NEW x \in cache,
           entity[x].roomid # 0, Claim(s) = Claim(x)
    PROVE  s = x
PROOF
<1>1. CASE ~ComesBack
  BY <1>1 DEF Claim
<1>2. CASE ComesBack
  <2>1. PICK id \in RoomID : id = entity[x].roomid
    BY DEF CacheTypeOK, Entity
  <2>2. PICK i \in DOMAIN Players(id) : IsOwn(x, Players(id)[i]) /\ Exists(id)
    BY <2>1 DEF Secured, EachHasOwn
  <2>3. Players(id)[i].roleid = entity[x].roleid
    BY <1>2, <2>2 DEF IsOwn, ComesBack, RolesKeptApart
  <2>4. entity[s].roleid = entity[x].roleid
    BY <1>2 DEF Claim
  <2>5. \A y \in cache : entity[y].roleid = Players(id)[i].roleid => y = x
    BY <2>2 DEF IsOwn
  <2> QED
    BY <2>3, <2>4, <2>5
<1> QED
  BY <1>1, <1>2

-------------------------------------------------------------------------------
(* The rooms stay; who is still connected has its role and at most lost    *)
(* its room.                                                               *)
LEMMA SecuredSame ==
    ASSUME CacheTypeOK, Secured, rooms' = rooms, cache' \in SUBSET cache,
           \A x \in cache' : /\ entity'[x].roleid = entity[x].roleid
                             /\ entity'[x].roomid \in {entity[x].roomid, 0}
    PROVE  Secured'
PROOF
<1>1. \A id \in RoomID : /\ Exists(id)' = Exists(id)
                         /\ Players(id)' = Players(id)
                         /\ rooms'[id] = rooms[id]
  BY DEF Exists, Players
<1>2. RealRoles' /\ RolesUnique'
  BY <1>1 DEF Secured, RealRoles, RolesUnique
<1>3. PlacesSuffice'
  <2> SUFFICES ASSUME NEW id \in RandomID, Exists(id)'
               PROVE  /\ IsFiniteSet(Claims(id)')
                      /\ Cardinality(Claims(id)') <= PersonCount - rooms'[id].free
    BY DEF PlacesSuffice
  <2>1. id \in RoomID /\ id # 0 /\ Exists(id) /\ PersonCount - rooms[id].free \in Int
    BY <1>1, ExistingPlayers, PersonCountNat, RoomAssumption DEF RoomID
  <2>2. /\ IsFiniteSet(Claims(id))
        /\ Cardinality(Claims(id)) <= PersonCount - rooms[id].free
    BY <2>1 DEF Secured, PlacesSuffice
  <2>3. Claims(id)' \in SUBSET Claims(id)
    BY <1>1, <2>1 DEF Claims, Listed
  <2>4. /\ IsFiniteSet(Claims(id)')
        /\ Cardinality(Claims(id)') <= PersonCount - rooms[id].free
    BY ONLY <2>1, <2>2, <2>3, NoClaimMore
  <2> QED
    BY <1>1, <2>1, <2>4
<1>4. EachHasOwn'
  <2> SUFFICES ASSUME NEW x \in cache', entity'[x].roomid # 0
               PROVE  /\ Exists(entity[x].roomid)'
                      /\ \E i \in DOMAIN Players(entity[x].roomid)' :
                            IsOwn(x, Players(entity[x].roomid)[i])'
    BY DEF EachHasOwn
  <2>1. PICK id \in RoomID : id = entity[x].roomid
    BY DEF CacheTypeOK, Entity
  <2>2. x \in cache /\ entity'[x].roomid = id /\ id # 0
    BY <2>1
  <2>3. Exists(id) /\ \E i \in DOMAIN Players(id) : IsOwn(x, Players(id)[i])
    BY <2>1, <2>2 DEF Secured, EachHasOwn
  <2>4. \A m : IsOwn(x, m) => IsOwn(x, m)'
    BY DEF IsOwn
  <2> QED
    BY <1>1, <2>2, <2>3, <2>4
<1> QED
  BY <1>2, <1>3, <1>4 DEF Secured

(* One room is exchanged; players have their roles as before, and nobody   *)
(* is in another room than before but the exchanged one.                   *)
Exchanged(id, room) ==
    /\ rooms' = [rooms EXCEPT ![id] = room]
    /\ cache' = cache
    /\ \A x \in cache : /\ entity'[x].roleid = entity[x].roleid
                        /\ entity'[x].roomid \in {entity[x].roomid, 0, id}

LEMMA SecuredExchange ==
    ASSUME CacheTypeOK, Secured, NEW id \in RoomID, NEW room \in Room \cup {NULL},
           Exchanged(id, room),
           room # NULL => \A i \in DOMAIN room.players : room.players[i].roleid # 0,
           id \in RandomID /\ room # NULL =>
              /\ IsFiniteSet(Claims(id)')
              /\ Cardinality(Claims(id)') <= PersonCount - room.free,
           id # 0 => \A x \in cache : entity'[x].roomid = id =>
              /\ room # NULL
              /\ \E i \in DOMAIN room.players : IsOwn(x, room.players[i])
    PROVE  Secured'
PROOF
<1> USE DEF Exchanged
<1>1. /\ rooms'[id] = room
      /\ \A jd \in RoomID \ {id} : rooms'[jd] = rooms[jd]
  BY DEF CacheTypeOK
<1>2. /\ Exists(id)' <=> room # NULL
      /\ Players(id)' = room.players
      /\ \A jd \in RoomID \ {id} : Exists(jd)' = Exists(jd) /\ Players(jd)' = Players(jd)
  BY <1>1 DEF Exists, Players
<1>3. RealRoles'
  <2>1. ASSUME NEW jd \in RoomID, Exists(jd)', NEW i \in DOMAIN Players(jd)'
        PROVE  Players(jd)'[i].roleid # 0
    <3>1. CASE jd = id
      BY <1>2, <2>1, <3>1
    <3>2. CASE jd # id
      <4>1. Exists(jd) /\ Players(jd)' = Players(jd)
        BY <1>2, <2>1, <3>2
      <4> QED
        BY <2>1, <4>1 DEF Secured, RealRoles
    <3> QED
      BY <3>1, <3>2
  <2> QED
    BY <2>1 DEF RealRoles
<1>4. RolesUnique'
  BY DEF Secured, RolesUnique
<1>5. PlacesSuffice'
  <2> SUFFICES ASSUME NEW jd \in RandomID, Exists(jd)'
               PROVE  /\ IsFiniteSet(Claims(jd)')
                      /\ Cardinality(Claims(jd)') <= PersonCount - rooms'[jd].free
    BY DEF PlacesSuffice
  <2>1. CASE jd = id
    BY <1>1, <1>2, <2>1
  <2>2. CASE jd # id
    <3>1. /\ jd \in RoomID /\ jd # 0 /\ Exists(jd) /\ Players(jd)' = Players(jd)
          /\ rooms'[jd] = rooms[jd] /\ PersonCount - rooms[jd].free \in Int
      BY <1>1, <1>2, <2>2, ExistingPlayers, PersonCountNat, RoomAssumption DEF RoomID
    <3>2. /\ IsFiniteSet(Claims(jd))
          /\ Cardinality(Claims(jd)) <= PersonCount - rooms[jd].free
      BY <3>1 DEF Secured, PlacesSuffice
    <3>3. Claims(jd)' \in SUBSET Claims(jd)
      BY <2>2, <3>1 DEF Claims, Listed
    <3>4. /\ IsFiniteSet(Claims(jd)')
          /\ Cardinality(Claims(jd)') <= PersonCount - rooms[jd].free
      BY ONLY <3>1, <3>2, <3>3, NoClaimMore
    <3> QED
      BY <3>1, <3>4
  <2> QED
    BY <2>1, <2>2
<1>6. EachHasOwn'
  <2> SUFFICES ASSUME NEW x \in cache, entity'[x].roomid # 0
               PROVE  /\ Exists(entity[x].roomid)'
                      /\ \E i \in DOMAIN Players(entity[x].roomid)' :
                            IsOwn(x, Players(entity[x].roomid)[i])'
    BY DEF EachHasOwn
  <2>1. entity[x].roomid \in RoomID
    BY DEF CacheTypeOK, Entity
  <2>2. PICK jd \in RoomID : jd = entity'[x].roomid /\ jd # 0
    BY <2>1
  <2>3. \A m : IsOwn(x, m) => IsOwn(x, m)'
    BY DEF IsOwn
  <2>4. CASE jd = id
    BY <1>2, <2>2, <2>3, <2>4
  <2>5. CASE jd # id
    <3>1. entity[x].roomid = jd
      BY <2>2, <2>5
    <3>2. Exists(jd) /\ \E i \in DOMAIN Players(jd) : IsOwn(x, Players(jd)[i])
      BY <2>2, <3>1 DEF Secured, EachHasOwn
    <3>3. Exists(jd)' /\ \E i \in DOMAIN Players(jd)' : IsOwn(x, Players(jd)'[i])
      BY <1>2, <2>5, <3>2
    <3> QED
      BY <2>2, <2>3, <3>3
  <2> QED
    BY <2>4, <2>5
<1> QED
  BY <1>3, <1>4, <1>5, <1>6 DEF Secured

-------------------------------------------------------------------------------
(* The handlers *)

(* A player gets onto the list of a room, one place is taken. *)
LEMMA AdmitSecured ==
    ASSUME CacheTypeOK, Secured, RolesKeptApart, NEW s \in cache, entity[s].roleid # 0,
           NEW id \in RoomID, Exists(id), NEW seat \in SeatName, Admit(s, id, seat)
    PROVE  Secured'
PROOF
<1> DEFINE m == [socket |-> s, roleid |-> entity[s].roleid, isroomctl |-> FALSE, seat |-> seat]
           room == Seated(rooms[id], m)
           old == Players(id)
<1>1. m.socket = s /\ m.roleid = entity[s].roleid /\ m \in Member
  BY DEF Member, CacheTypeOK, Entity
<1>2. /\ rooms' = [rooms EXCEPT ![id] = room] /\ cache' = cache
      /\ \A x \in Socket \ {s} : entity'[x] = entity[x]
      /\ entity'[s].roleid = entity[s].roleid /\ entity'[s].roomid = id
  BY DEF Admit, CacheTypeOK, Entity
<1>3. /\ old \in Seq(Member) /\ Len(old) \in Nat /\ DOMAIN old = 1..Len(old)
      /\ rooms[id].free \in Int
  BY ExistingPlayers
<1> HIDE DEF m
<1>4. /\ room \in Room /\ room.free = rooms[id].free - 1
      /\ DOMAIN room.players = 1..(Len(old) + 1)
      /\ room.players[Len(old) + 1] = m
      /\ \A i \in 1..Len(old) : room.players[i] = old[i]
  <2>1. room \in Room
    BY <1>1, ExistingRoom, SeatedType
  <2>2. room.free = rooms[id].free - 1 /\ room.players = Append(old, m)
    BY DEF Seated, Players
  <2> HIDE DEF room, old
  <2> QED
    BY <1>1, <1>3, <2>1, <2>2
<1> HIDE DEF room, old
<1>5. Exchanged(id, room)
  BY <1>2 DEF Exchanged, CacheTypeOK
<1>6. \A i \in DOMAIN room.players : room.players[i].roleid # 0
  BY <1>1, <1>3, <1>4 DEF Secured, RealRoles, old
<1>7. room # NULL /\ Players(id)' = room.players
  BY <1>2, <1>4, RoomAssumption DEF CacheTypeOK, Players
<1>8. ASSUME id \in RandomID
      PROVE  /\ IsFiniteSet(Claims(id)')
             /\ Cardinality(Claims(id)') <= PersonCount - room.free
  <2>1. Claims(id)' \in SUBSET (Claims(id) \cup {Claim(s)})
    <3>1. CASE ComesBack
      BY <1>1, <1>3, <1>4, <1>7, <3>1 DEF Claims, Claim, old
    <3>2. CASE ~ComesBack
      <4>1. ASSUME NEW x \in cache, x # s, entity'[x].roomid = id \/ Listed(room.players, entity'[x].roleid)
            PROVE  entity[x].roomid = id \/ Listed(old, entity[x].roleid)
        <5>1. entity'[x] = entity[x] /\ entity[x].roleid # entity[s].roleid
          BY <1>2, <4>1 DEF CacheTypeOK, Secured, RolesUnique
        <5> QED
          BY <1>1, <1>3, <1>4, <4>1, <5>1 DEF Listed
      <4> QED
        BY <1>2, <1>7, <3>2, <4>1 DEF Claims, Claim, old
    <3> QED
      BY <3>1, <3>2
  <2>2. PersonCount - rooms[id].free \in Int
    BY <1>3, PersonCountNat
  <2>3. /\ IsFiniteSet(Claims(id))
        /\ Cardinality(Claims(id)) <= PersonCount - rooms[id].free
    BY <1>8 DEF Secured, PlacesSuffice
  <2>4. /\ IsFiniteSet(Claims(id)')
        /\ Cardinality(Claims(id)') <= (PersonCount - rooms[id].free) + 1
    BY ONLY <2>1, <2>2, <2>3, OneClaimMore
  <2> QED
    BY <1>3, <1>4, <2>4, PersonCountNat
<1>9. ASSUME id # 0, NEW x \in cache, entity'[x].roomid = id
      PROVE  \E i \in DOMAIN room.players : IsOwn(x, room.players[i])
  <2>1. CASE x = s
    <3>1. IsOwn(s, m)
      BY <1>1 DEF IsOwn, Secured, RolesUnique
    <3> QED
      BY <1>3, <1>4, <2>1, <3>1
  <2>2. CASE x # s
    <3>1. entity[x].roomid = id
      BY <1>2, <1>9, <2>2 DEF CacheTypeOK
    <3>2. PICK i \in DOMAIN old : IsOwn(x, old[i])
      BY <1>9, <3>1 DEF Secured, EachHasOwn, old
    <3>3. i \in DOMAIN room.players /\ room.players[i] = old[i]
      BY <1>3, <1>4
    <3> QED
      BY <3>2, <3>3
  <2> QED
    BY <2>1, <2>2
<1> QED
  BY <1>4, <1>5, <1>6, <1>7, <1>8, <1>9, SecuredExchange

(* A new room has one place taken, and one player who may give it back.    *)
(* Where the room of the drawn id is there, nothing but the entity changes. *)
LEMMA CreateRoomSecured ==
    ASSUME CacheTypeOK, Secured, RolesKeptApart, NEW s \in cache, entity[s].roleid # 0,
           NEW id \in RoomID, CreateRoom(s, id)
    PROVE  Secured'
PROOF
<1> DEFINE m == [socket |-> s, roleid |-> entity[s].roleid, isroomctl |-> TRUE, seat |-> FirstSeat]
           room == NewRoom(m)
<1>1. m.socket = s /\ m.roleid = entity[s].roleid /\ m \in Member
  BY FirstSeatIsSeat DEF Member, CacheTypeOK, Entity
<1>2. /\ rooms' = WithRoom(id, room) /\ cache' = cache
      /\ \A x \in Socket \ {s} : entity'[x] = entity[x]
      /\ entity'[s].roleid = entity[s].roleid /\ entity'[s].roomid = id
      /\ entity[s].roomid = 0 /\ id \in GenrateOnlyRoomID
  BY DEF CreateRoom, CacheTypeOK, Entity
<1> HIDE DEF m
<1>3. /\ room \in Room /\ room.free = PersonCount - 1
      /\ DOMAIN room.players = {1} /\ room.players[1] = m
  BY <1>1, NewRoomType DEF NewRoom
<1> HIDE DEF room
<1>4. CASE Exists(id)
  <2>1. id = 0
    BY <1>2, <1>4 DEF GenrateOnlyRoomID
  <2>2. rooms' = rooms
    BY <1>2, <1>4 DEF WithRoom
  <2>3. \A x \in cache' : /\ entity'[x].roleid = entity[x].roleid
                          /\ entity'[x].roomid \in {entity[x].roomid, 0}
    BY <1>2, <2>1 DEF CacheTypeOK
  <2> QED
    BY <1>2, <2>2, <2>3, SecuredSame
<1>5. CASE ~Exists(id)
  <2>1. rooms' = [rooms EXCEPT ![id] = room]
    BY <1>2, <1>5 DEF WithRoom
  <2>2. Exchanged(id, room)
    BY <1>2, <2>1 DEF Exchanged, CacheTypeOK
  <2>3. room # NULL /\ Players(id)' = room.players
    BY <1>3, <2>1, RoomAssumption DEF CacheTypeOK, Players
  <2>4. \A x \in cache : id # 0 /\ entity'[x].roomid = id => x = s
    BY <1>2, <1>5 DEF Secured, EachHasOwn, CacheTypeOK
  <2>5. ASSUME id \in RandomID
        PROVE  /\ IsFiniteSet(Claims(id)')
               /\ Cardinality(Claims(id)') <= PersonCount - room.free
    <3>1. Claims(id)' \in SUBSET {Claim(s)}
      <4>1. CASE ComesBack
        BY <1>1, <1>3, <2>3, <4>1 DEF Claims, Claim
      <4>2. CASE ~ComesBack
        <5>1. \A x \in cache : Listed(room.players, entity'[x].roleid) => x = s
          BY <1>1, <1>2, <1>3 DEF Listed, Secured, RolesUnique, CacheTypeOK
        <5>2. id # 0
          BY <2>5, RoomAssumption
        <5> QED
          BY <1>2, <2>3, <2>4, <4>2, <5>1, <5>2 DEF Claims, Claim
      <4> QED
        BY <4>1, <4>2
    <3>2. IsFiniteSet({Claim(s)}) /\ Cardinality({Claim(s)}) = 1
      BY FS_Singleton
    <3>3. IsFiniteSet(Claims(id)') /\ Cardinality(Claims(id)') <= 1
      BY ONLY <3>1, <3>2, FS_Subset
    <3> QED
      BY <1>3, <3>3, PersonCountNat
  <2>6. id # 0 => \A x \in cache : entity'[x].roomid = id =>
          room # NULL /\ \E i \in DOMAIN room.players : IsOwn(x, room.players[i])
    <3>1. IsOwn(s, m)
      BY <1>1 DEF IsOwn, Secured, RolesUnique
    <3> QED
      BY <1>3, <2>3, <2>4, <3>1
  <2>7. \A i \in DOMAIN room.players : room.players[i].roleid # 0
    BY <1>1, <1>3
  <2> QED
    BY <1>3, <2>2, <2>5, <2>6, <2>7, SecuredExchange
<1> QED
  BY <1>4, <1>5

(* A player leaves a room that lists its role or is its own: its entries   *)
(* are taken out, one place is given back and its claim is gone.           *)
LEMMA LeavingSecured ==
    ASSUME CacheTypeOK, Secured, RolesKeptApart, NEW s \in cache, NEW id \in RoomID, Exists(id),
           entity[s].roomid = id \/ Listed(Players(id), entity[s].roleid),
           NEW heirs, NEW sockets,
           rooms' = [rooms EXCEPT ![id] = Rebuilt(rooms[id], entity[s].roleid, heirs)],
           entity' = Departed(s, sockets), cache' = cache
    PROVE  Secured'
PROOF
<1> DEFINE old == Players(id)
           role == entity[s].roleid
           room == Rebuilt(rooms[id], role, heirs)
           K == Others(old, role)
<1>1. /\ \A x \in Socket : entity'[x].roleid = entity[x].roleid
      /\ \A x \in Socket \ {s} : entity'[x].roomid = entity[x].roomid
      /\ entity'[s].roomid = 0
      /\ s \in Socket /\ cache \subseteq Socket
  BY DepartedFields DEF CacheTypeOK
<1>2. /\ old \in Seq(Member) /\ Len(old) \in Nat /\ DOMAIN old = 1..Len(old)
      /\ rooms[id].free \in Int /\ rooms[id] \in Room /\ rooms[id].players = old
  BY ExistingPlayers, ExistingRoom DEF Players
<1>3. /\ room \in Room /\ room.free = rooms[id].free + 1
      /\ DOMAIN room.players = 1..Cardinality(K)
      /\ \A k \in 1..Cardinality(K) :
            /\ Nth(K, k) \in K
            /\ room.players[k].roleid = old[Nth(K, k)].roleid
            /\ room.players[k].socket = old[Nth(K, k)].socket
  BY <1>2, RebuiltSound
<1>4. rooms' = [rooms EXCEPT ![id] = room] /\ cache' = cache
  OBVIOUS
<1>5. K \in SUBSET (1..Len(old)) /\ \A i \in 1..Len(old) : i \in K <=> old[i].roleid # role
  BY <1>2 DEF Others
<1> HIDE DEF room, K
<1>6. \A i \in K : \E k \in 1..Cardinality(K) : Nth(K, k) = i
  BY ONLY <1>2, <1>5, NthCovers
<1> HIDE DEF old, role
<1>7. /\ \A k \in DOMAIN room.players : \E i \in DOMAIN old :
            /\ old[i].roleid # role
            /\ room.players[k].roleid = old[i].roleid
            /\ room.players[k].socket = old[i].socket
      /\ \A i \in DOMAIN old : old[i].roleid # role =>
            \E k \in DOMAIN room.players :
               /\ room.players[k].roleid = old[i].roleid
               /\ room.players[k].socket = old[i].socket
  <2>1. ASSUME NEW k \in DOMAIN room.players
        PROVE  /\ Nth(K, k) \in DOMAIN old /\ old[Nth(K, k)].roleid # role
               /\ room.players[k].roleid = old[Nth(K, k)].roleid
               /\ room.players[k].socket = old[Nth(K, k)].socket
    BY ONLY <1>2, <1>3, <1>5, <2>1
  <2>2. ASSUME NEW i \in DOMAIN old, old[i].roleid # role
        PROVE  \E k \in DOMAIN room.players :
                  /\ room.players[k].roleid = old[i].roleid
                  /\ room.players[k].socket = old[i].socket
    <3>1. PICK k \in 1..Cardinality(K) : Nth(K, k) = i
      BY <1>2, <1>5, <1>6, <2>2
    <3> QED
      BY <1>3, <3>1
  <2> QED
    BY <2>1, <2>2
<1>8. Exchanged(id, room)
  BY <1>1, <1>4 DEF Exchanged
<1>9. \A k \in DOMAIN room.players : room.players[k].roleid # 0
  BY <1>7 DEF Secured, RealRoles, old
<1>10. room # NULL /\ Players(id)' = room.players
  BY <1>3, <1>4, RoomAssumption DEF CacheTypeOK, Players
<1>11. ASSUME id \in RandomID
       PROVE  /\ IsFiniteSet(Claims(id)')
              /\ Cardinality(Claims(id)') <= PersonCount - room.free
  <2>1. Claims(id)' \in SUBSET (Claims(id) \ {Claim(s)})
    <3>1. CASE ComesBack
      BY <1>7, <1>10, <3>1 DEF Claims, Claim, old, role
    <3>2. CASE ~ComesBack
      <4>1. id # 0 /\ ~Listed(room.players, role)
        BY <1>7, <1>11, RoomAssumption DEF Listed
      <4>2. \A r : Listed(room.players, r) => Listed(old, r)
        BY <1>7 DEF Listed
      <4> QED
        BY <1>1, <1>4, <1>10, <3>2, <4>1, <4>2 DEF Claims, Claim, old, role
    <3> QED
      BY <3>1, <3>2
  <2>2. PersonCount - rooms[id].free \in Int
    BY <1>2, PersonCountNat
  <2>3. /\ IsFiniteSet(Claims(id)) /\ Claim(s) \in Claims(id)
        /\ Cardinality(Claims(id)) <= PersonCount - rooms[id].free
    BY <1>11, OwnClaim DEF Secured, PlacesSuffice
  <2>4. /\ IsFiniteSet(Claims(id)')
        /\ Cardinality(Claims(id)') <= (PersonCount - rooms[id].free) - 1
    BY ONLY <2>1, <2>2, <2>3, OneClaimLess
  <2> QED
    BY <1>2, <1>3, <2>4, PersonCountNat
<1>12. ASSUME id # 0, NEW x \in cache, entity'[x].roomid = id
       PROVE  \E k \in DOMAIN room.players : IsOwn(x, room.players[k])
  <2>1. x # s /\ entity[x].roomid = id
    BY <1>1, <1>12
  <2>2. PICK i \in DOMAIN old : IsOwn(x, old[i])
    BY <1>12, <2>1 DEF Secured, EachHasOwn, old
  <2>3. old[i].roleid # role
    BY <2>1, <2>2 DEF IsOwn, role
  <2> QED
    BY <1>7, <2>2, <2>3 DEF IsOwn
<1> QED
  BY <1>3, <1>8, <1>9, <1>10, <1>11, <1>12, SecuredExchange

(* The last player leaves: nobody else has a claim, so nobody else is in   *)
(* the room that closes.                                                   *)
LEMMA ClosingSecured ==
    ASSUME CacheTypeOK, Secured, RolesKeptApart, NEW s \in cache, NEW id \in RoomID, Exists(id),
           entity[s].roomid = id \/ Listed(Players(id), entity[s].roleid),
           LastLeaves(rooms[id]),
           rooms' = WithoutRoom(id), entity' = Departed(s, {}), cache' = cache
    PROVE  Secured'
PROOF
<1>1. /\ \A x \in Socket : entity'[x].roleid = entity[x].roleid
      /\ \A x \in Socket \ {s} : entity'[x].roomid = entity[x].roomid
      /\ entity'[s].roomid = 0
      /\ s \in Socket /\ cache \subseteq Socket
  BY DepartedFields DEF CacheTypeOK
<1>2. Exchanged(id, NULL)
  BY <1>1 DEF Exchanged, WithoutRoom
<1>3. ASSUME id # 0, NEW x \in cache, entity'[x].roomid = id
      PROVE  FALSE
  <2>1. id \in RandomID /\ x # s /\ entity[x].roomid = id
    BY <1>1, <1>3 DEF RoomID
  <2>2. Claim(s) \in Claims(id) /\ Claim(x) \in Claims(id)
    BY <2>1, OwnClaim
  <2>3. IsFiniteSet(Claims(id)) /\ Cardinality(Claims(id)) <= PersonCount - rooms[id].free
    BY <2>1 DEF Secured, PlacesSuffice
  <2>4. Cardinality(Claims(id)) <= 1
    BY <2>3, ExistingPlayers, PersonCountNat DEF LastLeaves
  <2>5. Claim(s) = Claim(x)
    <3>1. IsFiniteSet({}) /\ Cardinality(Claims(id) \ {Claim(s)}) = Cardinality(Claims(id)) - 1
      BY <2>2, <2>3, FS_RemoveElement, FS_EmptySet
    <3>2. IsFiniteSet(Claims(id) \ {Claim(s)}) /\ Cardinality(Claims(id) \ {Claim(s)}) \in Nat
      BY <2>3, FS_RemoveElement, FS_CardinalityType
    <3>3. Cardinality(Claims(id) \ {Claim(s)}) = 0
      BY <2>3, <2>4, <3>1, <3>2, FS_CardinalityType
    <3>4. Claims(id) \ {Claim(s)} = {}
      BY <3>2, <3>3, FS_EmptySet
    <3> QED
      BY <2>2, <3>4
  <2> QED
    BY <1>3, <2>1, <2>5, ClaimsDiffer
<1> QED
  BY <1>2, <1>3, SecuredExchange

LEMMA LeaveOwnRoomSecured ==
    ASSUME CacheTypeOK, Secured, RolesKeptApart, NEW s \in cache, OwnRoom(s) # NULL, LeaveOwnRoom(s)
    PROVE  Secured'
PROOF
<1>1. PICK id \in RoomID : id = entity[s].roomid
  BY DEF CacheTypeOK, Entity
<1>2. Exists(id) /\ rooms[id] = OwnRoom(s)
  BY <1>1 DEF OwnRoom, Exists
<1>3. CASE Crash("NullEntity")
  BY <1>3, SecuredSame DEF Crash
<1>4. CASE LastLeaves(rooms[id]) /\ ~Crash("NullEntity")
  <2>1. rooms' = WithoutRoom(id) /\ entity' = Departed(s, {}) /\ cache' = cache
    BY <1>1, <1>4 DEF LeaveOwnRoom
  <2> QED
    BY <1>1, <1>2, <1>4, <2>1, ClosingSecured
<1>5. CASE ~LastLeaves(rooms[id]) /\ ~Crash("NullEntity")
  <2>1. PICK heirs, sockets :
          /\ rooms' = [rooms EXCEPT ![id] = Rebuilt(rooms[id], entity[s].roleid, heirs)]
          /\ entity' = Departed(s, sockets) /\ cache' = cache
    BY <1>1, <1>5 DEF LeaveOwnRoom
  <2> QED
    BY <1>1, <1>2, <2>1, LeavingSecured
<1> QED
  BY <1>3, <1>4, <1>5

LEMMA JoinRoomSecured ==
    ASSUME CacheTypeOK, Secured, RolesKeptApart, NEW s \in cache, entity[s].roleid # 0,
           NEW id \in RoomID, JoinRoom(s, id)
    PROVE  Secured'
PROOF
<1>1. Exists(id)
  BY DEF JoinRoom
<1>2. CASE ~Listed(Players(id), entity[s].roleid)
  <2>1. PICK seat \in SeatName : Admit(s, id, seat)
    BY <1>2 DEF JoinRoom, Players, FirstIdle, IdleSeats, SeatName
  <2> QED
    BY <1>1, <2>1, AdmitSecured
<1>3. CASE Listed(Players(id), entity[s].roleid)
  <2>1. Rejoin(s, id)
    BY <1>3 DEF JoinRoom, Players
  <2>2. CASE LastLeaves(rooms[id])
    <3>1. rooms' = WithoutRoom(id) /\ entity' = Departed(s, {}) /\ cache' = cache
      BY <2>1, <2>2 DEF Rejoin
    <3> QED
      BY <1>1, <1>3, <2>2, <3>1, ClosingSecured
  <2>3. CASE ~LastLeaves(rooms[id])
    <3>1. PICK heirs, sockets :
            /\ rooms' = [rooms EXCEPT ![id] = Rebuilt(rooms[id], entity[s].roleid, heirs)]
            /\ entity' = Departed(s, sockets) /\ cache' = cache
      BY <2>1, <2>3 DEF Rejoin
    <3> QED
      BY <1>1, <1>3, <3>1, LeavingSecured
  <2> QED
    BY <2>2, <2>3
<1> QED
  BY <1>2, <1>3

(* Everyone in the room is on its list, so the end of the game sends all   *)
(* of them home.                                                           *)
LEMMA GameOverSecured ==
    ASSUME CacheTypeOK, Secured, NEW s \in cache, GameOver(s)
    PROVE  Secured'
PROOF
<1>1. CASE Crash("NullEntity")
  BY <1>1, SecuredSame DEF Crash
<1>2. CASE ~Crash("NullEntity")
  <2>1. PICK id \in RoomID : id = entity[s].roomid
    BY DEF CacheTypeOK, Entity
  <2>2. /\ OwnRoom(s).players = Players(id) /\ cache \subseteq Socket
        /\ rooms' = [rooms EXCEPT ![id] = NULL] /\ cache' = cache
        /\ entity' = SentHome(Players(id))
    BY <1>2, <2>1 DEF GameOver, WithoutRoom, OwnRoom, Players, CacheTypeOK
  <2> DEFINE listed == SocketsAt(Players(id), DOMAIN Players(id))
  <2>3. \A x \in Socket : /\ entity'[x].roleid = entity[x].roleid
                          /\ x \in listed => entity'[x].roomid = 0
                          /\ x \notin listed => entity'[x].roomid = entity[x].roomid
    BY <2>2 DEF SentHome, CacheTypeOK, Entity
  <2> HIDE DEF listed
  <2>4. Exchanged(id, NULL)
    BY <2>2, <2>3 DEF Exchanged
  <2>5. ASSUME id # 0, NEW x \in cache, entity'[x].roomid = id
        PROVE  FALSE
    <3>1. x \notin listed /\ entity[x].roomid = id
      BY <2>2, <2>3, <2>5
    <3>2. PICK i \in DOMAIN Players(id) : IsOwn(x, Players(id)[i])
      BY <2>5, <3>1 DEF Secured, EachHasOwn
    <3> QED
      BY <3>1, <3>2 DEF IsOwn, SocketsAt, listed
  <2> QED
    BY <2>4, <2>5, SecuredExchange
<1> QED
  BY <1>1, <1>2

LEMMA SelectRoleSecured ==
    ASSUME CacheTypeOK, Secured, RolesKeptApart, NEW s \in Socket, NEW u \in UserID,
           SelectRole(s, u)
    PROVE  Secured'
PROOF
<1>1. /\ s \in cache /\ cache' = cache /\ rooms' = rooms /\ cache \subseteq Socket
      /\ entity'[s].roleid = u /\ entity'[s].roomid = entity[s].roomid
      /\ \A x \in Socket \ {s} : entity'[x] = entity[x]
  BY DEF SelectRole, Served, CacheTypeOK, Entity
<1>2. /\ \A x \in cache : entity[x].roleid # u
      /\ entity[s].roleid = 0 \/ "relogin" \in Hazards
      /\ ~ComesBack => ~HeldInRoom(u)
  BY DEF SelectRole, RoleMayBeChosen, RolesKeptApart, HeldByEntity, Admits, ComesBack
<1>3. \A id \in RoomID : /\ Exists(id)' = Exists(id)
                         /\ Players(id)' = Players(id)
                         /\ rooms'[id] = rooms[id]
  BY <1>1 DEF Exists, Players
<1>4. RealRoles'
  BY <1>3 DEF Secured, RealRoles
<1>5. RolesUnique'
  BY <1>1, <1>2 DEF Secured, RolesUnique
<1>6. PlacesSuffice'
  <2> SUFFICES ASSUME NEW id \in RandomID, Exists(id)'
               PROVE  /\ IsFiniteSet(Claims(id)')
                      /\ Cardinality(Claims(id)') <= PersonCount - rooms'[id].free
    BY DEF PlacesSuffice
  <2>1. id \in RoomID /\ Exists(id) /\ PersonCount - rooms[id].free \in Int
    BY <1>3, ExistingPlayers, PersonCountNat DEF RoomID
  <2>2. /\ IsFiniteSet(Claims(id))
        /\ Cardinality(Claims(id)) <= PersonCount - rooms[id].free
    BY <2>1 DEF Secured, PlacesSuffice
  <2>3. Claims(id)' \in SUBSET Claims(id)
    <3>1. CASE ComesBack
      BY <1>3, <2>1, <3>1 DEF Claims
    <3>2. CASE ~ComesBack
      <4>1. ~Listed(Players(id), u)
        BY <1>2, <2>1, <3>2 DEF HeldInRoom, Players
      <4> QED
        BY <1>1, <1>3, <2>1, <3>2, <4>1 DEF Claims
    <3> QED
      BY <3>1, <3>2
  <2>4. /\ IsFiniteSet(Claims(id)')
        /\ Cardinality(Claims(id)') <= PersonCount - rooms[id].free
    BY ONLY <2>1, <2>2, <2>3, NoClaimMore
  <2> QED
    BY <1>3, <2>1, <2>4
<1>7. EachHasOwn'
  <2> SUFFICES ASSUME NEW x \in cache, entity'[x].roomid # 0
               PROVE  /\ Exists(entity[x].roomid)'
                      /\ \E i \in DOMAIN Players(entity[x].roomid)' :
                            IsOwn(x, Players(entity[x].roomid)[i])'
    BY <1>1 DEF EachHasOwn
  <2>1. PICK id \in RoomID : id = entity[x].roomid
    BY <1>1 DEF CacheTypeOK, Entity
  <2>2. entity'[x].roomid = id /\ id # 0
    BY <1>1, <2>1
  <2>3. PICK i \in DOMAIN Players(id) : IsOwn(x, Players(id)[i])
    BY <2>1, <2>2 DEF Secured, EachHasOwn
  <2>4. Exists(id)
    BY <2>1, <2>2 DEF Secured, EachHasOwn
  <2> DEFINE m == Players(id)[i]
  <2>5. m.roleid # 0 /\ Listed(Players(id), m.roleid)
    BY <2>4 DEF Secured, RealRoles, Listed
  <2>6. /\ m.socket = x
        /\ \A y \in cache : entity[y].roleid = m.roleid => y = x
        /\ "relogin" \notin Hazards => m.roleid = entity[x].roleid
    BY <2>3 DEF IsOwn
  <2>7. HeldInRoom(m.roleid)
    BY <2>4, <2>5 DEF HeldInRoom, Players
  <2> HIDE DEF m
  (* Nobody takes the role of the entry away from x. *)
  <2>8. m.roleid = u => x = s
    BY <1>2, <2>6, <2>7 DEF RolesKeptApart, ComesBack
  <2>9. x = s => "relogin" \in Hazards
    BY <1>2, <2>5, <2>6
  <2>10. \A y \in cache : entity'[y].roleid = m.roleid => y = x
    BY <1>1, <2>6, <2>8
  <2>11. "relogin" \notin Hazards => m.roleid = entity'[x].roleid
    BY <1>1, <2>6, <2>9
  <2>12. IsOwn(x, m)'
    BY <1>1, <1>3, <2>6, <2>10, <2>11 DEF IsOwn, m
  <2> QED
    BY <1>3, <2>2, <2>4, <2>12 DEF m
<1> QED
  BY <1>4, <1>5, <1>6, <1>7 DEF Secured

(* A new connection has no role and is in no room, also on a number that   *)
(* rooms still list.                                                       *)
LEMMA ConnectSecured ==
    ASSUME CacheTypeOK, Secured, NEW s \in Socket, Connect(s)
    PROVE  Secured'
PROOF
<1>1. /\ s \notin cache /\ cache' = cache \cup {s} /\ rooms' = rooms /\ cache \subseteq Socket
      /\ entity'[s].roleid = 0 /\ entity'[s].roomid = 0
      /\ \A x \in cache : entity'[x] = entity[x]
  BY DEF Connect, CacheTypeOK, NewEntity
<1>2. \A id \in RoomID : /\ Exists(id)' = Exists(id)
                         /\ Players(id)' = Players(id)
                         /\ rooms'[id] = rooms[id]
  BY <1>1 DEF Exists, Players
<1>3. RealRoles' /\ RolesUnique'
  BY <1>1, <1>2 DEF Secured, RealRoles, RolesUnique
<1>4. PlacesSuffice'
  <2> SUFFICES ASSUME NEW id \in RandomID, Exists(id)'
               PROVE  /\ IsFiniteSet(Claims(id)')
                      /\ Cardinality(Claims(id)') <= PersonCount - rooms'[id].free
    BY DEF PlacesSuffice
  <2>1. id \in RoomID /\ id # 0 /\ Exists(id)
    BY <1>2, RoomAssumption DEF RoomID
  <2>2. ~Listed(Players(id), 0)
    BY <2>1 DEF Secured, RealRoles, Listed
  <2>3. Claims(id)' = Claims(id)
    BY <1>1, <1>2, <2>1, <2>2 DEF Claims
  <2> QED
    BY <1>2, <2>1, <2>3 DEF Secured, PlacesSuffice
<1>5. EachHasOwn'
  <2> SUFFICES ASSUME NEW x \in cache', entity'[x].roomid # 0
               PROVE  /\ Exists(entity[x].roomid)'
                      /\ \E i \in DOMAIN Players(entity[x].roomid)' :
                            IsOwn(x, Players(entity[x].roomid)[i])'
    BY DEF EachHasOwn
  <2>1. x \in cache /\ entity'[x] = entity[x]
    BY <1>1
  <2>2. PICK id \in RoomID : id = entity[x].roomid
    BY <2>1 DEF CacheTypeOK, Entity
  <2>3. Exists(id)
    BY <2>1, <2>2 DEF Secured, EachHasOwn
  <2>4. PICK i \in DOMAIN Players(id) : IsOwn(x, Players(id)[i])
    BY <2>1, <2>2 DEF Secured, EachHasOwn
  <2>5. Players(id)[i].roleid # 0
    BY <2>3 DEF Secured, RealRoles
  <2>6. IsOwn(x, Players(id)[i])'
    BY <1>1, <1>2, <2>1, <2>4, <2>5 DEF IsOwn
  <2> QED
    BY <1>2, <2>1, <2>2, <2>3, <2>6
<1> QED
  BY <1>3, <1>4, <1>5 DEF Secured

LEMMA EvictSecured ==
    ASSUME CacheTypeOK, Secured, NEW s \in Socket, TickEvict(s)
    PROVE  Secured'
PROOF
<1>1. /\ cache' = cache \ {s} /\ rooms' = rooms
      /\ \A x \in cache' : entity'[x] = entity[x]
  BY DEF TickEvict, CacheTypeOK
<1> QED
  BY <1>1, SecuredSame

LEMMA GameWaiteSecured ==
    ASSUME CacheTypeOK, Secured, NEW s \in Socket, GameWaite(s)
    PROVE  Secured'
PROOF
<1>1. /\ cache' = cache /\ rooms' = rooms
      /\ \A x \in Socket : /\ entity'[x].roleid = entity[x].roleid
                           /\ entity'[x].roomid = entity[x].roomid
  BY DEF GameWaite, Crash, CacheTypeOK, Entity
<1> QED
  BY <1>1, SecuredSame DEF CacheTypeOK

LEMMA RsyncSecured ==
    ASSUME CacheTypeOK, Secured, NEW s \in Socket, NEW sent \in SentInfo, Rsync(s, sent)
    PROVE  Secured'
PROOF
<1>1. /\ cache' = cache /\ rooms' = rooms
      /\ \A x \in Socket : /\ entity'[x].roleid = entity[x].roleid
                           /\ entity'[x].roomid = entity[x].roomid
  BY DEF Rsync, Overwritten, CacheTypeOK, Entity
<1> QED
  BY <1>1, SecuredSame DEF CacheTypeOK

LEMMA NothingSecured ==
    ASSUME CacheTypeOK, Secured, UNCHANGED <<cache, entity, rooms>>
    PROVE  Secured'
BY SecuredSame

LEMMA LobbySecured ==
    ASSUME CacheTypeOK, Secured, RolesKeptApart, NEW s \in Socket, Lobby(s)
    PROVE  Secured'
PROOF
<1>1. entity[s].roleid # 0
  BY DEF Lobby, HasRole, RolesKeptApart, Admits
<1>2. ASSUME NEW id \in RoomID, CreateRoom(s, id)
      PROVE  Secured'
  BY <1>1, <1>2, CreateRoomSecured DEF CreateRoom, Served
<1>3. ASSUME NEW id \in RoomID, NEW seat \in SeatName, JoinTeam(s, id, seat)
      PROVE  Secured'
  BY <1>1, <1>3, AdmitSecured, NothingSecured DEF JoinTeam, Served, Crash
<1>4. ASSUME NEW id \in RoomID, JoinRoom(s, id)
      PROVE  Secured'
  BY <1>1, <1>4, JoinRoomSecured DEF JoinRoom, Served
<1>5. CASE LeaveRoom(s)
  BY <1>5, LeaveOwnRoomSecured DEF LeaveRoom, Served
<1>6. CASE GameWaite(s)
  BY <1>6, GameWaiteSecured
<1>7. CASE GameStartCrash(s)
  BY <1>7, NothingSecured DEF GameStartCrash, Crash
<1> QED
  BY <1>2, <1>3, <1>4, <1>5, <1>6, <1>7 DEF Lobby

LEMMA TimerSecured ==
    ASSUME CacheTypeOK, Secured, RolesKeptApart, NEW s \in Socket, TimerFunc(s)
    PROVE  Secured'
PROOF
<1>1. s \in cache
  BY DEF TimerFunc, Served
<1>2. CASE UNCHANGED cacheVars
  BY <1>2, NothingSecured DEF cacheVars
<1>3. CASE OwnRoom(s) # NULL /\ LeaveOwnRoom(s)
  BY <1>1, <1>3, LeaveOwnRoomSecured
<1>4. CASE TickEvict(s)
  BY <1>4, EvictSecured
<1> QED
  BY <1>2, <1>3, <1>4 DEF TimerFunc, TickLate

LEMMA NextSecured ==
    ASSUME CacheTypeOK, Secured, RolesKeptApart, [Next]_vars
    PROVE  Secured'
PROOF
<1>1. ASSUME NEW s \in Socket, Connect(s)
      PROVE  Secured'
  BY <1>1, ConnectSecured
<1>2. ASSUME NEW s \in Socket, Reconnect(s)
      PROVE  Secured'
  BY <1>2, NothingSecured DEF Reconnect, cacheVars
<1>3. ASSUME NEW s \in Socket, NEW u \in UserID, SelectRole(s, u)
      PROVE  Secured'
  BY <1>3, SelectRoleSecured
<1>4. ASSUME NEW s \in Socket, Lobby(s)
      PROVE  Secured'
  BY <1>4, LobbySecured
<1>5. ASSUME NEW s \in Socket, Game(s)
      PROVE  Secured'
  BY <1>5, RsyncSecured, GameOverSecured DEF Game, GameOver, Served
<1>6. ASSUME NEW s \in Socket, NEW scene \in Scene, Heartbeat(s, scene)
      PROVE  Secured'
  BY <1>6, NothingSecured DEF Heartbeat, Crash, cacheVars
<1>7. ASSUME NEW s \in Socket, TimerFunc(s)
      PROVE  Secured'
  BY <1>7, TimerSecured
<1>8. CASE UNCHANGED vars
  BY <1>8, NothingSecured DEF vars
<1> QED
  BY <1>1, <1>2, <1>3, <1>4, <1>5, <1>6, <1>7, <1>8 DEF Next

(* The inductive invariant behind the next theorem. *)
THEOREM RoomsSecured ==
    ASSUME RolesKeptApart
    PROVE  Spec => []Secured
PROOF
<1>1. Init => Secured
  <2> SUFFICES ASSUME Init
               PROVE  Secured
    OBVIOUS
  <2>1. cache = {} /\ \A id \in RoomID : ~Exists(id)
    BY DEF Init, CacheInit, Exists
  <2> QED
    BY <2>1 DEF Secured, RealRoles, RolesUnique, PlacesSuffice, EachHasOwn, RoomID
<1>2. TypeOK /\ Secured /\ [Next]_vars => Secured'
  BY NextSecured DEF TypeOK
<1> QED
  BY <1>1, <1>2, TypeCorrect, PTL DEF Spec

(* An entity that says it is in a room is listed there: not only for the   *)
(* clients one expects, but also when ids collide, players join from other *)
(* rooms, numbers are reused, entities are overwritten, and players change *)
(* their role or come back in the role of an evicted one (not both).       *)
THEOREM EntitiesMatchEntries ==
    ASSUME RolesKeptApart
    PROVE  Spec => []EntityHasEntry
PROOF
<1>1. TypeOK /\ Secured => EntityHasEntry
  <2> SUFFICES ASSUME TypeOK, Secured, NEW s \in cache, entity[s].roomid # 0
               PROVE  /\ OwnRoom(s) # NULL
                      /\ \E i \in DOMAIN OwnRoom(s).players : OwnRoom(s).players[i].socket = s
    BY DEF EntityHasEntry
  <2> QED
    BY DEF Secured, EachHasOwn, IsOwn, OwnRoom, Exists, Players
<1> QED
  BY <1>1, TypeCorrect, RoomsSecured, PTL
===============================================================================
