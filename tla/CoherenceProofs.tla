--------------------------- MODULE CoherenceProofs -----------------------------
(***************************************************************************)
(* Rooms and entities say the same things twice, and the handlers keep     *)
(* them in step.  Coherent is what the handlers need of each other for     *)
(* that; there is one lemma for each way in which they change the rooms    *)
(* (a room grows by one entry, shrinks by one, closes, stays) and one for  *)
(* each handler.                                                           *)
(***************************************************************************)
EXTENDS HandlerProofs

(* No room has the id that entities without a room carry. *)
NoRoomZero == rooms[0] = NULL

(* Who is listed has chosen a role. *)
RealRoles ==
    \A id \in RoomID : Exists(id) =>
        \A i \in DOMAIN Players(id) : Players(id)[i].roleid # 0

(* Connected players have different roles. *)
RolesUnique ==
    \A s, x \in cache :
        entity[s].roleid # 0 /\ entity[s].roleid = entity[x].roleid => s = x

(* An entry is of the connected player who has its role, if there is one:  *)
(* in particular nobody has the role of an evicted player who is listed.   *)
RoleIsOwners ==
    \A id \in RoomID : Exists(id) =>
        \A i \in DOMAIN Players(id) : \A x \in cache :
            entity[x].roleid = Players(id)[i].roleid => Players(id)[i].socket = x

Coherent ==
    /\ SeatsExist
    /\ FreeCount
    /\ RoleOnce
    /\ EntryHasEntity
    /\ EntityHasEntry
    /\ CaptainFirst
    /\ NoRoomZero
    /\ RealRoles
    /\ RolesUnique
    /\ RoleIsOwners

IsListed(x) ==
    \E id \in RoomID : Exists(id) /\ \E i \in DOMAIN Players(id) : Players(id)[i].socket = x

(* What is to be shown of a step of a handler: rooms and entities fit      *)
(* again, only connected players got onto a list, and for the registry of  *)
(* parties it was one of its steps or nothing.                             *)
CoherentStep ==
    /\ Coherent'
    /\ \A x \in Socket : IsListed(x)' => IsListed(x) \/ x \in cache
    /\ [Registry!Next]_PartyView

LEMMA PersonCountNat == PersonCount \in Nat \ {0}
BY TeamAssumption DEF PersonCount

LEMMA ExistingPlayers ==
    ASSUME CacheTypeOK, NEW id \in RoomID, Exists(id)
    PROVE  /\ Players(id) \in Seq(Member)
           /\ Len(Players(id)) \in Nat
           /\ DOMAIN Players(id) = 1..Len(Players(id))
           /\ rooms[id].free \in Int
BY ExistingRoom DEF Room, Players

-------------------------------------------------------------------------------
(* The ways the rooms change *)

(* The party of a room is the list of its players' roles. *)
LEMMA PartyOfRoom ==
    ASSUME CacheTypeOK, NEW id \in RoomID
    PROVE  /\ Exists(id) =>
                /\ PartyView[id] \in Seq(RoleID)
                /\ Len(PartyView[id]) = Len(Players(id))
                /\ DOMAIN PartyView[id] = 1..Len(Players(id))
                /\ \A i \in 1..Len(Players(id)) : PartyView[id][i] = Players(id)[i].roleid
           /\ ~Exists(id) => PartyView[id] = <<>>
PROOF
<1>1. CASE ~Exists(id)
  BY <1>1 DEF PartyView
<1>2. CASE Exists(id)
  <2> DEFINE n == Len(Players(id))
             party == [i \in 1..n |-> Players(id)[i].roleid]
  <2>1. /\ n \in Nat /\ DOMAIN Players(id) = 1..n
        /\ \A i \in 1..n : Players(id)[i] \in Member
    BY <1>2, ExistingPlayers
  <2>2. PartyView[id] = party
    BY <1>2, <2>1 DEF PartyView
  <2> HIDE DEF n
  <2>3. party \in [1..n -> RoleID]
    BY <2>1 DEF Member
  <2>4. /\ DOMAIN party = 1..n
        /\ \A i \in 1..n : party[i] = Players(id)[i].roleid
    OBVIOUS
  <2> HIDE DEF party
  <2>5. party \in Seq(RoleID) /\ Len(party) = n
    BY <2>1, <2>3
  <2> QED
    BY <1>2, <2>2, <2>4, <2>5 DEF n
<1> QED
  BY <1>1, <1>2

LEMMA PartyAfterExchange ==
    ASSUME CacheTypeOK, NEW id \in RoomID, NEW room, rooms' = [rooms EXCEPT ![id] = room]
    PROVE  PartyView' = [PartyView EXCEPT ![id] =
              IF room = NULL THEN <<>>
                             ELSE [i \in DOMAIN room.players |-> room.players[i].roleid]]
PROOF
<1>1. rooms'[id] = room /\ \A jd \in RoomID \ {id} : rooms'[jd] = rooms[jd]
  BY DEF CacheTypeOK
<1> DEFINE party == IF room = NULL THEN <<>>
                    ELSE [i \in DOMAIN room.players |-> room.players[i].roleid]
<1>2. PartyView'[id] = party
  BY <1>1 DEF PartyView, Exists, Players
<1>3. \A jd \in RoomID \ {id} : PartyView'[jd] = PartyView[jd]
  BY <1>1 DEF PartyView, Exists, Players
<1> HIDE DEF party
<1>4. /\ PartyView' = [jd \in RoomID |-> PartyView'[jd]]
      /\ PartyView = [jd \in RoomID |-> PartyView[jd]]
  BY DEF PartyView
<1>5. PartyView' = [PartyView EXCEPT ![id] = party]
  BY <1>2, <1>3, <1>4
<1> QED
  BY <1>5 DEF party

LEMMA EntriesSit ==
    ASSUME SeatsExist
    PROVE  \A id \in RoomID : Exists(id) =>
              \A i \in DOMAIN Players(id) : Players(id)[i].seat \in Seat
BY DEF SeatsExist, SeatsOf, Players

(* The rooms stay, and of the entities only what no entry repeats changes. *)
LEMMA CoherentSame ==
    ASSUME CacheTypeOK, Coherent, UNCHANGED <<cache, rooms>>,
           \A x \in Socket :
              /\ entity'[x].roleid = entity[x].roleid
              /\ entity'[x].roomid = entity[x].roomid
              /\ entity'[x].seat = entity[x].seat
              /\ entity'[x].isroomctl = entity[x].isroomctl
    PROVE  CoherentStep
PROOF
<1> USE DEF Exists, Players
<1>0. cache \subseteq Socket
  BY DEF CacheTypeOK
<1>1. SeatsExist' /\ FreeCount'
  BY DEF SeatsExist, FreeCount, Coherent
<1>2. RoleOnce'
  BY DEF RoleOnce, Coherent
<1>3. EntryHasEntity'
  BY <1>0 DEF EntryHasEntity, Coherent
<1>4. EntityHasEntry'
  BY <1>0 DEF EntityHasEntry, Coherent, OwnRoom
<1>5. CaptainFirst'
  BY <1>0 DEF CaptainFirst, Coherent
<1>6. NoRoomZero' /\ RealRoles'
  BY DEF NoRoomZero, RealRoles, Coherent
<1>7. RolesUnique'
  BY <1>0 DEF RolesUnique, Coherent
<1>8. RoleIsOwners'
  BY <1>0 DEF RoleIsOwners, Coherent
<1>9. Coherent'
  BY <1>1, <1>2, <1>3, <1>4, <1>5, <1>6, <1>7, <1>8 DEF Coherent
<1>10. UNCHANGED PartyView /\ \A x \in Socket : IsListed(x)' = IsListed(x)
  BY DEF PartyView, IsListed
<1> QED
  BY <1>9, <1>10 DEF CoherentStep

(* A connected player without a room is listed nowhere. *)
LEMMA Unlisted ==
    ASSUME CacheTypeOK, Coherent, NEW s \in cache, entity[s].roomid = 0
    PROVE  \A id \in RoomID : Exists(id) =>
              \A i \in DOMAIN Players(id) :
                 /\ Players(id)[i].socket # s
                 /\ Players(id)[i].roleid # entity[s].roleid
BY DEF Coherent, EntryHasEntity, RoleIsOwners, NoRoomZero, Exists

(* A room that lists a connected player's role lists it once, with its     *)
(* socket, and is the room the entity names.                               *)
LEMMA OwnEntry ==
    ASSUME CacheTypeOK, Coherent, NEW s \in cache, NEW id \in RoomID, Exists(id),
           Listed(Players(id), entity[s].roleid)
    PROVE  /\ entity[s].roomid = id
           /\ \E i \in DOMAIN Players(id) :
                 /\ Players(id)[i].socket = s
                 /\ Others(Players(id), entity[s].roleid) = DOMAIN Players(id) \ {i}
PROOF
<1>1. PICK i \in DOMAIN Players(id) : Players(id)[i].roleid = entity[s].roleid
  BY DEF Listed
<1>2. Players(id)[i].socket = s
  BY <1>1 DEF Coherent, RoleIsOwners
<1>3. entity[s].roomid = id
  BY <1>2 DEF Coherent, EntryHasEntity
<1>4. \A j \in DOMAIN Players(id) : Players(id)[j].roleid = entity[s].roleid => j = i
  BY <1>1 DEF Coherent, RoleOnce
<1>5. Others(Players(id), entity[s].roleid) = DOMAIN Players(id) \ {i}
  BY <1>1, <1>4 DEF Others
<1> QED
  BY <1>2, <1>3, <1>5

(* Whose own room is there is listed in it. *)
LEMMA OwnRoomLists ==
    ASSUME CacheTypeOK, Coherent, NEW s \in cache, OwnRoom(s) # NULL
    PROVE  /\ entity[s].roomid \in RoomID /\ Exists(entity[s].roomid)
           /\ OwnRoom(s).players = Players(entity[s].roomid)
           /\ Listed(Players(entity[s].roomid), entity[s].roleid)
PROOF
<1>1. entity[s].roomid \in RoomID /\ Exists(entity[s].roomid)
  BY DEF CacheTypeOK, Entity, Exists, OwnRoom
<1>2. entity[s].roomid # 0
  BY DEF Coherent, NoRoomZero, OwnRoom
<1>3. PICK i \in DOMAIN OwnRoom(s).players : OwnRoom(s).players[i].socket = s
  BY <1>2 DEF Coherent, EntityHasEntry
<1>4. OwnRoom(s).players = Players(entity[s].roomid)
  BY DEF OwnRoom, Players
<1>5. Players(entity[s].roomid)[i].roleid = entity[s].roleid
  BY <1>1, <1>3, <1>4 DEF Coherent, EntryHasEntity
<1> QED
  BY <1>1, <1>3, <1>4, <1>5 DEF Listed

(* A room gets one entry more, at its end or as the first of a new room:   *)
(* the entry m of a player s who is in no room.  old is the list before.   *)
Grows(s, id, old, room, m) ==
    /\ entity[s].roomid = 0 /\ entity[s].roleid # 0
    /\ id # 0
    /\ Exists(id) => old = Players(id)
    /\ ~Exists(id) => old = <<>>
    /\ Len(old) < PersonCount
    /\ room.free = PersonCount - (Len(old) + 1)
    /\ room.players = Append(old, m)
    /\ m.socket = s /\ m.roleid = entity[s].roleid /\ m.seat \in Seat
    /\ m.isroomctl <=> old = <<>>
    /\ rooms' = [rooms EXCEPT ![id] = room]
    /\ cache' = cache
    /\ \A x \in Socket \ {s} : entity'[x] = entity[x]
    /\ entity'[s].roleid = m.roleid
    /\ entity'[s].roomid = id
    /\ entity'[s].seat = m.seat
    /\ m.isroomctl => entity'[s].isroomctl

LEMMA CoherentGrow ==
    ASSUME CacheTypeOK, Coherent, NEW s \in cache, NEW id \in RoomID,
           NEW old \in Seq(Member), NEW room \in Room, NEW m \in Member,
           Grows(s, id, old, room, m)
    PROVE  CoherentStep
PROOF
<1> USE DEF Grows
<1> DEFINE n == Len(old)
<1>1. cache \subseteq Socket /\ rooms \in [RoomID -> Room \cup {NULL}] /\ NULL \notin Room
  BY RoomAssumption DEF CacheTypeOK
<1>2. /\ n \in Nat
      /\ DOMAIN room.players = 1..n + 1
      /\ room.players[n + 1] = m
      /\ \A i \in 1..n : room.players[i] = old[i]
      /\ Len(room.players) = n + 1
  OBVIOUS
<1>3. \A i \in 1..n : Exists(id) /\ i \in DOMAIN Players(id) /\ old[i] = Players(id)[i]
  OBVIOUS
<1>4. /\ rooms'[id] = room /\ Exists(id)' /\ Players(id)' = room.players
      /\ \A jd \in RoomID \ {id} : /\ rooms'[jd] = rooms[jd]
                                   /\ Exists(jd)' <=> Exists(jd)
                                   /\ Players(jd)' = Players(jd)
  BY <1>1 DEF Exists, Players
<1> HIDE DEF n
(* Every entry is an old one or the new one. *)
<1>5. \A jd \in RoomID : Exists(jd)' =>
        \A i \in DOMAIN Players(jd)' :
           \/ /\ Exists(jd) /\ i \in DOMAIN Players(jd)
              /\ Players(jd)'[i] = Players(jd)[i]
           \/ jd = id /\ i = n + 1 /\ Players(jd)'[i] = m
  BY <1>2, <1>3, <1>4
<1>6. \A jd \in RoomID : Exists(jd) =>
        \A i \in DOMAIN Players(jd) :
           Players(jd)[i].socket # s /\ Players(jd)[i].roleid # entity[s].roleid
  BY Unlisted
<1>a. SeatsExist'
  <2>1. \A jd \in RoomID : Exists(jd) => \A i \in DOMAIN Players(jd) : Players(jd)[i].seat \in Seat
    BY EntriesSit DEF Coherent
  <2>2. \A jd \in RoomID : Exists(jd)' =>
           \A i \in DOMAIN Players(jd)' : Players(jd)'[i].seat \in Seat
    BY <1>5, <2>1
  <2> QED
    BY <2>2 DEF SeatsExist, SeatsOf, Players
<1>7. FreeCount'
  <2>1. rooms'[id].free = PersonCount - Len(Players(id)') /\ Players(id)' # <<>>
    BY <1>2, <1>4 DEF n
  <2> QED
    BY <1>4, <2>1 DEF FreeCount, Coherent
<1>8. RoleOnce'
  BY <1>5, <1>6 DEF RoleOnce, Coherent
<1>9. EntryHasEntity'
  BY <1>1, <1>5, <1>6 DEF EntryHasEntity, Coherent
<1>10. EntityHasEntry'
  <2> SUFFICES ASSUME NEW x \in cache, entity'[x].roomid # 0
               PROVE  /\ OwnRoom(x)' # NULL
                      /\ \E i \in DOMAIN OwnRoom(x)'.players :
                            OwnRoom(x)'.players[i].socket = x
    BY DEF EntityHasEntry
  <2>1. CASE x = s
    BY <1>1, <1>2, <1>4, <2>1 DEF OwnRoom
  <2>2. CASE x # s
    <3>1. entity'[x] = entity[x] /\ entity[x].roomid \in RoomID
      BY <1>1, <2>2 DEF CacheTypeOK, Entity
    <3>2. PICK i \in DOMAIN OwnRoom(x).players : OwnRoom(x).players[i].socket = x
      BY <3>1 DEF Coherent, EntityHasEntry
    <3>3. rooms[entity[x].roomid] # NULL
      BY <3>1 DEF Coherent, EntityHasEntry, OwnRoom
    <3>4. CASE entity[x].roomid = id
      <4>1. Exists(id) /\ i \in 1..n /\ old[i].socket = x
        BY <3>2, <3>3, <3>4 DEF Exists, OwnRoom, Players, n
      <4>2. i \in DOMAIN room.players /\ room.players[i].socket = x
        BY <1>2, <4>1
      <4>3. OwnRoom(x)' = room
        BY <1>4, <3>1, <3>4 DEF OwnRoom
      <4> QED
        BY <1>1, <4>2, <4>3
    <3>5. CASE entity[x].roomid # id
      <4>1. OwnRoom(x)' = OwnRoom(x)
        BY <1>4, <3>1, <3>5 DEF OwnRoom
      <4> QED
        BY <3>2, <3>3, <4>1 DEF OwnRoom
    <3> QED
      BY <3>4, <3>5
  <2> QED
    BY <2>1, <2>2
<1>11. CaptainFirst'
  <2>1. m.isroomctl <=> n + 1 = 1
    BY <1>2 DEF n
  <2>2. \A jd \in RoomID : Exists(jd) =>
          \A i \in DOMAIN Players(jd) :
             /\ Players(jd)[i].isroomctl <=> i = 1
             /\ Players(jd)[i].isroomctl /\ Players(jd)[i].socket \in cache
                  => entity'[Players(jd)[i].socket].isroomctl
    BY <1>1, <1>6 DEF CaptainFirst, Coherent
  <2> QED
    BY <1>5, <2>1, <2>2 DEF CaptainFirst
<1>12. NoRoomZero'
  BY <1>4 DEF NoRoomZero, Coherent, RoomID
<1>13. RealRoles'
  BY <1>5 DEF RealRoles, Coherent
<1>14. \A x \in cache : entity'[x].roleid = entity[x].roleid
  BY <1>1
<1>15. RolesUnique'
  BY <1>14 DEF RolesUnique, Coherent
<1>16. RoleIsOwners'
  BY <1>5, <1>14 DEF RoleIsOwners, RolesUnique, Coherent
<1>17. Coherent'
  BY <1>a, <1>7, <1>8, <1>9, <1>10, <1>11, <1>12, <1>13, <1>15, <1>16 DEF Coherent
<1>18. \A x \in Socket : IsListed(x)' => IsListed(x) \/ x \in cache
  BY <1>5 DEF IsListed
<1>19. Registry!Next
  <2> DEFINE u == entity[s].roleid
  <2>1. u \in UserID
    BY <1>1 DEF CacheTypeOK, Entity, RoleID
  <2>2. ~Registry!Somewhere(u)
    <3> SUFFICES ASSUME NEW jd \in RoomID, NEW i \in DOMAIN PartyView[jd], PartyView[jd][i] = u
                 PROVE  FALSE
      BY DEF Registry!Somewhere
    <3>1. Exists(jd)
      BY PartyOfRoom
    <3> HIDE DEF u
    <3>2. /\ DOMAIN PartyView[jd] = 1..Len(Players(jd))
          /\ PartyView[jd][i] = Players(jd)[i].roleid
      <4>1. /\ DOMAIN PartyView[jd] = 1..Len(Players(jd))
            /\ \A k \in 1..Len(Players(jd)) : PartyView[jd][k] = Players(jd)[k].roleid
        BY ONLY CacheTypeOK, jd \in RoomID, <3>1, PartyOfRoom
      <4> QED
        BY <4>1
    <3>3. DOMAIN Players(jd) = 1..Len(Players(jd))
      BY <3>1, ExistingPlayers
    <3> QED
      BY <1>6, <3>1, <3>2, <3>3 DEF u
  <2>3. /\ PartyView[id] \in Seq(RoleID) /\ Len(PartyView[id]) = n
        /\ \A i \in 1..n : PartyView[id][i] = old[i].roleid
        /\ PartyView[id] = <<>> <=> ~Exists(id)
    <3>1. CASE Exists(id)
      <4>1. n # 0
        BY <3>1 DEF n, Coherent, FreeCount
      <4> QED
        BY <1>2, <3>1, <4>1, PartyOfRoom DEF n
    <3>2. CASE ~Exists(id)
      <4>1. PartyView[id] = <<>> /\ old = <<>>
        BY <3>2, PartyOfRoom
      <4>2. n = 0 /\ <<>> \in Seq(RoleID) /\ Len(<<>>) = 0
        BY <4>1 DEF n
      <4> QED
        BY <3>2, <4>1, <4>2
    <3> QED
      BY <3>1, <3>2
  <2>4. PartyView' = [PartyView EXCEPT ![id] =
                        [i \in 1..(n + 1) |-> room.players[i].roleid]]
    <3>1. room # NULL /\ DOMAIN room.players = 1..(n + 1)
      BY <1>1, <1>2
    <3>2. PartyView' = [PartyView EXCEPT ![id] =
             IF room = NULL THEN <<>>
                            ELSE [i \in DOMAIN room.players |-> room.players[i].roleid]]
      BY PartyAfterExchange
    <3> QED
      BY <3>1, <3>2
  <2>5. [i \in 1..(n + 1) |-> room.players[i].roleid] = Append(PartyView[id], u)
    BY <1>2, <2>1, <2>3 DEF RoleID
  <2>6. CASE Exists(id)
    <3>1. Registry!Enter(u, id)
      BY <2>2, <2>3, <2>4, <2>5, <2>6 DEF Registry!Enter, n
    <3> QED
      BY <2>1, <3>1 DEF Registry!Next
  <2>7. CASE ~Exists(id)
    <3>a. Append(<<>>, u) = <<u>>
      OBVIOUS
    <3>1. PartyView[id] = <<>> /\ Append(PartyView[id], u) = <<u>>
      BY <2>3, <2>7, <3>a
    <3>2. Registry!Open(u, id)
      BY <2>2, <2>4, <2>5, <3>1 DEF Registry!Open
    <3> QED
      BY <2>1, <3>2 DEF Registry!Next
  <2> QED
    BY <2>6, <2>7
<1> QED
  BY <1>17, <1>18, <1>19 DEF CoherentStep

(* What Departed does to each field. *)
LEMMA DepartedFields ==
    ASSUME CacheTypeOK, NEW s \in Socket, NEW heirs
    PROVE  /\ \A x \in Socket : /\ Departed(s, heirs)[x].roleid = entity[x].roleid
                                /\ Departed(s, heirs)[x].seat = entity[x].seat
                                /\ Departed(s, heirs)[x].gamewaite = entity[x].gamewaite
                                /\ entity[x].isroomctl => Departed(s, heirs)[x].isroomctl
           /\ \A x \in Socket \ {s} : Departed(s, heirs)[x].roomid = entity[x].roomid
           /\ Departed(s, heirs)[s].roomid = 0
           /\ \A x \in heirs \cap cache : Departed(s, heirs)[x].isroomctl
PROOF
<1> DEFINE marked(x) == IF x \in heirs \cap cache
                          THEN [entity[x] EXCEPT !.isroomctl = TRUE] ELSE entity[x]
<1>1. cache \subseteq Socket /\ \A x \in Socket : entity[x] \in Entity
  BY DEF CacheTypeOK
<1>2. \A x \in Socket : /\ marked(x) \in Entity
                        /\ marked(x).roleid = entity[x].roleid
                        /\ marked(x).roomid = entity[x].roomid
                        /\ marked(x).seat = entity[x].seat
                        /\ marked(x).gamewaite = entity[x].gamewaite
                        /\ marked(x).isroomctl = (x \in heirs \cap cache \/ entity[x].isroomctl)
  BY <1>1 DEF Entity
<1>3. \A x \in Socket : Departed(s, heirs)[x] =
        IF x = s THEN [marked(x) EXCEPT !.roomid = 0] ELSE marked(x)
  BY DEF Departed
<1> HIDE DEF marked
<1>4. \A x \in Socket :
        /\ Departed(s, heirs)[x].roleid = marked(x).roleid
        /\ Departed(s, heirs)[x].seat = marked(x).seat
        /\ Departed(s, heirs)[x].gamewaite = marked(x).gamewaite
        /\ Departed(s, heirs)[x].isroomctl = marked(x).isroomctl
        /\ x # s => Departed(s, heirs)[x].roomid = marked(x).roomid
        /\ x = s => Departed(s, heirs)[x].roomid = 0
  <2> SUFFICES ASSUME NEW x \in Socket
               PROVE  /\ Departed(s, heirs)[x].roleid = marked(x).roleid
                      /\ Departed(s, heirs)[x].seat = marked(x).seat
                      /\ Departed(s, heirs)[x].gamewaite = marked(x).gamewaite
                      /\ Departed(s, heirs)[x].isroomctl = marked(x).isroomctl
                      /\ x # s => Departed(s, heirs)[x].roomid = marked(x).roomid
                      /\ x = s => Departed(s, heirs)[x].roomid = 0
    OBVIOUS
  <2>1. CASE x = s
    <3>1. marked(x) \in Entity
      BY <1>2
    <3>2. Departed(s, heirs)[x] = [marked(x) EXCEPT !.roomid = 0]
      BY <1>3, <2>1
    <3> DEFINE e == marked(x)
               f == [e EXCEPT !.roomid = 0]
    <3>3. /\ f.roleid = e.roleid /\ f.seat = e.seat /\ f.gamewaite = e.gamewaite
          /\ f.isroomctl = e.isroomctl /\ f.roomid = 0
      BY ONLY <3>1 DEF Entity
    <3> QED
      BY <2>1, <3>2, <3>3
  <2>2. CASE x # s
    BY <1>3, <2>2
  <2> QED
    BY <2>1, <2>2
<1>5. /\ \A x \in Socket \ {s} : Departed(s, heirs)[x].roomid = entity[x].roomid
      /\ Departed(s, heirs)[s].roomid = 0
  BY <1>2, <1>4
<1>6. ASSUME NEW x \in heirs \cap cache
      PROVE  Departed(s, heirs)[x].isroomctl
  <2>1. x \in Socket
    BY <1>1
  <2>2. marked(x).isroomctl
    BY <1>2, <2>1
  <2> QED
    BY <1>4, <2>1, <2>2
<1>7. ASSUME NEW x \in Socket
      PROVE  /\ Departed(s, heirs)[x].roleid = entity[x].roleid
             /\ Departed(s, heirs)[x].seat = entity[x].seat
             /\ Departed(s, heirs)[x].gamewaite = entity[x].gamewaite
             /\ entity[x].isroomctl => Departed(s, heirs)[x].isroomctl
  BY <1>2, <1>4
<1> QED
  BY <1>5, <1>6, <1>7

(* copy is the list of n players without its entry own, the heirs marked.  *)
CopiesAllBut(own, players, n, heirs, copy) ==
    /\ DOMAIN copy = 1..(n - 1)
    /\ Len(copy) = n - 1
    /\ \A k \in 1..(n - 1) :
          /\ copy[k].seat = players[Skip(own, k)].seat
          /\ copy[k].roleid = players[Skip(own, k)].roleid
          /\ copy[k].socket = players[Skip(own, k)].socket
          /\ copy[k].isroomctl
                <=> (Skip(own, k) \in heirs \/ players[Skip(own, k)].isroomctl)

(* A room loses the entry of one connected player s, the one at own, and   *)
(* s is out of it from then on; the others keep their order.  If s was the *)
(* first, the one behind is marked captain, in the entry and the entity.   *)
Shrinks(s, id, n, own, room, heirs) ==
    /\ Exists(id) /\ n = Len(Players(id)) /\ n # 1
    /\ Players(id)[own].socket = s
    /\ heirs \in SUBSET {Skip(own, 1)}
    /\ own = 1 => heirs = {Skip(own, 1)}
    /\ room.free = rooms[id].free + 1
    /\ CopiesAllBut(own, Players(id), n, heirs, room.players)
    /\ rooms' = [rooms EXCEPT ![id] = room]
    /\ cache' = cache
    /\ entity' = Departed(s, SocketsAt(Players(id), heirs))

LEMMA CoherentShrink ==
    ASSUME CacheTypeOK, Coherent, NEW s \in cache, NEW id \in RoomID,
           NEW n \in Nat, NEW own \in 1..n, NEW room \in Room, NEW heirs,
           Shrinks(s, id, n, own, room, heirs)
    PROVE  CoherentStep
PROOF
<1> USE DEF Shrinks, CopiesAllBut
<1> DEFINE old(jd, i) == IF jd = id THEN Skip(own, i) ELSE i
<1>1. cache \subseteq Socket /\ rooms \in [RoomID -> Room \cup {NULL}] /\ NULL \notin Room
  BY RoomAssumption DEF CacheTypeOK
<1>2. DOMAIN Players(id) = 1..n /\ rooms[id].free \in Int /\ PersonCount \in Nat
  BY ExistingPlayers, PersonCountNat
<1>3. n - 1 \in Nat \ {0}
  OBVIOUS
<1>4. /\ rooms'[id] = room /\ Exists(id)' /\ Players(id)' = room.players
      /\ \A jd \in RoomID \ {id} : /\ rooms'[jd] = rooms[jd]
                                   /\ Exists(jd)' <=> Exists(jd)
                                   /\ Players(jd)' = Players(jd)
  BY <1>1 DEF Exists, Players
<1>5. /\ \A k \in 1..(n - 1) : Skip(own, k) \in 1..n /\ Skip(own, k) # own
      /\ \A k, j \in 1..(n - 1) : Skip(own, k) = Skip(own, j) => k = j
      /\ \A i \in 1..n : i # own => \E k \in 1..(n - 1) : Skip(own, k) = i
      /\ \A k \in 1..(n - 1) : own # 1 => (Skip(own, k) = 1 <=> k = 1)
      /\ \A k \in 1..(n - 1) : own = 1 => Skip(own, k) = k + 1
  BY ONLY n \in Nat, own \in 1..n, SkipSound
(* Every entry is an old one, and not the one of s. *)
<1>6. \A jd \in RoomID : Exists(jd)' =>
        /\ Exists(jd)
        /\ \A i \in DOMAIN Players(jd)' :
              /\ old(jd, i) \in DOMAIN Players(jd)
              /\ jd = id => old(jd, i) # own
              /\ Players(jd)'[i].seat = Players(jd)[old(jd, i)].seat
              /\ Players(jd)'[i].roleid = Players(jd)[old(jd, i)].roleid
              /\ Players(jd)'[i].socket = Players(jd)[old(jd, i)].socket
              /\ Players(jd)'[i].isroomctl
                    <=> ((jd = id /\ old(jd, i) \in heirs) \/ Players(jd)[old(jd, i)].isroomctl)
  <2> SUFFICES ASSUME NEW jd \in RoomID, Exists(jd)', NEW i \in DOMAIN Players(jd)'
               PROVE  /\ Exists(jd)
                      /\ old(jd, i) \in DOMAIN Players(jd)
                      /\ jd = id => old(jd, i) # own
                      /\ Players(jd)'[i].seat = Players(jd)[old(jd, i)].seat
                      /\ Players(jd)'[i].roleid = Players(jd)[old(jd, i)].roleid
                      /\ Players(jd)'[i].socket = Players(jd)[old(jd, i)].socket
                      /\ Players(jd)'[i].isroomctl
                            <=> (\/ jd = id /\ old(jd, i) \in heirs
                                 \/ Players(jd)[old(jd, i)].isroomctl)
    BY <1>4
  <2>1. CASE jd = id
    <3>1. Players(jd)' = room.players /\ i \in 1..(n - 1) /\ old(jd, i) = Skip(own, i)
      BY <1>4, <2>1
    <3> QED
      BY <1>2, <1>5, <2>1, <3>1
  <2>2. CASE jd # id
    <3>1. Players(jd)' = Players(jd) /\ Exists(jd) /\ old(jd, i) = i
      BY <1>4, <2>2
    <3> QED
      BY <2>2, <3>1
  <2> QED
    BY <2>1, <2>2
<1>7. \A jd \in RoomID : Exists(jd)' =>
        \A i, j \in DOMAIN Players(jd)' : old(jd, i) = old(jd, j) => i = j
  <2>1. \A i, j \in DOMAIN Players(id)' : Skip(own, i) = Skip(own, j) => i = j
    BY <1>4, <1>5
  <2> QED
    BY <2>1
<1> HIDE DEF old
(* None of the entries that are left has the socket of s. *)
<1>8. \A jd \in RoomID : Exists(jd)' =>
        \A i \in DOMAIN Players(jd)' : Players(jd)'[i].socket # s
  BY <1>6 DEF RoleOnce, Coherent
<1>9. /\ \A x \in Socket : /\ entity'[x].roleid = entity[x].roleid
                           /\ entity'[x].seat = entity[x].seat
                           /\ entity[x].isroomctl => entity'[x].isroomctl
      /\ \A x \in Socket \ {s} : entity'[x].roomid = entity[x].roomid
      /\ entity'[s].roomid = 0
      /\ \A x \in SocketsAt(Players(id), heirs) \cap cache :
            x # s => entity'[x].isroomctl
  BY <1>1, DepartedFields
<1>a. SeatsExist'
  <2>1. \A jd \in RoomID : Exists(jd) => \A i \in DOMAIN Players(jd) : Players(jd)[i].seat \in Seat
    BY EntriesSit DEF Coherent
  <2>2. \A jd \in RoomID : Exists(jd)' =>
           \A i \in DOMAIN Players(jd)' : Players(jd)'[i].seat \in Seat
    BY <1>6, <2>1
  <2> QED
    BY <2>2 DEF SeatsExist, SeatsOf, Players
<1>10. FreeCount'
  <2>1. rooms[id].free = PersonCount - n
    BY DEF FreeCount, Coherent
  <2>2. Len(room.players) = n - 1 /\ room.players # <<>>
    BY <1>3
  <2>3. room.free = PersonCount - Len(room.players)
    BY <1>2, <2>1, <2>2
  <2> QED
    BY <1>4, <2>2, <2>3 DEF FreeCount, Coherent
<1>11. RoleOnce'
  BY <1>6, <1>7 DEF RoleOnce, Coherent
<1>12. EntryHasEntity'
  BY <1>1, <1>6, <1>8, <1>9 DEF EntryHasEntity, Coherent
<1>13. EntityHasEntry'
  <2> SUFFICES ASSUME NEW x \in cache, entity'[x].roomid # 0
               PROVE  /\ OwnRoom(x)' # NULL
                      /\ \E i \in DOMAIN OwnRoom(x)'.players :
                            OwnRoom(x)'.players[i].socket = x
    BY DEF EntityHasEntry
  <2>1. x # s /\ entity'[x].roomid = entity[x].roomid /\ entity[x].roomid \in RoomID
    BY <1>1, <1>9 DEF CacheTypeOK, Entity
  <2>2. PICK i \in DOMAIN OwnRoom(x).players : OwnRoom(x).players[i].socket = x
    BY <2>1 DEF Coherent, EntityHasEntry
  <2>3. rooms[entity[x].roomid] # NULL
    BY <2>1 DEF Coherent, EntityHasEntry, OwnRoom
  <2>4. CASE entity[x].roomid = id
    <3>1. i \in 1..n /\ Players(id)[i].socket = x /\ i # own
      BY <1>2, <2>1, <2>2, <2>4 DEF OwnRoom, Players
    <3>2. PICK k \in 1..(n - 1) : Skip(own, k) = i
      BY <1>5, <3>1
    <3>3. k \in DOMAIN room.players /\ room.players[k].socket = x
      BY <3>1, <3>2
    <3>4. OwnRoom(x)' = room
      BY <1>4, <2>1, <2>4 DEF OwnRoom
    <3> QED
      BY <1>1, <3>3, <3>4
  <2>5. CASE entity[x].roomid # id
    <3>1. OwnRoom(x)' = OwnRoom(x)
      BY <1>4, <2>1, <2>5 DEF OwnRoom
    <3>2. (OwnRoom(x) # NULL)' /\ i \in (DOMAIN OwnRoom(x).players)'
          /\ (OwnRoom(x).players[i].socket = x)'
      BY <2>2, <2>3, <3>1 DEF OwnRoom
    <3> QED
      BY <3>2 DEF OwnRoom
  <2> QED
    BY <2>4, <2>5
<1>14. CaptainFirst'
  <2>1. \A k \in 1..(n - 1) : (Skip(own, k) \in heirs \/ Skip(own, k) = 1) <=> k = 1
    <3>1. CASE own = 1
      <4>1. \A k \in 1..(n - 1) : Skip(own, k) = k + 1
        BY ONLY <1>5, <3>1
      <4>2. heirs = {Skip(own, 1)} /\ Skip(own, 1) = 2
        BY <3>1 DEF Skip
      <4> QED
        BY <4>1, <4>2
    <3>2. CASE own # 1
      <4>1. heirs \subseteq {1} /\ \A k \in 1..(n - 1) : Skip(own, k) = 1 <=> k = 1
        BY <1>3, <1>5, <3>2
      <4> QED
        BY <4>1
    <3> QED
      BY <3>1, <3>2
  <2>2. \A jd \in RoomID : Exists(jd) =>
          \A i \in DOMAIN Players(jd) :
             /\ Players(jd)[i].isroomctl <=> i = 1
             /\ Players(jd)[i].isroomctl /\ Players(jd)[i].socket \in cache
                  => entity'[Players(jd)[i].socket].isroomctl
    BY <1>1, <1>9 DEF CaptainFirst, Coherent
  <2>3. ASSUME NEW jd \in RoomID, Exists(jd)', NEW i \in DOMAIN Players(jd)'
        PROVE  Players(jd)'[i].isroomctl <=> i = 1
    <3>1. CASE jd = id
      <4>1. i \in 1..(n - 1) /\ old(jd, i) = Skip(own, i)
        BY <1>4, <2>3, <3>1 DEF old
      <4>2. /\ old(jd, i) \in DOMAIN Players(jd)
            /\ Players(jd)'[i].isroomctl
                  <=> (Skip(own, i) \in heirs \/ Players(jd)[Skip(own, i)].isroomctl)
        BY <1>6, <2>3, <3>1, <4>1
      <4> QED
        BY <2>1, <2>2, <3>1, <4>1, <4>2
    <3>2. CASE jd # id
      BY <1>6, <2>2, <2>3, <3>2 DEF old
    <3> QED
      BY <3>1, <3>2
  <2>4. ASSUME NEW jd \in RoomID, Exists(jd)', NEW i \in DOMAIN Players(jd)',
               Players(jd)'[i].isroomctl, Players(jd)'[i].socket \in cache
        PROVE  entity'[Players(jd)'[i].socket].isroomctl
    <3>1. CASE jd = id /\ old(jd, i) \in heirs
      <4>1. Players(jd)'[i].socket \in SocketsAt(Players(id), heirs)
        BY <1>6, <2>4, <3>1 DEF SocketsAt
      <4> QED
        BY <1>8, <1>9, <2>4, <4>1
    <3>2. CASE ~(jd = id /\ old(jd, i) \in heirs)
      BY <1>6, <2>2, <2>4, <3>2
    <3> QED
      BY <3>1, <3>2
  <2> QED
    BY <2>3, <2>4 DEF CaptainFirst
<1>15. NoRoomZero'
  <2>1. id # 0
    BY DEF NoRoomZero, Coherent, Exists
  <2> QED
    BY <1>4, <2>1 DEF NoRoomZero, Coherent, RoomID
<1>16. RealRoles'
  BY <1>6 DEF RealRoles, Coherent
<1>17. RolesUnique'
  BY <1>1, <1>9 DEF RolesUnique, Coherent
<1>18. RoleIsOwners'
  BY <1>1, <1>6, <1>9 DEF RoleIsOwners, Coherent
<1>19. Coherent'
  BY <1>a, <1>10, <1>11, <1>12, <1>13, <1>14, <1>15, <1>16, <1>17, <1>18 DEF Coherent
<1>20. \A x \in Socket : IsListed(x)' => IsListed(x)
  BY <1>6 DEF IsListed
<1>21. Registry!Next
  <2>1. /\ PartyView[id] \in Seq(RoleID) /\ Len(PartyView[id]) = n
        /\ DOMAIN PartyView[id] = 1..n
        /\ \A i \in 1..n : PartyView[id][i] = Players(id)[i].roleid
    BY PartyOfRoom
  <2>2. PartyView' = [PartyView EXCEPT ![id] =
                        [i \in 1..(n - 1) |-> room.players[i].roleid]]
    <3>1. room # NULL /\ DOMAIN room.players = 1..(n - 1)
      BY <1>1
    <3>2. PartyView' = [PartyView EXCEPT ![id] =
             IF room = NULL THEN <<>>
                            ELSE [i \in DOMAIN room.players |-> room.players[i].roleid]]
      BY PartyAfterExchange
    <3> QED
      BY <3>1, <3>2
  <2>3. \A k \in 1..(n - 1) : room.players[k].roleid =
           IF k < own THEN PartyView[id][k] ELSE PartyView[id][k + 1]
    BY <1>5, <2>1 DEF Skip
  <2>4. [i \in 1..(n - 1) |-> room.players[i].roleid] = Registry!WithoutIndex(PartyView[id], own)
    BY <2>1, <2>3 DEF Registry!WithoutIndex
  <2>5. Registry!Exit(id)
    BY <2>1, <2>2, <2>4 DEF Registry!Exit
  <2> QED
    BY <2>5 DEF Registry!Next
<1> QED
  BY <1>19, <1>20, <1>21 DEF CoherentStep

(* A room closes, and of all entities those of its players are out of it.  *)
LEMMA CoherentClose ==
    ASSUME CacheTypeOK, Coherent, NEW id \in RoomID, Exists(id),
           rooms' = WithoutRoom(id), cache' = cache,
           \A x \in Socket : /\ entity'[x].roleid = entity[x].roleid
                             /\ entity'[x].seat = entity[x].seat
                             /\ entity'[x].isroomctl = entity[x].isroomctl,
           \A x \in Socket : entity'[x].roomid =
              IF x \in SocketsAt(Players(id), DOMAIN Players(id)) THEN 0 ELSE entity[x].roomid
    PROVE  CoherentStep
PROOF
<1> DEFINE listed == SocketsAt(Players(id), DOMAIN Players(id))
<1>1. cache \subseteq Socket /\ rooms \in [RoomID -> Room \cup {NULL}] /\ NULL \notin Room
  BY RoomAssumption DEF CacheTypeOK
<1>2. /\ rooms'[id] = NULL
      /\ \A jd \in RoomID \ {id} : rooms'[jd] = rooms[jd]
  BY <1>1 DEF WithoutRoom
<1>3. \A jd \in RoomID : Exists(jd)' =>
         jd # id /\ Exists(jd) /\ Players(jd)' = Players(jd)
  BY <1>2 DEF Exists, Players
<1>4. \A x \in Socket : x \in listed <=> \E i \in DOMAIN Players(id) : Players(id)[i].socket = x
  BY DEF SocketsAt
<1>5. \A x \in Socket : entity'[x].roomid = IF x \in listed THEN 0 ELSE entity[x].roomid
  OBVIOUS
<1> HIDE DEF listed
<1>6. \A jd \in RoomID : Exists(jd)' =>
         \A i \in DOMAIN Players(jd)' :
            Players(jd)[i].socket \in Socket => Players(jd)[i].socket \notin listed
  BY <1>3, <1>4 DEF RoleOnce, Coherent
<1>7. FreeCount' /\ SeatsExist'
  BY <1>2, <1>3 DEF FreeCount, SeatsExist, Exists, Coherent
<1>8. RoleOnce'
  BY <1>3 DEF RoleOnce, Coherent
<1>9. EntryHasEntity'
  BY <1>1, <1>3, <1>5, <1>6 DEF EntryHasEntity, Coherent
<1>10. EntityHasEntry'
  <2> SUFFICES ASSUME NEW x \in cache, entity'[x].roomid # 0
               PROVE  /\ OwnRoom(x)' # NULL
                      /\ \E i \in DOMAIN OwnRoom(x)'.players :
                            OwnRoom(x)'.players[i].socket = x
    BY DEF EntityHasEntry
  <2>1. /\ x \notin listed /\ entity'[x].roomid = entity[x].roomid
        /\ entity[x].roomid \in RoomID
    BY <1>1, <1>5 DEF CacheTypeOK, Entity
  <2>2. PICK i \in DOMAIN OwnRoom(x).players : OwnRoom(x).players[i].socket = x
    BY <2>1 DEF Coherent, EntityHasEntry
  <2>3. OwnRoom(x) # NULL
    BY <2>1 DEF Coherent, EntityHasEntry
  <2>4. entity[x].roomid # id
    BY <1>1, <1>4, <2>1, <2>2 DEF OwnRoom, Players
  <2>5. OwnRoom(x)' = OwnRoom(x)
    BY <1>2, <2>1, <2>4 DEF OwnRoom
  <2> QED
    BY <2>2, <2>3, <2>5
<1>11. CaptainFirst'
  BY <1>1, <1>3 DEF CaptainFirst, Coherent
<1>12. NoRoomZero'
  BY <1>2 DEF NoRoomZero, Coherent, RoomID
<1>13. RealRoles'
  BY <1>3 DEF RealRoles, Coherent
<1>14. RolesUnique'
  BY <1>1 DEF RolesUnique, Coherent
<1>15. RoleIsOwners'
  BY <1>1, <1>3 DEF RoleIsOwners, Coherent
<1>16. Coherent'
  BY <1>7, <1>8, <1>9, <1>10, <1>11, <1>12, <1>13, <1>14, <1>15 DEF Coherent
<1>17. \A x \in Socket : IsListed(x)' => IsListed(x)
  BY <1>3 DEF IsListed
<1>18. Registry!Next
  <2>1. Players(id) # <<>> /\ Len(Players(id)) # 0
    BY ExistingPlayers DEF Coherent, FreeCount
  <2>2. PartyView[id] # <<>>
    BY <2>1, PartyOfRoom
  <2>3. PartyView' = [PartyView EXCEPT ![id] = <<>>]
    BY PartyAfterExchange DEF WithoutRoom
  <2>4. Registry!Close(id)
    BY <2>2, <2>3 DEF Registry!Close
  <2> QED
    BY <2>4 DEF Registry!Next
<1> QED
  BY <1>16, <1>17, <1>18 DEF CoherentStep

-------------------------------------------------------------------------------
(* The handlers *)

LEMMA CrashCoherent ==
    ASSUME CacheTypeOK, Coherent, NEW kind, Crash(kind)
    PROVE  CoherentStep
BY CoherentSame DEF Crash

(* A room id that is not taken makes a new room of one player. *)
LEMMA CreateRoomCoherent ==
    ASSUME CacheTypeOK, Coherent, NEW s \in Socket, NEW id \in RoomID, id # 0,
           entity[s].roleid # 0, CreateRoom(s, id)
    PROVE  CoherentStep /\ ~Exists(id)
PROOF
<1> DEFINE m == [socket |-> s, roleid |-> entity[s].roleid, isroomctl |-> TRUE, seat |-> FirstSeat]
           old == <<>>
           room == NewRoom(m)
<1>1. s \in cache /\ entity[s].roomid = 0 /\ cache' = cache /\ entity[s] \in Entity
  BY DEF CreateRoom, Served, CacheTypeOK
<1>2. ~Exists(id)
  BY RoomAssumption DEF CreateRoom, GenrateOnlyRoomID, RoomID
<1>3. m \in Member
  BY <1>1, FirstSeatIsSeat DEF Member, Entity
<1>4. /\ m.socket = s /\ m.roleid = entity[s].roleid /\ m.isroomctl = TRUE
      /\ m.seat = FirstSeat /\ m.seat \in Seat
  BY FirstSeatIsSeat
<1>5. rooms' = [rooms EXCEPT ![id] = room]
  BY <1>2 DEF CreateRoom, WithRoom
<1>6. /\ \A x \in Socket \ {s} : entity'[x] = entity[x]
      /\ entity'[s].roleid = entity[s].roleid /\ entity'[s].roomid = id
      /\ entity'[s].seat = FirstSeat /\ entity'[s].isroomctl = TRUE
  BY <1>1 DEF CreateRoom, CacheTypeOK, Entity
<1> HIDE DEF m
<1>7. room \in Room
  BY <1>3, NewRoomType
<1>8. /\ old \in Seq(Member) /\ Len(old) = 0
      /\ room.players = Append(old, m) /\ room.free = PersonCount - (Len(old) + 1)
  BY <1>3 DEF NewRoom
<1> HIDE DEF room, old
<1>9. old = <<>>
  BY DEF old
<1>10. Grows(s, id, old, room, m)
  BY <1>1, <1>2, <1>4, <1>5, <1>6, <1>8, <1>9, PersonCountNat DEF Grows
<1> QED
  BY <1>1, <1>2, <1>3, <1>7, <1>8, <1>10, CoherentGrow

(* A room with a free seat has fewer players than seats. *)
LEMMA RoomForOneMore ==
    ASSUME CacheTypeOK, SeatsDistinct, SeatsExist, NEW id \in RoomID, Exists(id),
           NEW seat \in Seat, seat \notin SeatsOf(rooms[id])
    PROVE  Len(Players(id)) < PersonCount
PROOF
<1> DEFINE n == Len(Players(id))
           S == 1..n
           T == Seat \ {seat}
           f == [i \in S |-> Players(id)[i].seat]
<1>1. /\ n \in Nat /\ DOMAIN Players(id) = S
      /\ \A i \in S : Players(id)[i] \in Member
  BY ExistingPlayers
<1>2. IsFiniteSet(Seat) /\ Cardinality(Seat) = PersonCount
  <2> DEFINE A == 1..TeamCount
             B == 0..TeamSize - 1
  <2>1. IsFiniteSet(A) /\ Cardinality(A) = TeamCount
    BY TeamAssumption, FS_Interval
  <2>2. IsFiniteSet(B) /\ Cardinality(B) = TeamSize
    BY TeamAssumption, FS_Interval
  <2> HIDE DEF A, B
  <2>3. IsFiniteSet(A \X B) /\ Cardinality(A \X B) = Cardinality(A) * Cardinality(B)
    BY <2>1, <2>2, FS_Product
  <2>4. Seat = A \X B
    BY DEF Seat, A, B
  <2> QED
    BY <2>1, <2>2, <2>3, <2>4 DEF PersonCount
<1>3. IsFiniteSet(T) /\ Cardinality(T) = PersonCount - 1
  BY <1>2, FS_RemoveElement
<1>4. IsFiniteSet(S) /\ Cardinality(S) = n
  <2>1. n \in Nat
    BY <1>1
  <2> HIDE DEF n
  <2> QED
    BY <2>1, FS_Interval
<1>5. \A i \in S : Players(id)[i].seat \in T
  BY <1>1, EntriesSit DEF SeatsOf, Players
<1>6. \A i, j \in S : Players(id)[i].seat = Players(id)[j].seat => i = j
  BY <1>1 DEF SeatsDistinct
<1>7. f \in Injection(S, T)
  BY <1>5, <1>6 DEF Injection, IsInjective
<1> HIDE DEF f, S, T, n
<1>8. Cardinality(S) <= Cardinality(T)
  BY <1>3, <1>7, FS_Injection
<1>9. n \in Nat /\ PersonCount \in Nat
  BY <1>1, PersonCountNat
<1> QED
  BY <1>3, <1>4, <1>8, <1>9 DEF n

(* A player without a room is admitted to one, on a free seat. *)
LEMMA AdmitCoherent ==
    ASSUME CacheTypeOK, SeatsDistinct, Coherent, NEW s \in cache, NEW id \in RoomID,
           NEW seat \in Seat, seat \notin SeatsOf(rooms[id]),
           Exists(id), entity[s].roomid = 0, entity[s].roleid # 0, Admit(s, id, seat)
    PROVE  CoherentStep
PROOF
<1> DEFINE m == [socket |-> s, roleid |-> entity[s].roleid, isroomctl |-> FALSE, seat |-> seat]
           old == Players(id)
           room == Seated(rooms[id], m)
<1>1. s \in Socket /\ entity[s] \in Entity
  BY DEF CacheTypeOK
<1>2. m \in Member
  BY <1>1 DEF Member, Entity, SeatName
<1>3. /\ m.socket = s /\ m.roleid = entity[s].roleid /\ m.isroomctl = FALSE
      /\ m.seat = seat /\ m.seat \in Seat
  OBVIOUS
<1>4. /\ rooms' = [rooms EXCEPT ![id] = room] /\ cache' = cache
      /\ \A x \in Socket \ {s} : entity'[x] = entity[x]
      /\ entity'[s].roleid = entity[s].roleid /\ entity'[s].roomid = id
      /\ entity'[s].seat = seat
  BY <1>1 DEF Admit, CacheTypeOK, Entity
<1> HIDE DEF m
<1>5. /\ old \in Seq(Member) /\ Len(old) \in Nat /\ old # <<>>
      /\ rooms[id].free = PersonCount - Len(old) /\ rooms[id].free \in Int
  BY ExistingPlayers DEF Coherent, FreeCount
<1>6. room \in Room
  BY <1>2, ExistingRoom, SeatedType
<1>7. room.players = Append(old, m) /\ room.free = PersonCount - (Len(old) + 1)
  BY <1>5, PersonCountNat DEF Seated, Players
<1>8. id # 0
  BY DEF Coherent, NoRoomZero, Exists
<1>9. old = Players(id)
  OBVIOUS
<1>10. m.isroomctl <=> old = <<>>
  BY <1>3, <1>5
<1>11. m.isroomctl => entity'[s].isroomctl
  BY <1>3
<1> HIDE DEF room, old
<1>a. Len(old) < PersonCount
  BY RoomForOneMore DEF old, Coherent
<1>12. Grows(s, id, old, room, m)
  BY <1>3, <1>4, <1>5, <1>7, <1>8, <1>9, <1>10, <1>11, <1>a DEF Grows
<1> QED
  BY <1>2, <1>5, <1>6, <1>12, CoherentGrow

(* Both ways to choose a successor: if the leaver was the first, it is the *)
(* one behind; if not, nobody but the first can be marked (once more).     *)
LEMMA HeirsSound ==
    ASSUME NEW players \in Seq(Member), NEW n \in Nat, n = Len(players), n > 1,
           NEW own \in 1..n, NEW role, Others(players, role) = DOMAIN players \ {own},
           \A i \in DOMAIN players : players[i].isroomctl <=> i = 1,
           NEW wasCaptain \in BOOLEAN, players[own].isroomctl => wasCaptain,
           NEW heirs,
           heirs = Successor(players, role, wasCaptain) \/ heirs = SuccessorBehind(players, role)
    PROVE  heirs \in SUBSET {Skip(own, 1)} /\ (own = 1 => heirs = {Skip(own, 1)})
PROOF
<1> DEFINE rest == (1..n) \ {own}
<1>1. DOMAIN players = 1..n /\ Others(players, role) = rest
  OBVIOUS
<1>2. Least(rest) = {Skip(own, 1)}
  <2>1. CASE own = 1
    BY <2>1 DEF Least, Skip
  <2>2. CASE own # 1
    BY <2>2 DEF Least, Skip
  <2> QED
    BY <2>1, <2>2
<1>3. CASE heirs = Successor(players, role, wasCaptain)
  BY <1>1, <1>2, <1>3 DEF Successor
<1>4. CASE heirs = SuccessorBehind(players, role)
  <2> DEFINE behind == {i \in rest : \E j \in 1..(i - 1) : j \notin rest /\ players[j].isroomctl}
  <2>1. heirs = Least(behind)
    BY <1>1, <1>4 DEF SuccessorBehind
  <2>2. CASE own = 1
    <3>1. behind = rest
      BY <1>1, <2>2
    <3> QED
      BY <1>2, <2>1, <3>1
  <2>3. CASE own # 1
    <3>1. behind = {}
      BY <1>1, <2>3
    <3>2. Least({}) = {}
      BY DEF Least
    <3> QED
      BY <2>1, <2>3, <3>1, <3>2
  <2> QED
    BY <2>2, <2>3
<1> QED
  BY <1>3, <1>4

(* What a rebuild makes of a room without one entry, entry by entry. *)
LEMMA RebuiltWithoutOwn ==
    ASSUME NEW room \in Room, NEW players, players = room.players,
           NEW n \in Nat, n = Len(players), NEW own \in 1..n,
           NEW role, Others(players, role) = DOMAIN players \ {own}, NEW heirs
    PROVE  /\ Rebuilt(room, role, heirs) \in Room
           /\ Rebuilt(room, role, heirs).free = room.free + 1
           /\ CopiesAllBut(own, players, n, heirs, Rebuilt(room, role, heirs).players)
PROOF
<1> DEFINE K == Others(players, role)
           new == Rebuilt(room, role, heirs)
<1>1. K = (1..n) \ {own}
  BY DEF Room
<1>2. /\ new \in Room /\ new.free = room.free + 1
      /\ Len(new.players) = Cardinality(K) /\ DOMAIN new.players = 1..Cardinality(K)
      /\ \A k \in 1..Cardinality(K) :
            /\ new.players[k].seat = players[Nth(K, k)].seat
            /\ new.players[k].roleid = players[Nth(K, k)].roleid
            /\ new.players[k].socket = players[Nth(K, k)].socket
            /\ new.players[k].isroomctl
                  = (Nth(K, k) \in heirs \/ players[Nth(K, k)].isroomctl)
  BY ONLY room \in Room, players = room.players, RebuiltSound
<1> HIDE DEF K, new
<1>3. Cardinality(K) = n - 1 /\ \A k \in 1..(n - 1) : Nth(K, k) = Skip(own, k)
  BY ONLY n \in Nat, own \in 1..n, <1>1, NthSkip
<1>4. /\ DOMAIN new.players = 1..(n - 1) /\ Len(new.players) = n - 1
      /\ \A k \in 1..(n - 1) :
            /\ new.players[k].seat = players[Skip(own, k)].seat
            /\ new.players[k].roleid = players[Skip(own, k)].roleid
            /\ new.players[k].socket = players[Skip(own, k)].socket
            /\ new.players[k].isroomctl
                  <=> (Skip(own, k) \in heirs \/ players[Skip(own, k)].isroomctl)
  BY ONLY <1>2, <1>3
<1> QED
  BY <1>2, <1>4 DEF new, CopiesAllBut

(* A connected player leaves a room that lists it and others: the room is  *)
(* rebuilt without it and with one of the two choices of an heir.          *)
LEMMA LeavingCoherent ==
    ASSUME CacheTypeOK, Coherent, NEW s \in cache, NEW id \in RoomID, Exists(id),
           Listed(Players(id), entity[s].roleid), ~LastLeaves(rooms[id]),
           NEW heirs,
           \/ heirs = Successor(Players(id), entity[s].roleid, entity[s].isroomctl)
           \/ heirs = SuccessorBehind(Players(id), entity[s].roleid),
           rooms' = [rooms EXCEPT ![id] = Rebuilt(rooms[id], entity[s].roleid, heirs)],
           entity' = Departed(s, SocketsAt(Players(id), heirs)), cache' = cache
    PROVE  CoherentStep
PROOF
<1> DEFINE players == Players(id)
           role == entity[s].roleid
           captain == entity[s].isroomctl
           n == Len(players)
           room == Rebuilt(rooms[id], role, heirs)
<1>1. /\ rooms[id] \in Room /\ rooms[id].players = players
      /\ players \in Seq(Member) /\ n \in Nat /\ DOMAIN players = 1..n
      /\ rooms[id].free \in Int
  BY ExistingRoom, ExistingPlayers DEF Players
<1>2. PICK own \in 1..n : /\ players[own].socket = s
                          /\ Others(players, role) = DOMAIN players \ {own}
  BY <1>1, OwnEntry
<1>3. rooms[id].free = PersonCount - n
  BY DEF Coherent, FreeCount
<1>4. n # 1 /\ n > 1
  BY <1>1, <1>2, <1>3, PersonCountNat DEF LastLeaves
<1>5. \A i \in DOMAIN players : players[i].isroomctl <=> i = 1
  BY DEF Coherent, CaptainFirst
<1>6. captain \in BOOLEAN /\ (players[own].isroomctl => captain)
  BY <1>1, <1>2 DEF CacheTypeOK, Entity, Coherent, CaptainFirst
<1>7. \/ heirs = Successor(players, role, captain)
      \/ heirs = SuccessorBehind(players, role)
  OBVIOUS
<1>8. /\ rooms' = [rooms EXCEPT ![id] = room]
      /\ entity' = Departed(s, SocketsAt(players, heirs))
      /\ players = Players(id) /\ n = Len(players)
  OBVIOUS
<1> HIDE DEF n, role, captain, players
<1>9. heirs \in SUBSET {Skip(own, 1)} /\ (own = 1 => heirs = {Skip(own, 1)})
  <2>1. players \in Seq(Member) /\ n \in Nat /\ n = Len(players)
        /\ Others(players, role) = DOMAIN players \ {own}
    BY ONLY <1>1, <1>2, <1>8
  <2> QED
    BY ONLY own \in 1..n, <1>4, <1>5, <1>6, <1>7, <2>1, HeirsSound
<1>10. /\ room \in Room /\ room.free = rooms[id].free + 1
       /\ CopiesAllBut(own, players, n, heirs, room.players)
  <2>1. /\ rooms[id] \in Room /\ players = rooms[id].players
        /\ n \in Nat /\ n = Len(players)
        /\ Others(players, role) = DOMAIN players \ {own}
    BY ONLY <1>1, <1>2, <1>8
  <2> QED
    BY ONLY own \in 1..n, <2>1, RebuiltWithoutOwn
<1> HIDE DEF room
<1>11. cache' = cache /\ Exists(id)
  OBVIOUS
<1>12. Shrinks(s, id, n, own, room, heirs)
  BY ONLY <1>1, <1>2, <1>4, <1>8, <1>9, <1>10, <1>11 DEF Shrinks
<1> QED
  BY <1>1, <1>2, <1>10, <1>12, CoherentShrink

(* The last player leaves: the room closes. *)
LEMMA LastLeavingCoherent ==
    ASSUME CacheTypeOK, Coherent, NEW s \in cache, NEW id \in RoomID, Exists(id),
           Listed(Players(id), entity[s].roleid), LastLeaves(rooms[id]),
           rooms' = WithoutRoom(id), entity' = Departed(s, {}), cache' = cache
    PROVE  CoherentStep
PROOF
<1>1. Len(Players(id)) \in Nat /\ DOMAIN Players(id) = 1..Len(Players(id)) /\ s \in Socket
  BY ExistingPlayers DEF CacheTypeOK
<1>2. rooms[id].free = PersonCount - Len(Players(id)) /\ rooms[id].free \in Int
  BY ExistingPlayers DEF Coherent, FreeCount
<1>3. Len(Players(id)) = 1
  BY <1>1, <1>2, PersonCountNat DEF LastLeaves
<1>4. PICK own \in DOMAIN Players(id) : Players(id)[own].socket = s
  BY OwnEntry
<1>5. DOMAIN Players(id) = {own}
  BY <1>1, <1>3, <1>4
<1>6. SocketsAt(Players(id), DOMAIN Players(id)) = {s}
  BY <1>4, <1>5 DEF SocketsAt
<1>7. \A x \in Socket : /\ entity'[x].roleid = entity[x].roleid
                        /\ entity'[x].seat = entity[x].seat
                        /\ entity'[x].isroomctl = entity[x].isroomctl
                        /\ entity'[x].roomid = IF x = s THEN 0 ELSE entity[x].roomid
  BY DEF Departed, CacheTypeOK, Entity
<1> QED
  BY <1>6, <1>7, CoherentClose

LEMMA JoinRoomCoherent ==
    ASSUME CacheTypeOK, SeatsDistinct, Coherent, NEW s \in Socket, NEW id \in RoomID,
           entity[s].roleid # 0, entity[s].roomid \in {0, id}, JoinRoom(s, id)
    PROVE  CoherentStep
PROOF
<1>1. s \in cache /\ Exists(id) /\ id # 0
  BY DEF JoinRoom, Served, Coherent, NoRoomZero, Exists
<1>2. CASE Rejoin(s, id) /\ Listed(rooms[id].players, entity[s].roleid)
  <2> DEFINE heirs == SuccessorBehind(rooms[id].players, entity[s].roleid)
  <2>1. Listed(Players(id), entity[s].roleid) /\ rooms[id].players = Players(id)
    BY <1>2 DEF Players
  <2>2. CASE LastLeaves(rooms[id])
    <3>1. rooms' = WithoutRoom(id) /\ entity' = Departed(s, {}) /\ cache' = cache
      BY <1>2, <2>2 DEF Rejoin
    <3> QED
      BY <1>1, <2>1, <2>2, <3>1, LastLeavingCoherent
  <2>3. CASE ~LastLeaves(rooms[id])
    <3>1. /\ rooms' = [rooms EXCEPT ![id] = Rebuilt(rooms[id], entity[s].roleid, heirs)]
          /\ entity' = Departed(s, SocketsAt(Players(id), heirs)) /\ cache' = cache
      BY <1>2, <2>1, <2>3 DEF Rejoin
    <3>2. heirs = SuccessorBehind(Players(id), entity[s].roleid)
      BY <2>1
    <3> HIDE DEF heirs
    <3> QED
      BY <1>1, <2>1, <2>3, <3>1, <3>2, LeavingCoherent
  <2> QED
    BY <2>2, <2>3
<1>3. CASE ~Listed(rooms[id].players, entity[s].roleid)
  <2>1. entity[s].roomid # id
    <3> SUFFICES ASSUME entity[s].roomid = id
                 PROVE  FALSE
      OBVIOUS
    <3>1. OwnRoom(s) # NULL
      BY <1>1 DEF OwnRoom, Exists
    <3> QED
      BY <1>1, <1>3, <3>1, OwnRoomLists DEF Players
  <2>2. PICK seat \in Seat : seat \notin SeatsOf(rooms[id]) /\ Admit(s, id, seat)
    BY <1>3 DEF JoinRoom, FirstIdle, IdleSeats
  <2> QED
    BY <1>1, <2>1, <2>2, AdmitCoherent
<1> QED
  BY <1>2, <1>3 DEF JoinRoom

LEMMA JoinTeamCoherent ==
    ASSUME CacheTypeOK, SeatsDistinct, Coherent, NEW s \in Socket, NEW id \in RoomID,
           NEW seat \in Seat, entity[s].roleid # 0, entity[s].roomid = 0, JoinTeam(s, id, seat)
    PROVE  CoherentStep
BY AdmitCoherent, CrashCoherent DEF JoinTeam, SeatIsFree, Served

LEMMA LeaveOwnRoomCoherent ==
    ASSUME CacheTypeOK, Coherent, NEW s \in cache, OwnRoom(s) # NULL, LeaveOwnRoom(s)
    PROVE  CoherentStep
PROOF
<1> DEFINE id == entity[s].roomid
           heirs == Successor(OwnRoom(s).players, entity[s].roleid, entity[s].isroomctl)
<1>1. /\ id \in RoomID /\ Exists(id)
      /\ Listed(Players(id), entity[s].roleid) /\ OwnRoom(s).players = Players(id)
  BY OwnRoomLists
<1>2. heirs = Successor(Players(id), entity[s].roleid, entity[s].isroomctl)
  BY <1>1
<1>3. \/ /\ LastLeaves(rooms[id])
         /\ rooms' = WithoutRoom(id)
         /\ entity' = Departed(s, {})
         /\ cache' = cache
      \/ /\ ~LastLeaves(rooms[id])
         /\ rooms' = [rooms EXCEPT ![id] = Rebuilt(rooms[id], entity[s].roleid, heirs)]
         /\ entity' = Departed(s, SocketsAt(Players(id), heirs))
         /\ cache' = cache
      \/ Crash("NullEntity")
  BY <1>1 DEF LeaveOwnRoom, OwnRoom
<1> HIDE DEF heirs, id
<1>4. CASE Crash("NullEntity")
  BY <1>4, CrashCoherent
<1>5. CASE /\ LastLeaves(rooms[id])
           /\ rooms' = WithoutRoom(id)
           /\ entity' = Departed(s, {})
           /\ cache' = cache
  BY <1>1, <1>5, LastLeavingCoherent
<1>6. CASE /\ ~LastLeaves(rooms[id])
           /\ rooms' = [rooms EXCEPT ![id] = Rebuilt(rooms[id], entity[s].roleid, heirs)]
           /\ entity' = Departed(s, SocketsAt(Players(id), heirs))
           /\ cache' = cache
  BY <1>1, <1>2, <1>6, LeavingCoherent
<1> QED
  BY <1>3, <1>4, <1>5, <1>6

LEMMA GameWaiteCoherent ==
    ASSUME CacheTypeOK, Coherent, NEW s \in Socket, GameWaite(s)
    PROVE  CoherentStep
PROOF
<1>1. CASE Crash("NullRoom")
  BY <1>1, CrashCoherent
<1>2. CASE ~Crash("NullRoom")
  <2>1. /\ entity' = [entity EXCEPT ![s].gamewaite = ~entity[s].gamewaite]
        /\ UNCHANGED <<cache, rooms>>
    BY <1>2 DEF GameWaite
  <2>2. \A x \in Socket : /\ entity'[x].roleid = entity[x].roleid
                          /\ entity'[x].roomid = entity[x].roomid
                          /\ entity'[x].seat = entity[x].seat
                          /\ entity'[x].isroomctl = entity[x].isroomctl
    BY <2>1 DEF CacheTypeOK, Entity
  <2> QED
    BY <2>1, <2>2, CoherentSame
<1> QED
  BY <1>1, <1>2

(* A PlayerInfo with the server's flag and seat may turn the switch only.  *)
LEMMA RsyncCoherent ==
    ASSUME CacheTypeOK, Coherent, NEW s \in Socket, NEW sent, KeepsPlace(s, sent),
           Rsync(s, sent)
    PROVE  CoherentStep
PROOF
<1>1. entity[s] \in Entity /\ entity \in [Socket -> Entity]
  BY DEF CacheTypeOK
<1>2. LET e == Overwritten(s, sent)
      IN  /\ e.roleid = entity[s].roleid /\ e.roomid = entity[s].roomid
          /\ e.seat = entity[s].seat /\ e.isroomctl = entity[s].isroomctl
  BY <1>1 DEF Overwritten, KeepsPlace, Entity
<1>3. UNCHANGED <<cache, rooms>> /\ entity' = [entity EXCEPT ![s] = Overwritten(s, sent)]
  BY DEF Rsync
<1>4. \A x \in Socket : /\ entity'[x].roleid = entity[x].roleid
                        /\ entity'[x].roomid = entity[x].roomid
                        /\ entity'[x].seat = entity[x].seat
                        /\ entity'[x].isroomctl = entity[x].isroomctl
  BY <1>1, <1>2, <1>3
<1> QED
  BY <1>3, <1>4, CoherentSame

LEMMA GameOverCoherent ==
    ASSUME CacheTypeOK, Coherent, NEW s \in Socket, GameOver(s)
    PROVE  CoherentStep
PROOF
<1> DEFINE id == entity[s].roomid
<1>1. s \in cache /\ OwnRoom(s) # NULL
  BY DEF GameOver, Served
<1>2. id \in RoomID /\ Exists(id) /\ OwnRoom(s).players = Players(id)
  BY <1>1, OwnRoomLists
<1>3. CASE Crash("NullEntity")
  BY <1>3, CrashCoherent
<1>4. CASE ~Crash("NullEntity")
  <2>1. rooms' = WithoutRoom(id) /\ cache' = cache /\ entity' = SentHome(Players(id))
    BY <1>2, <1>4 DEF GameOver
  <2>2. \A x \in Socket : /\ entity'[x].roleid = entity[x].roleid
                          /\ entity'[x].seat = entity[x].seat
                          /\ entity'[x].isroomctl = entity[x].isroomctl
    BY <2>1 DEF SentHome, CacheTypeOK, Entity
  <2>3. \A x \in Socket : entity'[x].roomid =
          IF x \in SocketsAt(Players(id), DOMAIN Players(id)) THEN 0 ELSE entity[x].roomid
    BY <2>1 DEF SentHome, CacheTypeOK, Entity
  <2> HIDE DEF id
  <2> QED
    BY <1>2, <2>1, <2>2, <2>3, CoherentClose
<1> QED
  BY <1>3, <1>4
===============================================================================
