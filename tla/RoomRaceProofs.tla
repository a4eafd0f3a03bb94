---------------------------- MODULE RoomRaceProofs -----------------------------
(***************************************************************************)
(* RoomRace keeps its types, and what the timers and the worker do to each *)
(* other's rooms stays in the rooms they work on at once.  For that the    *)
(* invariant follows a room through every step of a rebuild and of a join: *)
(* the room that is being built is already what it should be.              *)
(***************************************************************************)
EXTENDS RoomRace, CoherenceProofs

Rebuild ==
    [at : {"idle", "last", "copy", "out", "remove", "insert"}, id : RoomID,
     root : RoomID, free : Int, players : Seq(Member), old : Room \cup {NULL}]

Join ==
    [at : {"idle", "add"}, id : RoomID, seat : Seat, socket : Socket \cup {NULL},
     deleted : BOOLEAN]

(* A timer that copies has the room it looked up, or what it was; a join   *)
(* that is under way is somebody's.                                        *)
PointersSound ==
    /\ \A s \in Socket :
          rebuild[s].at = "copy" /\ rebuild[s].old = NULL => Exists(rebuild[s].id)
    /\ joining.at = "add" => joining.socket \in Socket

TypeInv ==
    /\ CacheTypeOK
    /\ rebuild \in [Socket -> Rebuild]
    /\ joining \in Join
    /\ taken \in 0..MaxTaken
    /\ raced \in SUBSET RoomID
    /\ PointersSound

LEMMA TypeInvIsStronger == TypeInv => RaceTypeOK
BY DEF TypeInv, RaceTypeOK, Rebuild, Join

LEMMA NotRebuildingType == NotRebuilding \in Rebuild
BY DEF NotRebuilding, Rebuild, RoomID

LEMMA NotJoiningType == NotJoining \in Join
BY FirstSeatIsSeat DEF NotJoining, Join, RoomID

(* What a timer holds after it has looked up a room. *)
LookedUp(at, id, free) ==
    [NotRebuilding EXCEPT !.at = at, !.id = id, !.root = id, !.free = free]

LEMMA LookedUpType ==
    ASSUME NEW at \in {"last", "copy"}, NEW id \in RoomID, NEW free \in Int, NEW r,
           r = LookedUp(at, id, free)
    PROVE  /\ r \in Rebuild
           /\ r.at = at /\ r.id = id /\ r.root = id /\ r.free = free /\ r.old = NULL
PROOF
<1> DEFINE r1 == [NotRebuilding EXCEPT !.at = at]
           r2 == [r1 EXCEPT !.id = id]
           r3 == [r2 EXCEPT !.root = id]
<1>1. r = [r3 EXCEPT !.free = free]
  BY DEF LookedUp
<1>2. r1 = [NotRebuilding EXCEPT !.at = at] /\ r2 = [r1 EXCEPT !.id = id]
      /\ r3 = [r2 EXCEPT !.root = id]
  OBVIOUS
<1> HIDE DEF r1, r2, r3
<1>3. r1 \in Rebuild /\ r1.at = at /\ r1.old = NULL
  BY <1>2, NotRebuildingType DEF Rebuild, NotRebuilding
<1>4. r2 \in Rebuild /\ r2.at = at /\ r2.old = NULL /\ r2.id = id
  BY <1>2, <1>3 DEF Rebuild
<1>5. r3 \in Rebuild /\ r3.at = at /\ r3.old = NULL /\ r3.id = id /\ r3.root = id
  BY <1>2, <1>4 DEF Rebuild
<1> QED
  BY <1>1, <1>5 DEF Rebuild

(* What a timer sees of the deletion of rooms: its own record keeps its    *)
(* type and all fields but old, and old is set if its room is gone.        *)
LEMMA PointersAfterSound ==
    ASSUME CacheTypeOK, NEW gone \in SUBSET RoomID, NEW table \in [Socket -> Rebuild],
           \A s \in Socket :
              table[s].at = "copy" /\ table[s].old = NULL => Exists(table[s].id),
           NEW new, new = PointersAfter(gone, table)
    PROVE  /\ new \in [Socket -> Rebuild]
           /\ \A s \in Socket :
                /\ new[s].at = table[s].at /\ new[s].id = table[s].id
                /\ new[s].root = table[s].root
                /\ new[s].free = table[s].free /\ new[s].players = table[s].players
                /\ table[s].id \notin gone => new[s] = table[s]
                /\ table[s].at # "copy" => new[s] = table[s]
                /\ new[s].at = "copy" /\ new[s].old = NULL =>
                      table[s].old = NULL /\ table[s].id \notin gone
PROOF
<1> SUFFICES ASSUME NEW s \in Socket
             PROVE  /\ new[s] \in Rebuild
                    /\ new[s].at = table[s].at /\ new[s].id = table[s].id
                    /\ new[s].root = table[s].root
                    /\ new[s].free = table[s].free /\ new[s].players = table[s].players
                    /\ table[s].id \notin gone => new[s] = table[s]
                    /\ table[s].at # "copy" => new[s] = table[s]
                    /\ new[s].at = "copy" /\ new[s].old = NULL =>
                          table[s].old = NULL /\ table[s].id \notin gone
  BY DEF PointersAfter
<1>1. table[s] \in Rebuild /\ table[s].id \in RoomID
  BY DEF Rebuild
<1>2. CASE table[s].at = "copy" /\ table[s].id \in gone /\ table[s].old = NULL
  <2>1. rooms[table[s].id] \in Room /\ rooms[table[s].id] # NULL
    BY <1>1, <1>2 DEF Exists, CacheTypeOK
  <2>2. new[s] = [table[s] EXCEPT !.old = rooms[table[s].id]]
    BY <1>2 DEF PointersAfter
  <2> QED
    BY <1>1, <1>2, <2>1, <2>2 DEF Rebuild
<1>3. CASE ~(table[s].at = "copy" /\ table[s].id \in gone /\ table[s].old = NULL)
  <2>1. new[s] = table[s]
    BY <1>3 DEF PointersAfter
  <2> QED
    BY <1>1, <1>3, <2>1
<1> QED
  BY <1>2, <1>3

-------------------------------------------------------------------------------
(* Types *)

LEMMA RacesType ==
    ASSUME CacheTypeOK, raced \in SUBSET RoomID, NEW ids \in SUBSET RoomID, Races(ids)
    PROVE  raced' \in SUBSET RoomID
BY DEF Races, LeftRooms, CacheTypeOK, Entity

(* A room that is there and is gone afterwards counts as deleted. *)
LEMMA HandlerPointers ==
    ASSUME TypeInv, NEW ids \in SUBSET RoomID, Handler(ids), CacheTypeOK'
    PROVE  TypeInv'
PROOF
<1> USE DEF TypeInv
<1> DEFINE gone == Replaced
<1>1. rebuild' = PointersAfter(gone, rebuild) /\ gone \in SUBSET RoomID
  BY DEF Handler, Replaced
<1>2. \A id \in RoomID : Exists(id) /\ id \notin gone => Exists(id)'
  BY DEF Replaced, Exists
<1>3. \A s \in Socket :
        /\ rebuild[s].id \in RoomID
        /\ rebuild[s].at = "copy" /\ rebuild[s].old = NULL => Exists(rebuild[s].id)
  BY DEF PointersSound, Rebuild
<1> HIDE DEF gone
<1>4. /\ rebuild' \in [Socket -> Rebuild]
      /\ \A s \in Socket :
            /\ rebuild'[s].id = rebuild[s].id /\ rebuild'[s].at = rebuild[s].at
            /\ rebuild'[s].at = "copy" /\ rebuild'[s].old = NULL =>
                  rebuild[s].old = NULL /\ rebuild[s].id \notin gone
  BY <1>1, <1>3, PointersAfterSound
<1>5. PointersSound'
  BY <1>2, <1>3, <1>4 DEF PointersSound, Handler
<1>6. raced' \in SUBSET RoomID
  BY RacesType DEF Handler
<1> QED
  BY <1>4, <1>5, <1>6 DEF Handler

LEMMA HandlersKeepTypes ==
    ASSUME TypeInv, NEW s \in Socket, NEW id \in RoomID,
           Create(s, id) \/ LeaveByJoin(s, id) \/ Leave(s) \/ Finish(s)
    PROVE  TypeInv'
PROOF
<1>1. CacheTypeOK /\ entity[s].roomid \in RoomID
  BY DEF TypeInv, CacheTypeOK, Entity
<1>2. CacheTypeOK'
  BY <1>1, CreateRoomType, JoinRoomType, LeaveOwnRoomType, GameOverType
  DEF Create, LeaveByJoin, Leave, Finish, LeaveRoom
<1>3. \E ids \in SUBSET RoomID : Handler(ids)
  BY <1>1 DEF Create, LeaveByJoin, Leave, Finish
<1> QED
  BY <1>2, <1>3, HandlerPointers

LEMMA BeginJoinType ==
    ASSUME TypeInv, NEW s \in Socket, NEW id \in RoomID, BeginJoin(s, id)
    PROVE  TypeInv'
PROOF
<1> USE DEF TypeInv
<1>1. rooms[id] \in Room /\ entity[s] \in Entity
  BY ExistingRoom DEF BeginJoin, CacheTypeOK
<1>2. PICK seat \in Seat :
         /\ rooms' = [rooms EXCEPT ![id].free = rooms[id].free - 1]
         /\ entity' = [entity EXCEPT ![s].roomid = id, ![s].seat = seat]
         /\ joining' = [at |-> "add", id |-> id, seat |-> seat, socket |-> s, deleted |-> FALSE]
  BY DEF BeginJoin, FirstIdle, IdleSeats
<1> DEFINE counted == [rooms[id] EXCEPT !.free = rooms[id].free - 1]
           told == [entity[s] EXCEPT !.roomid = id, !.seat = seat]
<1>3. counted \in Room
  BY <1>1 DEF Room
<1>a. told \in Entity
  BY <1>1 DEF SeatName, Entity
<1>4. rooms' = [rooms EXCEPT ![id] = counted] /\ entity' = [entity EXCEPT ![s] = told]
  BY <1>2
<1> HIDE DEF counted, told
<1>5. rooms' \in [RoomID -> Room \cup {NULL}] /\ entity' \in [Socket -> Entity]
  BY <1>3, <1>4, <1>a DEF CacheTypeOK
<1>6. CacheTypeOK'
  BY <1>5 DEF CacheTypeOK, BeginJoin
<1>7. joining' \in Join /\ joining'.socket \in Socket
  BY <1>2 DEF Join
<1>8. raced' \in SUBSET RoomID
  BY RacesType DEF BeginJoin
<1>10. \A jd \in RoomID : Exists(jd) => Exists(jd)'
  BY <1>3, <1>4, RoomAssumption DEF Exists, CacheTypeOK
<1>11. \A x \in Socket : rebuild[x].id \in RoomID
  BY DEF Rebuild
<1>12. PointersSound'
  BY <1>7, <1>10, <1>11 DEF PointersSound, BeginJoin
<1> QED
  BY <1>6, <1>7, <1>8, <1>12 DEF BeginJoin

(* A room with another list of players. *)
LEMMA PlayersReplaced ==
    ASSUME NEW room \in Room, NEW list
    PROVE  [room EXCEPT !.players = list] = [free |-> room.free, players |-> list]
BY DEF Room

LEMMA AddMemberType ==
    ASSUME TypeInv, AddMember
    PROVE  TypeInv'
PROOF
<1> USE DEF TypeInv
<1> DEFINE s == joining.socket
           id == joining.id
           entry == [socket |-> s, roleid |-> entity[s].roleid, isroomctl |-> FALSE,
                     seat |-> joining.seat]
<1>1. s \in Socket /\ id \in RoomID /\ joining.seat \in Seat
  BY DEF AddMember, PointersSound, Join
<1>2. entry \in Member
  BY <1>1 DEF Member, SeatName, CacheTypeOK, Entity
<1>3. /\ rooms' = IF Exists(id) THEN [rooms EXCEPT ![id].players = Append(@, entry)] ELSE rooms
      /\ fault' \in {"none", "FreedRoom"} /\ joining' = NotJoining
      /\ UNCHANGED <<cache, entity, rebuild, taken, raced>>
  BY DEF AddMember
<1> HIDE DEF entry, s, id
<1>4. CASE ~Exists(id)
  <2>1. UNCHANGED <<cache, entity, rooms, rebuild, taken, raced>> /\ fault' \in Fault
    BY <1>3, <1>4 DEF Fault
  <2>2. joining' \in Join /\ joining'.at # "add"
    BY <1>3, NotJoiningType DEF NotJoining
  <2> QED
    BY <2>1, <2>2 DEF CacheTypeOK, PointersSound, Exists
<1>5. CASE Exists(id)
  <2> DEFINE grown == [rooms[id] EXCEPT !.players = Append(rooms[id].players, entry)]
  <2>a. rooms[id] \in Room
    BY <1>1, <1>5, ExistingRoom
  <2>b. grown = [free |-> rooms[id].free, players |-> Append(rooms[id].players, entry)]
    BY ONLY <2>a, PlayersReplaced
  <2>c. Append(rooms[id].players, entry) \in Seq(Member) /\ rooms[id].free \in Int
    BY <1>2, <2>a DEF Room
  <2>1. grown \in Room
    BY <2>b, <2>c DEF Room
  <2>2. rooms' = [rooms EXCEPT ![id] = grown]
    BY <1>3, <1>5
  <2> HIDE DEF grown
  <2>3. rooms' \in [RoomID -> Room \cup {NULL}]
    BY <2>1, <2>2 DEF CacheTypeOK
  <2>4. CacheTypeOK' /\ joining' \in Join
    BY <1>3, <2>3, NotJoiningType DEF CacheTypeOK, Fault
  <2>5. \A jd \in RoomID : Exists(jd) => Exists(jd)'
    BY <2>1, <2>2, RoomAssumption DEF Exists, CacheTypeOK
  <2>6. PointersSound'
    BY <1>3, <2>5 DEF PointersSound, NotJoining, Rebuild
  <2> QED
    BY <1>3, <2>4, <2>6
<1> QED
  BY <1>4, <1>5

(* The timers. *)
LEMMA BeginType ==
    ASSUME TypeInv, NEW s \in Socket, Begin(s)
    PROVE  TypeInv'
PROOF
<1> USE DEF TypeInv
<1> DEFINE id == entity[s].roomid
           first == IF LastLeaves(rooms[id]) THEN "last" ELSE "copy"
           count == rooms[id].free + 1
           r == LookedUp(first, id, count)
<1>1. id \in RoomID /\ Exists(id)
  BY DEF Begin, OwnRoom, Exists, CacheTypeOK, Entity
<1>2. count \in Int
  BY <1>1, ExistingRoom DEF Room
<1>a. first \in {"last", "copy"}
  OBVIOUS
<1>b. r = LookedUp(first, id, count)
  OBVIOUS
<1>c. rebuild' = [rebuild EXCEPT ![s] = r] /\ UNCHANGED <<cacheVars, joining>>
  BY DEF Begin, LookedUp
<1> HIDE DEF first, id, count, r
<1>3. r \in Rebuild /\ r.id = id
  BY ONLY <1>1, <1>2, <1>a, <1>b, LookedUpType
<1>5. rebuild' \in [Socket -> Rebuild]
  BY <1>3, <1>c
<1>6. raced' \in SUBSET RoomID
  BY <1>1, RacesType DEF Begin, id
<1>7. taken' \in 0..MaxTaken
  BY RaceAssumption DEF Begin
<1>8. CacheTypeOK' /\ joining' \in Join
  BY <1>c DEF CacheTypeOK, cacheVars
<1>9. PointersSound'
  BY <1>1, <1>3, <1>c DEF PointersSound, Exists, cacheVars
<1> QED
  BY <1>5, <1>6, <1>7, <1>8, <1>9

LEMMA DeletedType ==
    ASSUME joining \in Join, NEW id
    PROVE  /\ Deleted(id) \in Join
           /\ Deleted(id).at = joining.at /\ Deleted(id).id = joining.id
           /\ Deleted(id).seat = joining.seat /\ Deleted(id).socket = joining.socket
BY DEF Deleted, Join

(* A room is removed while a timer's own record becomes r. *)
LEMMA RemovalType ==
    ASSUME TypeInv, NEW s \in Socket, NEW id \in RoomID, NEW r \in Rebuild, r.at # "copy",
           rooms' = WithoutRoom(id), entity' \in [Socket -> Entity],
           rebuild' = PointersAfter({id}, [rebuild EXCEPT ![s] = r]),
           joining' = Deleted(id), raced' \in SUBSET RoomID,
           UNCHANGED <<cache, fault, taken>>
    PROVE  TypeInv'
PROOF
<1> USE DEF TypeInv
<1> DEFINE table == [rebuild EXCEPT ![s] = r]
           gone == {id}
<1>1. /\ table \in [Socket -> Rebuild] /\ gone \in SUBSET RoomID
      /\ \A x \in Socket : table[x].at = "copy" => table[x] = rebuild[x]
  OBVIOUS
<1>2. \A x \in Socket :
        table[x].at = "copy" /\ table[x].old = NULL => Exists(table[x].id)
  BY <1>1 DEF PointersSound
<1>3. rebuild' = PointersAfter(gone, table)
  OBVIOUS
<1> HIDE DEF table, gone
<1>4. /\ rebuild' \in [Socket -> Rebuild]
      /\ \A x \in Socket :
            /\ rebuild'[x].id = table[x].id /\ rebuild'[x].at = table[x].at
            /\ rebuild'[x].at = "copy" /\ rebuild'[x].old = NULL =>
                  table[x].old = NULL /\ table[x].id \notin gone
  <2>1. CacheTypeOK
    OBVIOUS
  <2> QED
    BY ONLY <1>1, <1>2, <1>3, <2>1, PointersAfterSound
<1>5. /\ rooms' \in [RoomID -> Room \cup {NULL}]
      /\ \A jd \in RoomID : Exists(jd) /\ jd \notin gone => Exists(jd)'
  BY DEF WithoutRoom, CacheTypeOK, Exists, gone
<1>6. \A x \in Socket : table[x].id \in RoomID
  BY <1>1 DEF Rebuild
<1>7. joining' \in Join /\ joining'.at = joining.at /\ joining'.socket = joining.socket
  BY DeletedType
<1>8. CacheTypeOK'
  BY <1>5 DEF CacheTypeOK
<1>9. PointersSound'
  BY <1>2, <1>4, <1>5, <1>6, <1>7 DEF PointersSound
<1> QED
  BY <1>4, <1>7, <1>8, <1>9

LEMMA RemoveLastType ==
    ASSUME TypeInv, NEW s \in Socket, RemoveLast(s)
    PROVE  TypeInv'
PROOF
<1> USE DEF TypeInv
<1> DEFINE id == entity[s].roomid
<1>1. id \in RoomID /\ entity[s] \in Entity
  BY DEF CacheTypeOK, Entity
<1>2. entity' \in [Socket -> Entity]
  <2> DEFINE e == [entity[s] EXCEPT !.roomid = 0]
  <2>1. e \in Entity
    BY <1>1 DEF Entity, RoomID
  <2>2. entity' = [entity EXCEPT ![s] = e]
    BY DEF RemoveLast
  <2> HIDE DEF e
  <2> QED
    BY <2>1, <2>2 DEF CacheTypeOK
<1>3. raced' \in SUBSET RoomID
  BY DEF RemoveLast, LeftRooms, CacheTypeOK, Entity
<1>4. NotRebuilding \in Rebuild /\ NotRebuilding.at # "copy"
  BY NotRebuildingType DEF NotRebuilding
<1>5. /\ rooms' = WithoutRoom(id)
      /\ rebuild' = PointersAfter({id}, [rebuild EXCEPT ![s] = NotRebuilding])
      /\ joining' = Deleted(id) /\ UNCHANGED <<cache, fault, taken>>
  BY DEF RemoveLast
<1> HIDE DEF id, TypeInv
<1> QED
  BY <1>1, <1>2, <1>3, <1>4, <1>5, RemovalType

(* The table of the timers after Copy and after Out. *)
AfterCopy(s, players) ==
    [rebuild EXCEPT ![s].at = "out", ![s].old = NULL, ![s].players = players]
AfterOut(s, root) == [rebuild EXCEPT ![s].at = "remove", ![s].root = root]

LEMMA CopyRecord ==
    ASSUME rebuild \in [Socket -> Rebuild], NEW s \in Socket, NEW players \in Seq(Member),
           NEW new, new = AfterCopy(s, players)
    PROVE  /\ new \in [Socket -> Rebuild]
           /\ new[s].at = "out" /\ new[s].id = rebuild[s].id /\ new[s].root = rebuild[s].root
           /\ new[s].free = rebuild[s].free /\ new[s].players = players
           /\ \A x \in Socket \ {s} : new[x] = rebuild[x]
PROOF
<1> DEFINE r1 == [rebuild[s] EXCEPT !.at = "out"]
           r2 == [r1 EXCEPT !.old = NULL]
           r3 == [r2 EXCEPT !.players = players]
<1>1. rebuild[s] \in Rebuild
  OBVIOUS
<1>2. new = [rebuild EXCEPT ![s] = r3]
  BY DEF AfterCopy
<1>3. /\ r1 \in Rebuild /\ r1.at = "out" /\ r1.id = rebuild[s].id
      /\ r1.root = rebuild[s].root /\ r1.free = rebuild[s].free
  BY <1>1 DEF Rebuild
<1> HIDE DEF r1
<1>4. /\ r2 \in Rebuild /\ r2.at = "out" /\ r2.id = rebuild[s].id
      /\ r2.root = rebuild[s].root /\ r2.free = rebuild[s].free
  BY <1>3 DEF Rebuild
<1> HIDE DEF r2
<1>5. /\ r3 \in Rebuild /\ r3.at = "out" /\ r3.id = rebuild[s].id
      /\ r3.root = rebuild[s].root /\ r3.free = rebuild[s].free /\ r3.players = players
  BY <1>4 DEF Rebuild
<1> HIDE DEF r3
<1> QED
  BY <1>2, <1>5

LEMMA OutRecord ==
    ASSUME rebuild \in [Socket -> Rebuild], NEW s \in Socket, NEW root \in RoomID,
           NEW new, new = AfterOut(s, root)
    PROVE  /\ new \in [Socket -> Rebuild]
           /\ new[s].at = "remove" /\ new[s].id = rebuild[s].id /\ new[s].root = root
           /\ new[s].free = rebuild[s].free /\ new[s].players = rebuild[s].players
           /\ \A x \in Socket \ {s} : new[x] = rebuild[x]
PROOF
<1> DEFINE r1 == [rebuild[s] EXCEPT !.at = "remove"]
           r2 == [r1 EXCEPT !.root = root]
<1>1. rebuild[s] \in Rebuild
  OBVIOUS
<1>2. new = [rebuild EXCEPT ![s] = r2]
  BY DEF AfterOut
<1>3. /\ r1 \in Rebuild /\ r1.at = "remove" /\ r1.id = rebuild[s].id
      /\ r1.free = rebuild[s].free /\ r1.players = rebuild[s].players
  BY <1>1 DEF Rebuild
<1> HIDE DEF r1
<1>4. /\ r2 \in Rebuild /\ r2.at = "remove" /\ r2.id = rebuild[s].id /\ r2.root = root
      /\ r2.free = rebuild[s].free /\ r2.players = rebuild[s].players
  BY <1>3 DEF Rebuild
<1> HIDE DEF r2
<1> QED
  BY <1>2, <1>4

(* The room a timer copies: the one it has a pointer to. *)
Looked(s) == IF rebuild[s].old = NULL THEN rooms[rebuild[s].id] ELSE rebuild[s].old

LEMMA LookedType ==
    ASSUME TypeInv, NEW s \in Socket, rebuild[s].at = "copy"
    PROVE  Looked(s) \in Room
PROOF
<1>1. rebuild[s] \in Rebuild
  BY DEF TypeInv
<1>2. rebuild[s].id \in RoomID /\ rebuild[s].old \in Room \cup {NULL}
  BY <1>1 DEF Rebuild
<1>3. rebuild[s].old = NULL => rooms[rebuild[s].id] \in Room
  BY <1>2, ExistingRoom DEF TypeInv, PointersSound
<1> QED
  BY <1>2, <1>3 DEF Looked

LEMMA CopyType ==
    ASSUME TypeInv, NEW s \in Socket, Copy(s)
    PROVE  TypeInv'
PROOF
<1> DEFINE room == Looked(s)
           role == entity[s].roleid
           heirs == Successor(room.players, role, entity[s].isroomctl)
           players == Copied(room, role, heirs)
<1>1. CacheTypeOK /\ rebuild \in [Socket -> Rebuild] /\ PointersSound
  BY DEF TypeInv
<1>2. CASE Crash("FreedRoom") /\ UNCHANGED <<rebuild, joining, taken, raced>>
  <2>1. CacheTypeOK'
    BY <1>1, <1>2, CrashType DEF Fault
  <2> QED
    BY <1>2, <2>1 DEF TypeInv, PointersSound, Crash, Exists
<1>3. CASE /\ rebuild' = AfterCopy(s, players)
           /\ entity' = [x \in Socket |->
                           IF x \in SocketsAt(room.players, heirs)
                             THEN [entity[x] EXCEPT !.isroomctl = TRUE] ELSE entity[x]]
           /\ UNCHANGED <<cache, rooms, fault, joining, taken, raced>>
  <2>1. room \in Room
    BY LookedType DEF Copy, At
  <2>2. players = Rebuilt(room, role, heirs).players
    BY DEF Copied, Rebuilt
  <2>3. players \in Seq(Member)
    <3> HIDE DEF room, role, heirs, players
    <3>1. Rebuilt(room, role, heirs) \in Room
      BY <2>1, RebuiltSound
    <3> QED
      BY <2>2, <3>1 DEF Room
  <2>4. entity' \in [Socket -> Entity]
    <3>1. \A x \in Socket : [entity[x] EXCEPT !.isroomctl = TRUE] \in Entity
      BY <1>1 DEF CacheTypeOK, Entity
    <3> QED
      BY <1>1, <1>3, <3>1 DEF CacheTypeOK
  <2> HIDE DEF room, role, heirs, players
  <2>5. /\ rebuild' \in [Socket -> Rebuild] /\ rebuild'[s].at = "out"
        /\ \A x \in Socket \ {s} : rebuild'[x] = rebuild[x]
    BY <1>1, <1>3, <2>3, CopyRecord
  <2>6. CacheTypeOK'
    BY <1>1, <1>3, <2>4 DEF CacheTypeOK
  <2>7. PointersSound'
    BY <1>1, <1>3, <2>5 DEF PointersSound, Exists
  <2> QED
    BY <1>3, <2>5, <2>6, <2>7 DEF TypeInv
<1> QED
  BY <1>2, <1>3 DEF Copy, Looked, AfterCopy

LEMMA OutType ==
    ASSUME TypeInv, NEW s \in Socket, Out(s)
    PROVE  TypeInv'
PROOF
<1>1. /\ CacheTypeOK /\ rebuild \in [Socket -> Rebuild] /\ PointersSound
      /\ entity[s] \in Entity /\ entity[s].roomid \in RoomID
  BY DEF TypeInv, CacheTypeOK, Entity
<1>2. entity' \in [Socket -> Entity]
  <2> DEFINE e == [entity[s] EXCEPT !.roomid = 0]
  <2>1. e \in Entity
    BY <1>1 DEF Entity, RoomID
  <2>2. entity' = [entity EXCEPT ![s] = e]
    BY DEF Out
  <2> HIDE DEF e
  <2> QED
    BY <1>1, <2>1, <2>2 DEF CacheTypeOK
<1>3. /\ rebuild' \in [Socket -> Rebuild] /\ rebuild'[s].at = "remove"
      /\ \A x \in Socket \ {s} : rebuild'[x] = rebuild[x]
  <2>1. rebuild' = AfterOut(s, entity[s].roomid)
    BY DEF Out, AfterOut
  <2> QED
    BY <1>1, <2>1, OutRecord
<1>4. raced' \in SUBSET RoomID
  BY <1>1 DEF TypeInv, Out, LeftRooms, CacheTypeOK, Entity
<1>5. CacheTypeOK'
  BY <1>1, <1>2 DEF CacheTypeOK, Out
<1>6. PointersSound'
  BY <1>1, <1>3 DEF PointersSound, Exists, Out
<1> QED
  BY <1>3, <1>4, <1>5, <1>6 DEF TypeInv, Out

LEMMA RemoveType ==
    ASSUME TypeInv, NEW s \in Socket, Remove(s)
    PROVE  TypeInv'
PROOF
<1> DEFINE id == rebuild[s].root
           r == [rebuild[s] EXCEPT !.at = "insert"]
<1>1. rebuild[s] \in Rebuild /\ entity \in [Socket -> Entity] /\ raced \in SUBSET RoomID
  BY DEF TypeInv, CacheTypeOK
<1>2. id \in RoomID /\ r \in Rebuild /\ r.at # "copy"
  BY <1>1 DEF Rebuild
<1>3. /\ rooms' = WithoutRoom(id)
      /\ rebuild' = PointersAfter({id}, [rebuild EXCEPT ![s] = r])
      /\ joining' = Deleted(id) /\ UNCHANGED <<cache, entity, fault, taken, raced>>
  BY DEF Remove
<1> HIDE DEF id, r
<1> QED
  BY <1>1, <1>2, <1>3, RemovalType

LEMMA InsertType ==
    ASSUME TypeInv, NEW s \in Socket, Insert(s)
    PROVE  TypeInv'
PROOF
<1> DEFINE id == rebuild[s].root
           room == [free |-> rebuild[s].free, players |-> rebuild[s].players]
<1>1. CacheTypeOK /\ rebuild \in [Socket -> Rebuild] /\ rebuild[s] \in Rebuild
  BY DEF TypeInv
<1>2. id \in RoomID /\ room \in Room
  BY <1>1 DEF Rebuild, Room
<1>3. /\ rooms' = WithRoom(id, room) /\ rebuild' = [rebuild EXCEPT ![s] = NotRebuilding]
      /\ UNCHANGED <<cache, entity, fault, joining, taken, raced>>
  BY DEF Insert
<1> HIDE DEF id, room
<1>4. /\ rooms' \in [RoomID -> Room \cup {NULL}]
      /\ \A jd \in RoomID : Exists(jd) => Exists(jd)'
  BY <1>1, <1>2, <1>3, RoomAssumption DEF WithRoom, CacheTypeOK, Exists
<1>5. rebuild' \in [Socket -> Rebuild] /\ NotRebuilding.at # "copy"
  BY <1>1, <1>3, NotRebuildingType DEF NotRebuilding
<1>6. PointersSound'
  BY <1>1, <1>3, <1>4, <1>5 DEF TypeInv, PointersSound, Rebuild
<1> QED
  BY <1>1, <1>3, <1>4, <1>5, <1>6 DEF TypeInv, CacheTypeOK

LEMMA RaceInitType == RaceInit => TypeInv
PROOF
<1> SUFFICES ASSUME RaceInit
             PROVE  TypeInv
  OBVIOUS
<1>1. PICK role \in [Socket -> UserID] :
         entity = [s \in Socket |-> [NewEntity EXCEPT !.roleid = role[s]]]
  BY DEF RaceInit
<1>2. \A u \in UserID : [NewEntity EXCEPT !.roleid = u] \in Entity
  BY NewEntityType DEF Entity, RoleID
<1>3. CacheTypeOK
  BY <1>1, <1>2 DEF RaceInit, CacheTypeOK, Fault
<1>4. rebuild \in [Socket -> Rebuild] /\ joining \in Join
  BY NotRebuildingType, NotJoiningType DEF RaceInit
<1>5. PointersSound
  BY DEF RaceInit, PointersSound, NotRebuilding, NotJoining
<1> QED
  BY <1>3, <1>4, <1>5, RaceAssumption DEF RaceInit, TypeInv

LEMMA RaceNextType ==
    ASSUME TypeInv, [RaceNext]_raceVars
    PROVE  TypeInv'
PROOF
<1>1. CASE UNCHANGED raceVars
  BY <1>1 DEF raceVars, TypeInv, CacheTypeOK, PointersSound, Exists
<1>2. CASE AddMember
  BY <1>2, AddMemberType
<1>3. CASE \E s \in Socket : \E id \in RoomID : Create(s, id) \/ LeaveByJoin(s, id)
  BY <1>3, HandlersKeepTypes
<1>4. CASE \E s \in Socket : \E id \in RoomID : BeginJoin(s, id)
  BY <1>4, BeginJoinType
<1>5. CASE \E s \in Socket : Leave(s) \/ Finish(s)
  <2>1. 0 \in RoomID
    BY DEF RoomID
  <2> QED
    BY <1>5, <2>1, HandlersKeepTypes
<1>6. CASE \E s \in Socket : Timer(s)
  BY <1>6, BeginType, RemoveLastType, CopyType, OutType, RemoveType, InsertType DEF Timer
<1> QED
  BY <1>1, <1>2, <1>3, <1>4, <1>5, <1>6 DEF RaceNext, RaceStep

(* Rooms, entities and what the timers hold of them keep their types: a    *)
(* timer that copies a room never finds no room at all, only the room or   *)
(* what it was when another thread deleted it.                             *)
THEOREM RaceTypes == RaceSpec => []RaceTypeOK
PROOF
<1>1. RaceInit => TypeInv
  BY RaceInitType
<1>2. TypeInv /\ [RaceNext]_raceVars => TypeInv'
  BY RaceNextType
<1> QED
  BY <1>1, <1>2, TypeInvIsStronger, PTL DEF RaceSpec

-------------------------------------------------------------------------------
(* A room and its players *)

(* Agrees, of a table of entities. *)
AgreesIn(table, id, room) ==
    LET players == room.players
    IN  /\ room.free = PersonCount - Len(players)
        /\ players # <<>>
        /\ \A i, j \in DOMAIN players : players[i].seat = players[j].seat => i = j
        /\ \A i \in DOMAIN players :
              LET e == table[players[i].socket]
              IN  /\ e.roomid = id
                  /\ e.roleid = players[i].roleid
                  /\ e.seat = players[i].seat
                  /\ players[i].isroomctl <=> i = 1
                  /\ players[i].isroomctl => e.isroomctl

(* The room agrees with its players' entities and, but for those in out,   *)
(* lists everybody who is told to be in it.                                *)
Whole(table, id, room, out) ==
    /\ AgreesIn(table, id, room)
    /\ \A x \in Socket \ out : table[x].roomid = id => Lists(room, x)

(* What an entity says of the room id, before and after a step. *)
Steady(e, f, id) ==
    /\ f.roleid = e.roleid
    /\ e.isroomctl => f.isroomctl
    /\ e.roomid = id => f.seat = e.seat
    /\ f.roomid = id <=> e.roomid = id

LEMMA RoomPlayers ==
    ASSUME NEW room \in Room
    PROVE  /\ room.free \in Int /\ room.players \in Seq(Member) /\ Len(room.players) \in Nat
           /\ DOMAIN room.players = 1..Len(room.players)
           /\ \A i \in DOMAIN room.players :
                 room.players[i] \in Member /\ room.players[i].socket \in Socket
PROOF
<1>1. room.free \in Int /\ room.players \in Seq(Member)
  BY DEF Room
<1>2. \A i \in DOMAIN room.players : room.players[i] \in Member
  BY <1>1
<1> QED
  BY <1>1, <1>2 DEF Member

(* A room stays whole while what its players' entities say of it stays.    *)
LEMMA WholeKept ==
    ASSUME NEW before, NEW after, NEW id, NEW room \in Room, NEW out, NEW gone \in SUBSET out,
           Whole(before, id, room, out),
           \A x \in Socket \ gone : Steady(before[x], after[x], id),
           \A x \in gone : ~Lists(room, x)
    PROVE  Whole(after, id, room, out)
PROOF
<1> DEFINE players == room.players
<1>1. \A i \in DOMAIN players : players[i].socket \in Socket
  BY RoomPlayers
<1>2. \A i \in DOMAIN players : players[i].socket \in Socket \ gone
  BY <1>1 DEF Lists
<1>3. \A i \in DOMAIN players : before[players[i].socket].roomid = id
  BY DEF Whole, AgreesIn
<1>4. AgreesIn(after, id, room)
  BY <1>2, <1>3 DEF Whole, AgreesIn, Steady
<1>5. \A x \in Socket \ out : after[x].roomid = id => Lists(room, x)
  BY DEF Whole, Steady
<1> QED
  BY <1>4, <1>5 DEF Whole

(* A new room of one player. *)
LEMMA WholeNew ==
    ASSUME NEW table, NEW id, NEW m, NEW s \in Socket,
           m.socket = s, m.isroomctl = TRUE,
           table[s].roomid = id, table[s].roleid = m.roleid, table[s].seat = m.seat,
           table[s].isroomctl = TRUE,
           \A x \in Socket \ {s} : table[x].roomid # id
    PROVE  Whole(table, id, NewRoom(m), {})
PROOF
<1> DEFINE room == NewRoom(m)
<1>1. /\ room.free = PersonCount - 1 /\ room.players = <<m>>
      /\ DOMAIN room.players = {1} /\ room.players[1] = m /\ Len(room.players) = 1
  BY DEF NewRoom
<1>2. room.players # <<>>
  BY <1>1
<1> HIDE DEF room
<1>3. AgreesIn(table, id, room)
  BY <1>1, <1>2 DEF AgreesIn
<1>4. Lists(room, s)
  BY <1>1 DEF Lists
<1> QED
  BY <1>3, <1>4 DEF Whole, room

(* A player comes in, on a seat that nobody has. *)
LEMMA WholeGrown ==
    ASSUME NEW before, NEW after, NEW id, NEW room \in Room, Whole(before, id, room, {}),
           NEW s \in Socket, before[s].roomid # id,
           NEW m \in Member, m.socket = s, ~m.isroomctl, m.seat \notin SeatsOf(room),
           after[s].roomid = id, after[s].roleid = m.roleid, after[s].seat = m.seat,
           \A x \in Socket \ {s} : after[x] = before[x],
           NEW grown, grown.free = room.free - 1, grown.players = Append(room.players, m)
    PROVE  Whole(after, id, grown, {})
PROOF
<1> DEFINE old == room.players
           n == Len(old)
<1>1. /\ old \in Seq(Member) /\ n \in Nat /\ DOMAIN old = 1..n
      /\ \A i \in 1..n : old[i].socket \in Socket
      /\ room.free = PersonCount - n /\ old # <<>>
  BY RoomPlayers DEF Whole, AgreesIn
<1>2. /\ DOMAIN grown.players = 1..n + 1 /\ Len(grown.players) = n + 1
      /\ \A i \in 1..n : grown.players[i] = old[i]
      /\ grown.players[n + 1] = m
  BY <1>1
<1>3. n # 0
  BY <1>1
<1>4. \A i \in 1..n : /\ old[i].socket \in Socket /\ before[old[i].socket].roomid = id
                      /\ old[i].seat # m.seat
  BY <1>1 DEF Whole, AgreesIn, SeatsOf
<1>5. \A i \in 1..n : after[old[i].socket] = before[old[i].socket]
  BY <1>4
<1>6. grown.free = PersonCount - Len(grown.players) /\ grown.players # <<>>
  BY <1>1, <1>2, <1>3, PersonCountNat
<1>7. \A i, j \in 1..n : old[i].seat = old[j].seat => i = j
  BY <1>1 DEF Whole, AgreesIn
<1>8. \A i \in 1..n : LET e == after[old[i].socket]
                      IN  /\ e.roomid = id
                          /\ e.roleid = old[i].roleid
                          /\ e.seat = old[i].seat
                          /\ old[i].isroomctl <=> i = 1
                          /\ old[i].isroomctl => e.isroomctl
  BY <1>1, <1>5 DEF Whole, AgreesIn
<1>9. \A x \in Socket : before[x].roomid = id => \E i \in 1..n : old[i].socket = x
  BY <1>1 DEF Whole, Lists
<1> HIDE DEF n, old
<1>10. ASSUME NEW i \in 1..n + 1, NEW j \in 1..n + 1,
              grown.players[i].seat = grown.players[j].seat
       PROVE  i = j
  <2>1. (i \in 1..n \/ i = n + 1) /\ (j \in 1..n \/ j = n + 1)
    BY <1>1
  <2> QED
    BY <1>2, <1>4, <1>7, <1>10, <2>1
<1>11. ASSUME NEW i \in 1..n + 1
       PROVE  LET e == after[grown.players[i].socket]
              IN  /\ e.roomid = id
                  /\ e.roleid = grown.players[i].roleid
                  /\ e.seat = grown.players[i].seat
                  /\ grown.players[i].isroomctl <=> i = 1
                  /\ grown.players[i].isroomctl => e.isroomctl
  <2>1. CASE i \in 1..n
    <3>1. grown.players[i] = old[i]
      BY <1>2, <2>1
    <3> QED
      BY ONLY <1>8, <2>1, <3>1
  <2>2. CASE i = n + 1
    BY <1>1, <1>2, <1>3, <2>2
  <2>3. i \in 1..n \/ i = n + 1
    BY <1>1
  <2> QED
    BY <2>1, <2>2, <2>3
<1>12. AgreesIn(after, id, grown)
  BY <1>2, <1>6, <1>10, <1>11 DEF AgreesIn
<1>13. \A x \in Socket : after[x].roomid = id => Lists(grown, x)
  <2> SUFFICES ASSUME NEW x \in Socket, after[x].roomid = id
               PROVE  \E i \in 1..n + 1 : grown.players[i].socket = x
    BY <1>2 DEF Lists
  <2>1. CASE x = s
    BY <1>1, <1>2, <2>1
  <2>2. CASE x # s
    <3>1. PICK i \in 1..n : old[i].socket = x
      BY <1>9, <2>2
    <3> QED
      BY <1>1, <1>2, <3>1
  <2> QED
    BY <2>1, <2>2
<1> QED
  BY <1>12, <1>13 DEF Whole

(* Players have different roles; they got them before the race began. *)
RolesDiffer == \A s, x \in Socket : entity[s].roleid = entity[x].roleid => s = x

(* Who is listed is listed once, and a rebuild that leaves out the entries *)
(* of its role leaves out that one.                                        *)
LEMMA ListedOnce ==
    ASSUME CacheTypeOK, RolesDiffer, NEW id, NEW room \in Room, Whole(entity, id, room, {}),
           NEW s \in Socket, entity[s].roomid = id
    PROVE  \E own \in 1..Len(room.players) :
              /\ room.players[own].socket = s
              /\ \A i \in DOMAIN room.players : room.players[i].socket = s => i = own
              /\ Others(room.players, entity[s].roleid) = DOMAIN room.players \ {own}
PROOF
<1> DEFINE players == room.players
<1>1. /\ DOMAIN players = 1..Len(players)
      /\ \A i \in DOMAIN players : players[i].socket \in Socket
  BY RoomPlayers
<1>2. PICK own \in DOMAIN players : players[own].socket = s
  BY DEF Whole, Lists
<1>3. \A i \in DOMAIN players : /\ entity[players[i].socket].roleid = players[i].roleid
                                /\ entity[players[i].socket].seat = players[i].seat
  BY DEF Whole, AgreesIn
<1>4. \A i \in DOMAIN players : players[i].socket = s => i = own
  BY <1>2, <1>3 DEF Whole, AgreesIn
<1>5. \A i \in DOMAIN players : players[i].roleid = entity[s].roleid <=> i = own
  BY <1>1, <1>2, <1>3, <1>4 DEF RolesDiffer
<1> QED
  BY <1>1, <1>2, <1>4, <1>5 DEF Others

(* The count says that somebody is the last player: nobody else is told to *)
(* be in the room.                                                         *)
LEMMA WholeAlone ==
    ASSUME NEW table, NEW id, NEW room \in Room, Whole(table, id, room, {}), LastLeaves(room),
           NEW s \in Socket, table[s].roomid = id
    PROVE  \A x \in Socket : table[x].roomid = id => x = s
PROOF
<1> DEFINE players == room.players
<1>1. Len(players) \in Nat /\ DOMAIN players = 1..Len(players) /\ room.free \in Int
  BY RoomPlayers
<1>2. room.free = PersonCount - Len(players) /\ room.free + 1 = PersonCount
  BY DEF Whole, AgreesIn, LastLeaves
<1>3. Len(players) = 1
  <2> DEFINE n == Len(players)
  <2>1. n \in Nat /\ PersonCount \in Nat /\ room.free \in Int
    BY <1>1, PersonCountNat
  <2>2. room.free = PersonCount - n /\ room.free + 1 = PersonCount
    BY <1>2
  <2> HIDE DEF n
  <2>3. n = 1
    BY ONLY <2>1, <2>2
  <2> QED
    BY <2>3 DEF n
<1>4. \A x \in Socket : table[x].roomid = id => players[1].socket = x
  BY <1>1, <1>3 DEF Whole, Lists
<1> QED
  BY <1>4

(* A player goes out: the rebuilt room is whole but for that player, whom  *)
(* it does not list, and its captain is the first of the others.           *)
LEMMA WholeRebuilt ==
    ASSUME CacheTypeOK, RolesDiffer, NEW id, NEW room \in Room, Whole(entity, id, room, {}),
           NEW s \in Socket, entity[s].roomid = id, ~LastLeaves(room),
           NEW role, role = entity[s].roleid, NEW heirs,
           \/ heirs = Successor(room.players, role, entity[s].isroomctl)
           \/ heirs = SuccessorBehind(room.players, role),
           NEW table,
           \A x \in Socket \ {s} : Steady(entity[x], table[x], id),
           \A x \in SocketsAt(room.players, heirs) : table[x].isroomctl,
           NEW new, new = Rebuilt(room, role, heirs)
    PROVE  new \in Room /\ Whole(table, id, new, {s}) /\ ~Lists(new, s)
PROOF
<1> DEFINE players == room.players
           n == Len(players)
<1>1. /\ players \in Seq(Member) /\ n \in Nat /\ DOMAIN players = 1..n
      /\ room.free \in Int /\ \A i \in 1..n : players[i].socket \in Socket
  BY RoomPlayers
<1>2. PICK own \in 1..n :
         /\ players[own].socket = s
         /\ \A i \in 1..n : players[i].socket = s => i = own
         /\ Others(players, role) = DOMAIN players \ {own}
  <2>1. \E own \in 1..n :
           /\ players[own].socket = s
           /\ \A i \in DOMAIN players : players[i].socket = s => i = own
           /\ Others(players, role) = DOMAIN players \ {own}
    BY ListedOnce
  <2> QED
    BY <1>1, <2>1
<1>3. /\ room.free = PersonCount - n
      /\ \A i, j \in 1..n : players[i].seat = players[j].seat => i = j
      /\ \A i \in 1..n : /\ entity[players[i].socket].roomid = id
                         /\ entity[players[i].socket].roleid = players[i].roleid
                         /\ entity[players[i].socket].seat = players[i].seat
                         /\ players[i].isroomctl <=> i = 1
                         /\ players[i].isroomctl => entity[players[i].socket].isroomctl
      /\ \A x \in Socket : entity[x].roomid = id => \E i \in 1..n : players[i].socket = x
  BY <1>1 DEF Whole, AgreesIn, Lists
<1>4. n > 1
  BY <1>1, <1>2, <1>3, PersonCountNat DEF LastLeaves
<1>5. entity[s].isroomctl \in BOOLEAN /\ (players[own].isroomctl => entity[s].isroomctl)
  BY <1>2, <1>3 DEF CacheTypeOK, Entity
<1>6. /\ new \in Room /\ new.free = room.free + 1
      /\ CopiesAllBut(own, players, n, heirs, new.players)
  BY <1>1, <1>2, RebuiltWithoutOwn
<1>a. players = room.players /\ n = Len(players)
  OBVIOUS
<1> HIDE DEF n, players
<1>7. heirs \in SUBSET {Skip(own, 1)} /\ (own = 1 => heirs = {Skip(own, 1)})
  <2> DEFINE captain == entity[s].isroomctl
  <2>1. \/ heirs = Successor(players, role, captain)
        \/ heirs = SuccessorBehind(players, role)
    BY <1>a
  <2>2. captain \in BOOLEAN /\ (players[own].isroomctl => captain)
    BY <1>5
  <2>3. /\ players \in Seq(Member) /\ n \in Nat /\ n = Len(players) /\ DOMAIN players = 1..n
        /\ Others(players, role) = DOMAIN players \ {own}
    BY <1>1, <1>2, <1>a
  <2>4. \A i \in DOMAIN players : players[i].isroomctl <=> i = 1
    BY <1>3, <2>3
  <2> HIDE DEF captain
  <2> QED
    BY ONLY own \in 1..n, <1>4, <2>1, <2>2, <2>3, <2>4, HeirsSound
<1>8. /\ \A k \in 1..(n - 1) : Skip(own, k) \in 1..n /\ Skip(own, k) # own
      /\ \A k, j \in 1..(n - 1) : Skip(own, k) = Skip(own, j) => k = j
      /\ \A i \in 1..n : i # own => \E k \in 1..(n - 1) : Skip(own, k) = i
      /\ \A k \in 1..(n - 1) : own # 1 => (Skip(own, k) = 1 <=> k = 1)
      /\ \A k \in 1..(n - 1) : own = 1 => Skip(own, k) = k + 1
  BY ONLY <1>1, own \in 1..n, SkipSound
<1>9. /\ DOMAIN new.players = 1..(n - 1) /\ Len(new.players) = n - 1
      /\ \A k \in 1..(n - 1) :
            /\ new.players[k].seat = players[Skip(own, k)].seat
            /\ new.players[k].roleid = players[Skip(own, k)].roleid
            /\ new.players[k].socket = players[Skip(own, k)].socket
            /\ new.players[k].isroomctl
                  <=> (Skip(own, k) \in heirs \/ players[Skip(own, k)].isroomctl)
  BY <1>6 DEF CopiesAllBut
<1>10. ASSUME NEW k \in 1..(n - 1)
       PROVE  new.players[k].socket \in Socket \ {s}
  <2> DEFINE i == Skip(own, k)
  <2>1. i \in 1..n /\ i # own /\ new.players[k].socket = players[i].socket
    BY <1>8, <1>9
  <2> HIDE DEF i
  <2> QED
    BY <1>1, <1>2, <2>1
<1>11. new.free = PersonCount - Len(new.players) /\ new.players # <<>>
  <2>1. PersonCount \in Int
    BY PersonCountNat
  <2>2. new.free = PersonCount - (n - 1)
    BY <1>1, <1>3, <1>6, <2>1
  <2>3. n - 1 # 0
    BY <1>1, <1>4
  <2> QED
    BY <1>9, <2>2, <2>3
<1>12. \A k \in 1..(n - 1) : (Skip(own, k) \in heirs \/ Skip(own, k) = 1) <=> k = 1
  <2>1. n - 1 \in Nat \ {0}
    BY <1>1, <1>4
  <2>2. CASE own = 1
    <3>1. heirs = {2} /\ \A k \in 1..(n - 1) : Skip(own, k) = k + 1
      BY <1>1, <1>4, <1>7, <1>8, <2>1, <2>2
    <3> QED
      BY <3>1
  <2>3. CASE own # 1
    <3>1. heirs \subseteq {1} /\ \A k \in 1..(n - 1) : Skip(own, k) = 1 <=> k = 1
      BY <1>1, <1>4, <1>7, <1>8, <2>1, <2>3
    <3> QED
      BY <3>1
  <2> QED
    BY <2>2, <2>3
<1>13. ASSUME NEW k \in 1..(n - 1)
       PROVE  LET e == table[new.players[k].socket]
              IN  /\ e.roomid = id
                  /\ e.roleid = new.players[k].roleid
                  /\ e.seat = new.players[k].seat
                  /\ new.players[k].isroomctl <=> k = 1
                  /\ new.players[k].isroomctl => e.isroomctl
  <2> DEFINE i == Skip(own, k)
             x == players[i].socket
  <2>1. /\ i \in 1..n /\ x \in Socket \ {s} /\ new.players[k].socket = x
        /\ new.players[k].seat = players[i].seat /\ new.players[k].roleid = players[i].roleid
        /\ new.players[k].isroomctl <=> (i \in heirs \/ players[i].isroomctl)
        /\ (i \in heirs \/ i = 1) <=> k = 1
    BY <1>8, <1>9, <1>10, <1>12
  <2>2. Steady(entity[x], table[x], id)
    BY <2>1
  <2>3. i \in heirs => table[x].isroomctl
    BY <1>a DEF SocketsAt
  <2> HIDE DEF i
  <2> QED
    BY <1>3, <2>1, <2>2, <2>3 DEF Steady
<1>14. \A j, k \in 1..(n - 1) : new.players[j].seat = new.players[k].seat => j = k
  <2> SUFFICES ASSUME NEW j \in 1..(n - 1), NEW k \in 1..(n - 1),
                      new.players[j].seat = new.players[k].seat
               PROVE  j = k
    OBVIOUS
  <2>1. players[Skip(own, j)].seat = players[Skip(own, k)].seat
    BY ONLY j \in 1..(n - 1), k \in 1..(n - 1), <1>9, new.players[j].seat = new.players[k].seat
  <2>2. Skip(own, j) = Skip(own, k)
    BY <1>3, <1>8, <2>1
  <2> QED
    BY <1>8, <2>2
<1>15. AgreesIn(table, id, new)
  BY ONLY <1>9, <1>11, <1>13, <1>14 DEF AgreesIn
<1>16. \A x \in Socket \ {s} : table[x].roomid = id => Lists(new, x)
  <2> SUFFICES ASSUME NEW x \in Socket \ {s}, table[x].roomid = id
               PROVE  \E k \in 1..(n - 1) : new.players[k].socket = x
    BY <1>9 DEF Lists
  <2>1. PICK i \in 1..n : players[i].socket = x
    BY <1>3 DEF Steady
  <2>2. PICK k \in 1..(n - 1) : Skip(own, k) = i
    BY <1>2, <1>8, <2>1
  <2> QED
    BY <1>9, <2>1, <2>2
<1>17. ~Lists(new, s)
  BY <1>9, <1>10 DEF Lists
<1> QED
  BY <1>6, <1>15, <1>16, <1>17 DEF Whole

-------------------------------------------------------------------------------
(* A room through the steps of those who work on it *)

Works(s, id) == rebuild[s].at # "idle" /\ id \in {rebuild[s].id, rebuild[s].root}
Joins(id) == joining.at = "add" /\ joining.id = id
AtRest(id) == ~Joins(id) /\ \A s \in Socket : ~Works(s, id)

(* The room that a timer is building, and the one a join is about to leave. *)
NewRoomOf(s) == [free |-> rebuild[s].free, players |-> rebuild[s].players]
Entry ==
    [socket |-> joining.socket, roleid |-> entity[joining.socket].roleid,
     isroomctl |-> FALSE, seat |-> joining.seat]
Grown(room, entry) == [free |-> room.free, players |-> Append(room.players, entry)]

Vacant(id) == rooms[id] = NULL /\ \A x \in Socket : entity[x].roomid # id
Settled(id) == Vacant(id) \/ (Exists(id) /\ Whole(entity, id, rooms[id], {}))

(* While a timer looks at the room, the room is whole; from then on the    *)
(* new one is, but for the player it leaves out.                           *)
Progress(s, id) ==
    LET at == rebuild[s].at
    IN  /\ rebuild[s].id = id /\ rebuild[s].root = id
        /\ at \in {"last", "copy"} =>
              Exists(id) /\ entity[s].roomid = id /\ Whole(entity, id, rooms[id], {})
        /\ at = "last" => LastLeaves(rooms[id])
        /\ at = "copy" => /\ ~LastLeaves(rooms[id])
                          /\ rebuild[s].free = rooms[id].free + 1
                          /\ rebuild[s].old = NULL
        /\ at \in {"out", "remove", "insert"} => Whole(entity, id, NewRoomOf(s), {s})
        /\ at = "out" => entity[s].roomid = id /\ ~Lists(NewRoomOf(s), s)
        /\ at \in {"remove", "insert"} => entity[s].roomid # id
        /\ at = "insert" => rooms[id] = NULL

(* The room will be whole with the entry that a join is going to add. *)
Expecting(id) == Exists(id) /\ Whole(entity, id, Grown(rooms[id], Entry), {})

(* One thread at most works on the room, and what it will leave behind is  *)
(* a whole room or none.                                                   *)
Clean(id) ==
    /\ \A s, x \in Socket : Works(s, id) /\ Works(x, id) => s = x
    /\ \A s \in Socket : Works(s, id) => ~Joins(id) /\ Progress(s, id)
    /\ Joins(id) => Expecting(id)
    /\ AtRest(id) => Settled(id)

RaceInv ==
    /\ TypeInv
    /\ cache = Socket
    /\ RolesDiffer
    /\ \A id \in RandomID \ raced : Clean(id)

LEMMA RestIsNotBusy ==
    ASSUME NEW id
    PROVE  Busy(id) <=> ~AtRest(id)
BY DEF Busy, Rebuilders, Rebuilding, AtRest, Works, Joins

LEMMA GrownType ==
    ASSUME TypeInv, NEW room \in Room, joining.at = "add"
    PROVE  Entry \in Member /\ Grown(room, Entry) \in Room
PROOF
<1>1. joining.socket \in Socket /\ joining.seat \in Seat
  BY DEF TypeInv, PointersSound, Join
<1>2. Entry \in Member
  BY <1>1 DEF TypeInv, CacheTypeOK, Entity, Entry, Member, SeatName
<1>3. Append(room.players, Entry) \in Seq(Member) /\ room.free \in Int
  BY <1>2 DEF Room
<1> QED
  BY <1>2, <1>3 DEF Grown, Room

LEMMA NewRoomOfType ==
    ASSUME TypeInv, NEW s \in Socket
    PROVE  NewRoomOf(s) \in Room
BY DEF TypeInv, Rebuild, NewRoomOf, Room

(* Nothing that Clean says of the room id changes. *)
Unmoved(id) ==
    /\ rooms'[id] = rooms[id]
    /\ \A x \in Socket : /\ Steady(entity[x], entity'[x], id)
                         /\ Works(x, id)' <=> Works(x, id)
                         /\ Works(x, id) => rebuild'[x] = rebuild[x]
    /\ Joins(id)' <=> Joins(id)
    /\ Joins(id) => joining'.socket = joining.socket /\ joining'.seat = joining.seat

LEMMA WholeUnmoved ==
    ASSUME NEW id, Unmoved(id), NEW room \in Room, NEW out, Whole(entity, id, room, out)
    PROVE  Whole(entity', id, room, out)
PROOF
<1>1. {} \in SUBSET out /\ \A x \in Socket \ {} : Steady(entity[x], entity'[x], id)
  BY DEF Unmoved
<1> QED
  BY <1>1, WholeKept

LEMMA CleanUnmoved ==
    ASSUME TypeInv, NEW id \in RandomID, Clean(id), Unmoved(id)
    PROVE  Clean(id)'
PROOF
<1>1. id \in RoomID /\ (Exists(id)' <=> Exists(id)) /\ (Exists(id) => rooms[id] \in Room)
  BY ExistingRoom DEF RoomID, Unmoved, Exists, TypeInv
<1>2. ASSUME NEW s \in Socket, Works(s, id)
      PROVE  Progress(s, id)'
  <2>1. /\ Progress(s, id) /\ rebuild'[s] = rebuild[s]
        /\ rooms'[id] = rooms[id] /\ NewRoomOf(s)' = NewRoomOf(s)
        /\ entity'[s].roomid = id <=> entity[s].roomid = id
    BY <1>2 DEF Clean, Unmoved, NewRoomOf, Steady
  <2>2. NewRoomOf(s) \in Room
    BY NewRoomOfType
  <2>3. Whole(entity, id, NewRoomOf(s), {s}) => Whole(entity', id, NewRoomOf(s), {s})
    BY <2>2, WholeUnmoved
  <2>4. Exists(id) /\ Whole(entity, id, rooms[id], {}) => Whole(entity', id, rooms[id], {})
    BY <1>1, WholeUnmoved
  <2> QED
    BY <1>1, <2>1, <2>3, <2>4 DEF Progress
<1>3. Joins(id) => Expecting(id)'
  <2> SUFFICES ASSUME Joins(id)
               PROVE  Expecting(id)'
    OBVIOUS
  <2>1. Expecting(id) /\ joining.socket \in Socket
    BY DEF Clean, Joins, TypeInv, PointersSound
  <2>2. Entry' = Entry
    BY <2>1 DEF Entry, Unmoved, Steady
  <2>3. Grown(rooms[id], Entry) \in Room
    BY <1>1, <2>1, GrownType DEF Expecting, Joins
  <2>4. Whole(entity', id, Grown(rooms[id], Entry), {})
    BY <2>1, <2>3, WholeUnmoved DEF Expecting
  <2> QED
    BY <1>1, <2>1, <2>2, <2>4 DEF Expecting, Unmoved, Grown
<1>4. Settled(id) => Settled(id)'
  <2>1. Vacant(id) => Vacant(id)'
    BY DEF Vacant, Unmoved, Steady
  <2>2. Exists(id) /\ Whole(entity, id, rooms[id], {}) => Whole(entity', id, rooms[id], {})
    BY <1>1, WholeUnmoved
  <2> QED
    BY <1>1, <2>1, <2>2 DEF Settled, Unmoved
<1>5. AtRest(id)' <=> AtRest(id)
  BY DEF AtRest, Unmoved
<1> QED
  BY <1>2, <1>3, <1>4, <1>5 DEF Clean, Unmoved

-------------------------------------------------------------------------------
(* The worker's handlers keep the rooms clean *)

(* Of all rooms but jd the step changes nothing, and of the entities only  *)
(* whether their players are in jd or in none, and who is captain.         *)
Within(jd) ==
    /\ \A id \in RoomID \ {jd} : rooms'[id] = rooms[id]
    /\ \A x \in Socket : /\ entity'[x].roleid = entity[x].roleid
                         /\ entity[x].isroomctl => entity'[x].isroomctl
                         /\ entity'[x].roomid \in {entity[x].roomid, 0, jd}
                         /\ entity'[x].roomid \notin {0, jd} => entity'[x].seat = entity[x].seat

(* Nobody is told to leave another room if that stays clean. *)
LEMMA SteadyWithin ==
    ASSUME NEW jd \in RoomID, Within(jd), NEW id \in RandomID, id # jd, id \notin LeftRooms
    PROVE  rooms'[id] = rooms[id] /\ \A x \in Socket : Steady(entity[x], entity'[x], id)
PROOF
<1>1. id # 0 /\ id \in RoomID
  BY RoomAssumption DEF RoomID
<1>2. \A x \in Socket : entity[x].roomid = id => entity'[x].roomid = id
  BY DEF LeftRooms
<1> QED
  BY <1>1, <1>2 DEF Within, Steady

(* The pointers of the timers to a room that is not deleted. *)
LEMMA PointersUnmoved ==
    ASSUME NEW id, Clean(id), NEW gone, id \notin gone,
           NEW table, \A s \in Socket : Works(s, id) => table[s] = rebuild[s],
           NEW new, new = PointersAfter(gone, table)
    PROVE  \A s \in Socket : Works(s, id) => new[s] = rebuild[s]
PROOF
<1>1. \A s \in Socket : table[s].id \notin gone => new[s] = table[s]
  BY DEF PointersAfter
<1> QED
  BY <1>1 DEF Clean, Progress

(* What a handler does to the timers and to the join, none of which it is. *)
LEMMA HandlerLeavesWork ==
    ASSUME TypeInv, NEW jd \in RoomID, Handler({jd})
    PROVE  /\ joining' = joining
           /\ \A s \in Socket, id \in RoomID : Works(s, id)' <=> Works(s, id)
           /\ \A id \in RandomID \ {jd} : Clean(id) /\ rooms'[id] = rooms[id] =>
                 \A s \in Socket : Works(s, id) => rebuild'[s] = rebuild[s]
PROOF
<1> DEFINE gone == Replaced
<1>1. rebuild' = PointersAfter(gone, rebuild) /\ gone \in SUBSET RoomID /\ joining' = joining
  BY DEF Handler, Replaced
<1>2. /\ CacheTypeOK /\ rebuild \in [Socket -> Rebuild]
      /\ \A s \in Socket :
            rebuild[s].at = "copy" /\ rebuild[s].old = NULL => Exists(rebuild[s].id)
  BY DEF TypeInv, PointersSound
<1>3. ASSUME NEW id \in RoomID, rooms'[id] = rooms[id]
      PROVE  id \notin gone
  <2>1. Exists(id) => rooms[id] # NULL /\ rooms[id].free \in Int
    BY <1>2, ExistingRoom DEF Exists, Room
  <2>2. Exists(id) => ~(rooms'[id].free > rooms[id].free)
    BY <1>3, <2>1
  <2> QED
    BY <1>3, <2>1, <2>2 DEF Replaced
<1> HIDE DEF gone
<1>4. \A s \in Socket : /\ rebuild'[s].at = rebuild[s].at /\ rebuild'[s].id = rebuild[s].id
                        /\ rebuild'[s].root = rebuild[s].root
  BY <1>1, <1>2, PointersAfterSound
<1>5. \A id \in RandomID \ {jd} : Clean(id) /\ rooms'[id] = rooms[id] =>
         \A s \in Socket : Works(s, id) => rebuild'[s] = rebuild[s]
  <2> SUFFICES ASSUME NEW id \in RandomID \ {jd}, Clean(id), rooms'[id] = rooms[id]
               PROVE  \A s \in Socket : Works(s, id) => rebuild'[s] = rebuild[s]
    OBVIOUS
  <2>1. id \notin gone /\ id \in RandomID
    BY <1>3 DEF RoomID
  <2> QED
    BY <1>1, <1>2, <2>1, PointersUnmoved
<1> QED
  BY <1>1, <1>4, <1>5 DEF Works

(* A handler keeps all rooms clean if it leaves its own one settled. *)
LEMMA HandlerKeepsClean ==
    ASSUME RaceInv, NEW jd \in RoomID, Handler({jd}), Within(jd),
           jd \in RandomID \ raced' => Settled(jd)'
    PROVE  \A id \in RandomID \ raced' : Clean(id)'
PROOF
<1> SUFFICES ASSUME NEW id \in RandomID \ raced'
             PROVE  Clean(id)'
  OBVIOUS
<1>1. /\ id \in RoomID /\ id # 0 /\ id \notin raced /\ TypeInv /\ Clean(id)
      /\ id \notin LeftRooms \/ id = jd
      /\ id = jd => ~Busy(id)
  BY RoomAssumption DEF RaceInv, RoomID, Handler, Races
<1>2. /\ joining' = joining
      /\ \A s \in Socket : Works(s, id)' <=> Works(s, id)
      /\ id # jd /\ rooms'[id] = rooms[id] =>
            \A s \in Socket : Works(s, id) => rebuild'[s] = rebuild[s]
  BY <1>1, HandlerLeavesWork
<1>3. CASE id = jd
  <2>1. AtRest(id)
    BY <1>1, <1>3, RestIsNotBusy
  <2>2. ~Joins(id)' /\ \A s \in Socket : ~Works(s, id)'
    BY <1>2, <2>1 DEF AtRest, Joins
  <2> QED
    BY <1>3, <2>2 DEF Clean
<1>4. CASE id # jd
  <2>1. rooms'[id] = rooms[id] /\ \A x \in Socket : Steady(entity[x], entity'[x], id)
    BY <1>1, <1>4, SteadyWithin
  <2>2. Unmoved(id)
    BY <1>2, <1>4, <2>1 DEF Unmoved, Joins
  <2> QED
    BY <1>1, <2>2, CleanUnmoved
<1> QED
  BY <1>3, <1>4

(* What is to be shown of every step. *)
StaysClean ==
    /\ cache' = cache
    /\ \A x \in Socket : entity'[x].roleid = entity[x].roleid
    /\ \A id \in RandomID \ raced' : Clean(id)'

LEMMA CreateClean ==
    ASSUME RaceInv, NEW s \in Socket, NEW id \in RoomID, Create(s, id)
    PROVE  StaysClean
PROOF
<1> DEFINE m == [socket |-> s, roleid |-> entity[s].roleid, isroomctl |-> TRUE, seat |-> FirstSeat]
           told == [entity[s] EXCEPT !.isroomctl = TRUE, !.roomid = id, !.seat = FirstSeat]
<1>1. /\ id \in RandomID /\ ~Exists(id) /\ cache' = cache /\ entity[s].roomid = 0
      /\ rooms' = [rooms EXCEPT ![id] = NewRoom(m)] /\ entity' = [entity EXCEPT ![s] = told]
  BY DEF Create, CreateRoom, GenrateOnlyRoomID, WithRoom, RoomID
<1>2. CacheTypeOK /\ entity[s] \in Entity /\ m \in Member
  BY FirstSeatIsSeat DEF RaceInv, TypeInv, CacheTypeOK, Entity, Member
<1>3. /\ told.roleid = entity[s].roleid /\ told.isroomctl = TRUE /\ told.roomid = id
      /\ told.seat = FirstSeat
  BY <1>2 DEF Entity
<1>4. /\ m.socket = s /\ m.roleid = entity[s].roleid /\ m.isroomctl = TRUE
      /\ m.seat = FirstSeat
  OBVIOUS
<1> HIDE DEF told, m
<1>5. /\ rooms'[id] = NewRoom(m) /\ \A jd \in RoomID \ {id} : rooms'[jd] = rooms[jd]
      /\ entity'[s] = told /\ \A x \in Socket \ {s} : entity'[x] = entity[x]
  BY <1>1, <1>2 DEF CacheTypeOK
<1>6. Within(id)
  BY <1>3, <1>5 DEF Within
<1>7. ASSUME id \in RandomID \ raced'
      PROVE  Settled(id)'
  <2>1. AtRest(id) /\ Clean(id)
    BY <1>7, RestIsNotBusy DEF Create, Handler, Races, RaceInv
  <2>2. \A x \in Socket : entity[x].roomid # id
    BY <1>1, <2>1 DEF Clean, Settled, Vacant
  <2>3. \A x \in Socket \ {s} : entity'[x].roomid # id
    BY <1>5, <2>2
  <2>4. NewRoom(m) \in Room
    BY <1>2, NewRoomType
  <2>5. Whole(entity', id, NewRoom(m), {})
    <3> DEFINE after == entity'
    <3>1. /\ after[s].roomid = id /\ after[s].roleid = m.roleid /\ after[s].seat = m.seat
          /\ after[s].isroomctl = TRUE /\ m.socket = s /\ m.isroomctl = TRUE
          /\ \A x \in Socket \ {s} : after[x].roomid # id
      BY <1>3, <1>4, <1>5, <2>3
    <3> HIDE DEF after
    <3>2. Whole(after, id, NewRoom(m), {})
      BY ONLY s \in Socket, <3>1, WholeNew
    <3> QED
      BY <3>2 DEF after
  <2> QED
    BY <1>5, <2>4, <2>5, RoomAssumption DEF Settled, Exists
<1>8. Handler({id})
  BY DEF Create
<1> QED
  BY <1>1, <1>6, <1>7, <1>8, HandlerKeepsClean DEF StaysClean, Within

(* A player leaves a room that is whole, with either choice of an heir. *)
LEMMA LeavingSettles ==
    ASSUME CacheTypeOK, cache = Socket, RolesDiffer, NEW id \in RandomID, NEW s \in Socket,
           entity[s].roomid = id, Exists(id), Whole(entity, id, rooms[id], {}),
           NEW heirs,
           \/ heirs = Successor(rooms[id].players, entity[s].roleid, entity[s].isroomctl)
           \/ heirs = SuccessorBehind(rooms[id].players, entity[s].roleid),
           \/ /\ LastLeaves(rooms[id])
              /\ rooms' = WithoutRoom(id)
              /\ entity' = Departed(s, {})
           \/ /\ ~LastLeaves(rooms[id])
              /\ rooms' = [rooms EXCEPT ![id] = Rebuilt(rooms[id], entity[s].roleid, heirs)]
              /\ entity' = Departed(s, SocketsAt(rooms[id].players, heirs))
    PROVE  Settled(id)'
PROOF
<1>1. id \in RoomID /\ id # 0 /\ rooms[id] \in Room
  BY RoomAssumption, ExistingRoom DEF RoomID
<1>2. CASE LastLeaves(rooms[id])
  <2>1. rooms'[id] = NULL /\ entity' = Departed(s, {})
    BY <1>1, <1>2 DEF WithoutRoom, CacheTypeOK
  <2>2. \A x \in Socket : entity[x].roomid = id => x = s
    BY <1>1, <1>2, WholeAlone
  <2>3. \A x \in Socket : entity'[x].roomid # id
    BY <1>1, <2>1, <2>2, DepartedFields
  <2> QED
    BY <2>1, <2>3 DEF Settled, Vacant
<1>3. CASE ~LastLeaves(rooms[id])
  <2> DEFINE room == rooms[id]
             role == entity[s].roleid
             sockets == SocketsAt(room.players, heirs)
             table == entity'
             new == Rebuilt(room, role, heirs)
  <2>1. rooms'[id] = new /\ entity' = Departed(s, sockets)
    BY <1>1, <1>3 DEF CacheTypeOK
  <2>2. /\ \A x \in Socket : /\ table[x].roleid = entity[x].roleid
                             /\ table[x].seat = entity[x].seat
                             /\ entity[x].isroomctl => table[x].isroomctl
        /\ \A x \in Socket \ {s} : table[x].roomid = entity[x].roomid
        /\ table[s].roomid = 0
        /\ \A x \in sockets \cap cache : table[x].isroomctl
    BY <2>1, DepartedFields
  <2>3. sockets \subseteq Socket
    <3>1. \A i \in DOMAIN room.players : room.players[i].socket \in Socket
      BY <1>1, RoomPlayers
    <3>2. heirs \subseteq DOMAIN room.players
      BY DEF Successor, SuccessorBehind, Least, Others
    <3> QED
      BY <3>1, <3>2 DEF SocketsAt
  <2>4. \A x \in Socket \ {s} : Steady(entity[x], table[x], id)
    BY <2>2 DEF Steady
  <2>5. /\ new = Rebuilt(room, role, heirs) /\ room \in Room /\ Whole(entity, id, room, {})
        /\ ~LastLeaves(room) /\ role = entity[s].roleid
        /\ \/ heirs = Successor(room.players, role, entity[s].isroomctl)
           \/ heirs = SuccessorBehind(room.players, role)
        /\ \A x \in SocketsAt(room.players, heirs) : table[x].isroomctl
    BY <1>1, <1>3, <2>2, <2>3
  <2>6. CacheTypeOK /\ RolesDiffer /\ entity[s].roomid = id
    OBVIOUS
  <2> HIDE DEF new, room, role, table
  <2>7. new \in Room /\ Whole(table, id, new, {s})
    BY ONLY s \in Socket, <2>4, <2>5, <2>6, WholeRebuilt
  <2>8. Whole(table, id, new, {})
    BY <1>1, <2>2, <2>7 DEF Whole
  <2> QED
    BY <2>1, <2>7, <2>8, RoomAssumption DEF Settled, Exists, table
<1> QED
  BY <1>2, <1>3

(* A player leaves: of other rooms nothing changes. *)
LEMMA LeavingWithin ==
    ASSUME CacheTypeOK, NEW id \in RoomID, NEW s \in Socket, NEW heirs, NEW room,
           rooms' = [rooms EXCEPT ![id] = room], entity' = Departed(s, heirs)
    PROVE  Within(id)
PROOF
<1>1. \A jd \in RoomID \ {id} : rooms'[jd] = rooms[jd]
  BY DEF CacheTypeOK
<1>2. /\ \A x \in Socket : /\ entity'[x].roleid = entity[x].roleid
                           /\ entity'[x].seat = entity[x].seat
                           /\ entity[x].isroomctl => entity'[x].isroomctl
      /\ \A x \in Socket \ {s} : entity'[x].roomid = entity[x].roomid
      /\ entity'[s].roomid = 0
  BY DepartedFields
<1> QED
  BY <1>1, <1>2 DEF Within

(* A handler that did nothing but kill the process. *)
LEMMA CrashWithin ==
    ASSUME NEW id, UNCHANGED <<entity, rooms>>
    PROVE  Within(id) /\ (Settled(id) => Settled(id)')
BY DEF Within, Settled, Vacant, Exists

(* A room nobody works on, and that stays clean, is settled. *)
LEMMA ClearOfOthers ==
    ASSUME RaceInv, NEW id \in RandomID \ raced', Handler({id})
    PROVE  Settled(id)
BY RestIsNotBusy DEF Handler, Races, RaceInv, Clean

LEMMA LeaveClean ==
    ASSUME RaceInv, NEW s \in Socket, Leave(s)
    PROVE  StaysClean
PROOF
<1>1. CacheTypeOK /\ cache = Socket /\ RolesDiffer
  BY DEF RaceInv, TypeInv
<1>2. PICK id \in RoomID : id = entity[s].roomid
  BY <1>1 DEF CacheTypeOK, Entity
<1>3. /\ rooms[id] # NULL /\ id # 0 /\ Handler({id}) /\ LeaveOwnRoom(s)
  BY <1>2 DEF Leave, LeaveRoom, OwnRoom
<1> DEFINE heirs == Successor(rooms[id].players, entity[s].roleid, entity[s].isroomctl)
<1>4. \/ /\ LastLeaves(rooms[id])
         /\ rooms' = WithoutRoom(id)
         /\ entity' = Departed(s, {})
         /\ cache' = cache
      \/ /\ ~LastLeaves(rooms[id])
         /\ rooms' = [rooms EXCEPT ![id] = Rebuilt(rooms[id], entity[s].roleid, heirs)]
         /\ entity' = Departed(s, SocketsAt(rooms[id].players, heirs))
         /\ cache' = cache
      \/ UNCHANGED <<cache, entity, rooms>>
  BY <1>2, <1>3 DEF LeaveOwnRoom, Crash
<1>a. heirs = Successor(rooms[id].players, entity[s].roleid, entity[s].isroomctl)
  OBVIOUS
<1> HIDE DEF heirs
<1>5. Within(id)
  <2>1. CASE UNCHANGED <<cache, entity, rooms>>
    BY <2>1, CrashWithin
  <2>2. CASE rooms' = WithoutRoom(id) /\ entity' = Departed(s, {})
    BY <1>1, <2>2, LeavingWithin DEF WithoutRoom
  <2>3. CASE /\ rooms' = [rooms EXCEPT ![id] = Rebuilt(rooms[id], entity[s].roleid, heirs)]
             /\ entity' = Departed(s, SocketsAt(rooms[id].players, heirs))
    BY <1>1, <2>3, LeavingWithin
  <2> QED
    BY <1>4, <2>1, <2>2, <2>3
<1>6. ASSUME id \in RandomID \ raced'
      PROVE  Settled(id)'
  <2>1. Settled(id)
    BY <1>3, <1>6, ClearOfOthers
  <2>2. Exists(id) /\ Whole(entity, id, rooms[id], {}) /\ entity[s].roomid = id
    BY <1>2, <1>3, <2>1 DEF Settled, Vacant, Exists
  <2>3. CASE UNCHANGED <<cache, entity, rooms>>
    BY <2>1, <2>3, CrashWithin
  <2>4. CASE ~UNCHANGED <<cache, entity, rooms>>
    BY <1>1, <1>4, <1>6, <1>a, <2>2, <2>4, LeavingSettles
  <2> QED
    BY <2>3, <2>4
<1>7. cache' = cache /\ \A x \in Socket : entity'[x].roleid = entity[x].roleid
  BY <1>4, <1>5 DEF Within
<1> QED
  BY <1>3, <1>5, <1>6, <1>7, HandlerKeepsClean DEF StaysClean

LEMMA LeaveByJoinClean ==
    ASSUME RaceInv, NEW s \in Socket, NEW id \in RoomID, LeaveByJoin(s, id)
    PROVE  StaysClean
PROOF
<1>1. CacheTypeOK /\ cache = Socket /\ RolesDiffer
  BY DEF RaceInv, TypeInv
<1>2. /\ Exists(id) /\ Listed(rooms[id].players, entity[s].roleid)
      /\ Handler({id}) /\ Rejoin(s, id)
  BY DEF LeaveByJoin, JoinRoom
<1> DEFINE heirs == SuccessorBehind(rooms[id].players, entity[s].roleid)
<1>3. \/ /\ LastLeaves(rooms[id])
         /\ rooms' = WithoutRoom(id)
         /\ entity' = Departed(s, {})
         /\ cache' = cache
      \/ /\ ~LastLeaves(rooms[id])
         /\ rooms' = [rooms EXCEPT ![id] = Rebuilt(rooms[id], entity[s].roleid, heirs)]
         /\ entity' = Departed(s, SocketsAt(rooms[id].players, heirs))
         /\ cache' = cache
  BY <1>2 DEF Rejoin
<1>4. heirs = SuccessorBehind(rooms[id].players, entity[s].roleid)
  OBVIOUS
<1> HIDE DEF heirs
<1>5. Within(id)
  <2>1. CASE rooms' = WithoutRoom(id) /\ entity' = Departed(s, {})
    BY <1>1, <2>1, LeavingWithin DEF WithoutRoom
  <2>2. CASE /\ rooms' = [rooms EXCEPT ![id] = Rebuilt(rooms[id], entity[s].roleid, heirs)]
             /\ entity' = Departed(s, SocketsAt(rooms[id].players, heirs))
    BY <1>1, <2>2, LeavingWithin
  <2> QED
    BY <1>3, <2>1, <2>2
<1>6. ASSUME id \in RandomID \ raced'
      PROVE  Settled(id)'
  <2>1. Whole(entity, id, rooms[id], {})
    BY <1>2, <1>6, ClearOfOthers DEF Settled, Vacant, Exists
  <2>2. PICK i \in DOMAIN rooms[id].players : rooms[id].players[i].roleid = entity[s].roleid
    BY <1>2 DEF Listed
  <2> DEFINE x == rooms[id].players[i].socket
  <2>3. x \in Socket
    BY <1>1, <1>2, <2>2, ExistingRoom, RoomPlayers
  <2>4. entity[x].roomid = id /\ entity[x].roleid = entity[s].roleid
    BY <2>1, <2>2 DEF Whole, AgreesIn
  <2>5. x = s
    BY <1>1, <2>3, <2>4 DEF RolesDiffer
  <2>6. entity[s].roomid = id
    BY <2>4, <2>5
  <2> QED
    BY <1>1, <1>2, <1>3, <1>4, <1>6, <2>1, <2>6, LeavingSettles
<1>7. cache' = cache /\ \A x \in Socket : entity'[x].roleid = entity[x].roleid
  BY <1>3, <1>5 DEF Within
<1> QED
  BY <1>2, <1>5, <1>6, <1>7, HandlerKeepsClean DEF StaysClean

LEMMA FinishClean ==
    ASSUME RaceInv, NEW s \in Socket, Finish(s)
    PROVE  StaysClean
PROOF
<1>1. CacheTypeOK /\ cache = Socket
  BY DEF RaceInv, TypeInv
<1>2. PICK id \in RoomID : id = entity[s].roomid
  BY <1>1 DEF CacheTypeOK, Entity
<1>3. rooms[id] # NULL /\ Handler({id}) /\ GameOver(s)
  BY <1>2 DEF Finish, GameOver, OwnRoom
<1> DEFINE players == rooms[id].players
           listed == SocketsAt(players, DOMAIN players)
<1>4. \/ rooms' = WithoutRoom(id) /\ entity' = SentHome(players) /\ cache' = cache
      \/ UNCHANGED <<cache, entity, rooms>>
  BY <1>2, <1>3 DEF GameOver, OwnRoom, Crash
<1>5. CASE UNCHANGED <<cache, entity, rooms>>
  <2>1. Within(id)
    BY <1>5, CrashWithin
  <2>2. id \in RandomID \ raced' => Settled(id)'
    BY <1>3, <1>5, ClearOfOthers, CrashWithin
  <2> QED
    BY <1>3, <1>5, <2>1, <2>2, HandlerKeepsClean DEF StaysClean
<1>6. CASE rooms' = WithoutRoom(id) /\ entity' = SentHome(players) /\ cache' = cache
  <2>1. \A x \in Socket : /\ entity'[x].roleid = entity[x].roleid
                          /\ entity'[x].seat = entity[x].seat
                          /\ entity'[x].isroomctl = entity[x].isroomctl
                          /\ entity'[x].roomid = IF x \in listed THEN 0 ELSE entity[x].roomid
    BY <1>1, <1>6 DEF SentHome, CacheTypeOK, Entity
  <2>2. rooms'[id] = NULL /\ \A jd \in RoomID \ {id} : rooms'[jd] = rooms[jd]
    BY <1>1, <1>6 DEF WithoutRoom, CacheTypeOK
  <2>3. Within(id)
    BY <2>1, <2>2 DEF Within
  <2>4. ASSUME id \in RandomID \ raced'
        PROVE  Settled(id)'
    <3>1. Whole(entity, id, rooms[id], {}) /\ id # 0
      BY <1>3, <2>4, ClearOfOthers, RoomAssumption DEF Settled, Vacant, Exists
    <3>2. \A x \in Socket : entity[x].roomid = id => x \in listed
      BY <3>1 DEF Whole, Lists, SocketsAt
    <3> QED
      BY <2>1, <2>2, <3>1, <3>2 DEF Settled, Vacant
  <2> QED
    BY <1>3, <1>6, <2>1, <2>3, <2>4, HandlerKeepsClean DEF StaysClean
<1> QED
  BY <1>4, <1>5, <1>6

-------------------------------------------------------------------------------
(* The two steps of a join keep the rooms clean *)

LEMMA BeginJoinClean ==
    ASSUME RaceInv, NEW s \in Socket, NEW id \in RoomID, BeginJoin(s, id)
    PROVE  StaysClean
PROOF
<1>1. /\ TypeInv /\ CacheTypeOK /\ rooms[id] \in Room /\ entity[s] \in Entity
      /\ joining.at = "idle" /\ entity[s].roomid = 0 /\ cache' = cache /\ Races({id})
      /\ rebuild' = rebuild
  BY ExistingRoom DEF BeginJoin, Ready, RaceInv, TypeInv, CacheTypeOK
<1>2. PICK seat \in Seat :
         /\ seat \notin SeatsOf(rooms[id])
         /\ rooms' = [rooms EXCEPT ![id].free = rooms[id].free - 1]
         /\ entity' = [entity EXCEPT ![s].roomid = id, ![s].seat = seat]
         /\ joining' = [at |-> "add", id |-> id, seat |-> seat, socket |-> s, deleted |-> FALSE]
  BY DEF BeginJoin, FirstIdle, IdleSeats
<1> DEFINE counted == [rooms[id] EXCEPT !.free = rooms[id].free - 1]
           told == [entity[s] EXCEPT !.roomid = id, !.seat = seat]
           m == [socket |-> s, roleid |-> entity[s].roleid, isroomctl |-> FALSE, seat |-> seat]
<1>3. counted \in Room /\ counted.free = rooms[id].free - 1
      /\ counted.players = rooms[id].players
  BY <1>1 DEF Room
<1>4. told.roomid = id /\ told.seat = seat /\ told.roleid = entity[s].roleid
      /\ told.isroomctl = entity[s].isroomctl
  BY <1>1 DEF Entity
<1>5. /\ m \in Member /\ m.socket = s /\ m.roleid = entity[s].roleid /\ ~m.isroomctl
      /\ m.seat = seat
  BY <1>1 DEF Entity, Member, SeatName
<1>6. rooms' = [rooms EXCEPT ![id] = counted] /\ entity' = [entity EXCEPT ![s] = told]
  BY <1>2
<1>7. joining'.at = "add" /\ joining'.id = id /\ joining'.socket = s /\ joining'.seat = seat
  BY <1>2
<1>a. \A e : e.roleid = entity[s].roleid =>
         [socket |-> s, roleid |-> e.roleid, isroomctl |-> FALSE, seat |-> seat] = m
  OBVIOUS
<1> HIDE DEF counted, told, m
<1>8. /\ rooms'[id] = counted /\ \A jd \in RoomID \ {id} : rooms'[jd] = rooms[jd]
      /\ entity'[s] = told /\ \A x \in Socket \ {s} : entity'[x] = entity[x]
  BY <1>1, <1>6 DEF CacheTypeOK
<1>9. Within(id)
  BY <1>4, <1>8 DEF Within
<1>10. ASSUME NEW jd \in RandomID \ raced', jd # id
       PROVE  Clean(jd)'
  <2>1. jd \notin LeftRooms /\ jd \notin raced /\ Clean(jd) /\ jd # 0
    BY <1>1, <1>10, RoomAssumption DEF Races, RaceInv
  <2>2. rooms'[jd] = rooms[jd] /\ \A x \in Socket : Steady(entity[x], entity'[x], jd)
    BY <1>9, <1>10, <2>1, SteadyWithin
  <2>3. Unmoved(jd)
    BY <1>1, <1>7, <1>10, <2>2 DEF Unmoved, Works, Joins
  <2> QED
    BY <1>1, <2>1, <2>3, CleanUnmoved
<1>11. ASSUME id \in RandomID \ raced'
       PROVE  Clean(id)'
  <2>1. id \notin raced /\ Clean(id) /\ AtRest(id) /\ id # 0
    BY <1>1, <1>11, RestIsNotBusy, RoomAssumption DEF Races, RaceInv
  <2>2. Exists(id) /\ Whole(entity, id, rooms[id], {})
    BY <2>1 DEF Clean, Settled, Vacant, BeginJoin, Exists
  <2>3. Entry' = m
    BY <1>4, <1>7, <1>8, <1>a DEF Entry
  <2> DEFINE grown == Grown(counted, m)
  <2>4. grown.free = rooms[id].free - 1 /\ grown.players = Append(rooms[id].players, m)
    BY <1>3 DEF Grown
  <2> DEFINE room == rooms[id]
             after == entity'
  <2>5. /\ room \in Room /\ Whole(entity, id, room, {})
        /\ entity[s].roomid # id /\ m.seat \notin SeatsOf(room)
        /\ after[s].roomid = id /\ after[s].roleid = m.roleid /\ after[s].seat = m.seat
        /\ \A x \in Socket \ {s} : after[x] = entity[x]
        /\ grown.free = room.free - 1 /\ grown.players = Append(room.players, m)
    BY <1>1, <1>2, <1>4, <1>5, <1>8, <2>1, <2>2, <2>4
  <2> HIDE DEF grown, room, after
  <2>6. Whole(after, id, grown, {})
    BY ONLY s \in Socket, <1>5, <2>5, WholeGrown
  <2>7. Expecting(id)'
    BY <1>3, <1>8, <2>3, <2>6, RoomAssumption DEF Expecting, Exists, grown, after
  <2>8. Joins(id)' /\ \A x \in Socket : ~Works(x, id)'
    BY <1>1, <1>7, <2>1 DEF Joins, AtRest, Works
  <2> QED
    BY <2>7, <2>8 DEF Clean, AtRest
<1> QED
  BY <1>1, <1>9, <1>10, <1>11 DEF StaysClean, Within

LEMMA AddMemberClean ==
    ASSUME RaceInv, AddMember
    PROVE  StaysClean
PROOF
<1>1. /\ TypeInv /\ CacheTypeOK /\ joining.at = "add" /\ joining'.at # "add"
      /\ UNCHANGED <<cache, entity, rebuild, raced>>
  BY DEF AddMember, RaceInv, TypeInv, NotJoining
<1>2. PICK id \in RoomID : id = joining.id
  BY <1>1 DEF TypeInv, Join
<1>3. \/ ~Exists(id) /\ rooms' = rooms
      \/ /\ Exists(id)
         /\ rooms' = [rooms EXCEPT ![id].players = Append(@, Entry)]
  BY <1>2 DEF AddMember, Entry
<1>4. \A jd \in RoomID \ {id} : rooms'[jd] = rooms[jd]
  BY <1>1, <1>3 DEF CacheTypeOK
<1>5. ASSUME NEW jd \in RandomID \ raced', jd # id
      PROVE  Clean(jd)'
  <2>1. Clean(jd) /\ jd \in RoomID
    BY <1>1 DEF RaceInv, RoomID
  <2>2. Unmoved(jd)
    BY <1>1, <1>2, <1>4, <1>5, <2>1 DEF Unmoved, Works, Joins, Steady
  <2> QED
    BY <1>1, <2>1, <2>2, CleanUnmoved
<1>6. ASSUME id \in RandomID \ raced'
      PROVE  Clean(id)'
  <2>1. Clean(id) /\ Joins(id) /\ ~Joins(id)'
    BY <1>1, <1>2, <1>6 DEF RaceInv, Joins
  <2>2. \A x \in Socket : ~Works(x, id)'
    BY <1>1, <2>1 DEF Clean, Works
  <2>3. Exists(id) /\ Whole(entity, id, Grown(rooms[id], Entry), {})
    BY <2>1 DEF Clean, Expecting
  <2>4. rooms[id] \in Room
    BY <1>1, <2>3, ExistingRoom
  <2>5. Grown(rooms[id], Entry) \in Room
    BY <1>1, <2>4, GrownType
  <2>6. rooms'[id] = Grown(rooms[id], Entry)
    BY <1>1, <1>3, <2>3, <2>4 DEF CacheTypeOK, Room, Grown
  <2>7. Settled(id)'
    BY <1>1, <2>3, <2>5, <2>6, RoomAssumption DEF Settled, Exists
  <2> QED
    BY <2>1, <2>2, <2>7 DEF Clean
<1> QED
  BY <1>1, <1>5, <1>6 DEF StaysClean

-------------------------------------------------------------------------------
(* The steps of a timer keep the rooms clean *)

(* Rooms the timer is not at, before and after its step. *)
LEMMA TimerElsewhere ==
    ASSUME RaceInv, NEW s \in Socket, NEW id \in RandomID \ raced,
           ~Works(s, id), ~Works(s, id)',
           rooms'[id] = rooms[id], \A x \in Socket : Steady(entity[x], entity'[x], id),
           \A x \in Socket \ {s} : /\ rebuild'[x].at = rebuild[x].at
                                   /\ rebuild'[x].id = rebuild[x].id
                                   /\ rebuild'[x].root = rebuild[x].root
                                   /\ rebuild[x].id = id => rebuild'[x] = rebuild[x],
           joining'.at = joining.at, joining'.id = joining.id,
           joining'.seat = joining.seat, joining'.socket = joining.socket
    PROVE  Clean(id)'
PROOF
<1>1. TypeInv /\ Clean(id)
  BY DEF RaceInv
<1>2. \A x \in Socket : Works(x, id) => rebuild[x].id = id
  BY <1>1 DEF Clean, Progress
<1>3. \A x \in Socket : Works(x, id)' <=> Works(x, id)
  BY DEF Works
<1>4. Unmoved(id)
  BY <1>2, <1>3 DEF Unmoved, Joins
<1> QED
  BY <1>1, <1>4, CleanUnmoved

(* The room of id is as the timer's step left it: nobody else is at it.    *)
LEMMA TimerHere ==
    ASSUME RaceInv, NEW s \in Socket, NEW id \in RandomID \ raced, Works(s, id),
           \A x \in Socket \ {s} : /\ rebuild'[x].at = rebuild[x].at
                                   /\ rebuild'[x].id = rebuild[x].id
                                   /\ rebuild'[x].root = rebuild[x].root,
           joining'.at = joining.at, joining'.id = joining.id,
           \/ Works(s, id)' /\ Progress(s, id)'
           \/ ~Works(s, id)' /\ Settled(id)'
    PROVE  Clean(id)'
PROOF
<1>1. Clean(id)
  BY DEF RaceInv
<1>2. \A x \in Socket \ {s} : ~Works(x, id)'
  BY <1>1 DEF Clean, Works
<1>3. ~Joins(id)'
  BY <1>1 DEF Clean, Joins
<1> QED
  BY <1>2, <1>3 DEF Clean, AtRest

(* The pointers of the others when a timer deletes a room. *)
LEMMA RemovalPointers ==
    ASSUME TypeInv, NEW s \in Socket, NEW jd \in RoomID, NEW r \in Rebuild, r.at # "copy",
           rebuild' = PointersAfter({jd}, [rebuild EXCEPT ![s] = r])
    PROVE  /\ rebuild'[s] = r
           /\ \A x \in Socket \ {s} : /\ rebuild'[x].at = rebuild[x].at
                                      /\ rebuild'[x].id = rebuild[x].id
                                      /\ rebuild'[x].root = rebuild[x].root
                                      /\ rebuild[x].id # jd => rebuild'[x] = rebuild[x]
PROOF
<1> DEFINE table == [rebuild EXCEPT ![s] = r]
           gone == {jd}
<1>1. /\ rebuild \in [Socket -> Rebuild] /\ CacheTypeOK
      /\ table[s] = r /\ \A x \in Socket \ {s} : table[x] = rebuild[x]
      /\ table \in [Socket -> Rebuild] /\ gone \in SUBSET RoomID
      /\ rebuild' = PointersAfter(gone, table)
      /\ \A x \in Socket :
            table[x].at = "copy" /\ table[x].old = NULL => Exists(table[x].id)
  BY DEF TypeInv, PointersSound
<1>2. gone = {jd}
  OBVIOUS
<1> HIDE DEF table, gone
<1>3. /\ rebuild' \in [Socket -> Rebuild]
      /\ \A x \in Socket :
            /\ rebuild'[x].at = table[x].at /\ rebuild'[x].id = table[x].id
            /\ rebuild'[x].root = table[x].root
            /\ table[x].id \notin gone => rebuild'[x] = table[x]
            /\ table[x].at # "copy" => rebuild'[x] = table[x]
  BY ONLY <1>1, PointersAfterSound
<1> QED
  BY <1>1, <1>2, <1>3

LEMMA BeginClean ==
    ASSUME RaceInv, NEW s \in Socket, Begin(s)
    PROVE  StaysClean
PROOF
<1>1. /\ TypeInv /\ CacheTypeOK /\ rebuild \in [Socket -> Rebuild]
      /\ UNCHANGED <<cache, entity, rooms, joining>> /\ rebuild[s].at = "idle"
  BY DEF Begin, At, RaceInv, TypeInv, cacheVars
<1>2. PICK id \in RoomID : id = entity[s].roomid
  BY <1>1 DEF CacheTypeOK, Entity
<1> DEFINE first == IF LastLeaves(rooms[id]) THEN "last" ELSE "copy"
           count == rooms[id].free + 1
           r == LookedUp(first, id, count)
<1>3. Races({id}) /\ Exists(id) /\ rebuild' = [rebuild EXCEPT ![s] = r]
  BY <1>2 DEF Begin, LookedUp, OwnRoom, Exists
<1>4. count \in Int /\ first \in {"last", "copy"} /\ r = LookedUp(first, id, count)
  BY <1>1, <1>3, ExistingRoom DEF Room
<1>5. /\ first = "last" => LastLeaves(rooms[id])
      /\ first = "copy" => ~LastLeaves(rooms[id])
      /\ count = rooms[id].free + 1
  OBVIOUS
<1> HIDE DEF first, count, r
<1>6. r.at = first /\ r.id = id /\ r.root = id /\ r.free = count /\ r.old = NULL
  BY ONLY id \in RoomID, <1>4, LookedUpType
<1>7. rebuild'[s] = r /\ \A x \in Socket \ {s} : rebuild'[x] = rebuild[x]
  BY <1>1, <1>3
<1>8. ASSUME NEW jd \in RandomID \ raced', jd # id
      PROVE  Clean(jd)'
  <2>1. jd \in RandomID \ raced
    BY <1>3 DEF Races
  <2>2. ~Works(s, jd) /\ ~Works(s, jd)'
    BY <1>1, <1>6, <1>7, <1>8 DEF Works
  <2>3. \A x \in Socket : Steady(entity[x], entity'[x], jd)
    BY <1>1 DEF Steady
  <2> QED
    BY <1>1, <1>7, <2>1, <2>2, <2>3, TimerElsewhere
<1>9. ASSUME id \in RandomID \ raced'
      PROVE  Clean(id)'
  <2>1. id \notin raced /\ Clean(id) /\ AtRest(id)
    BY <1>3, <1>9, RestIsNotBusy DEF Races, RaceInv
  <2>2. Whole(entity, id, rooms[id], {})
    BY <1>3, <2>1 DEF Clean, Settled, Vacant, Exists
  <2>3. Progress(s, id)'
    BY <1>1, <1>2, <1>3, <1>4, <1>5, <1>6, <1>7, <2>2 DEF Progress, Exists
  <2>4. ~Joins(id)' /\ \A x \in Socket \ {s} : ~Works(x, id)'
    BY <1>1, <1>7, <2>1 DEF AtRest, Joins, Works
  <2>5. Works(s, id)'
    BY <1>4, <1>6, <1>7 DEF Works
  <2> QED
    BY <2>3, <2>4, <2>5 DEF Clean, AtRest
<1> QED
  BY <1>1, <1>8, <1>9 DEF StaysClean

LEMMA DepartedRole ==
    ASSUME entity \in [Socket -> Entity], NEW s \in Socket,
           entity' = [entity EXCEPT ![s].roomid = 0]
    PROVE  \A x \in Socket : entity'[x].roleid = entity[x].roleid
PROOF
<1> DEFINE e == [entity[s] EXCEPT !.roomid = 0]
<1>1. entity[s] \in Entity /\ entity' = [entity EXCEPT ![s] = e]
  OBVIOUS
<1>2. e.roleid = entity[s].roleid
  BY <1>1 DEF Entity
<1> HIDE DEF e
<1> QED
  BY <1>1, <1>2

(* A player is out of the room its entity named: it leaves a room that     *)
(* stays clean only if its timer is at that one.                           *)
LEMMA OutOfOwnRoom ==
    ASSUME CacheTypeOK, NEW s \in Socket, NEW id \in RandomID,
           entity' = [entity EXCEPT ![s].roomid = 0]
    PROVE  /\ entity'[s].roomid = 0
           /\ \A x \in Socket : entity'[x].roleid = entity[x].roleid
           /\ \A x \in Socket \ {s} : entity'[x] = entity[x] /\ Steady(entity[x], entity'[x], id)
           /\ entity[s].roomid = id => id \in LeftRooms
           /\ entity[s].roomid # id => Steady(entity[s], entity'[s], id)
PROOF
<1> DEFINE e == [entity[s] EXCEPT !.roomid = 0]
<1>1. entity[s] \in Entity /\ entity' = [entity EXCEPT ![s] = e] /\ id # 0
  BY RoomAssumption DEF CacheTypeOK
<1>2. /\ e.roomid = 0 /\ e.roleid = entity[s].roleid /\ e.seat = entity[s].seat
      /\ e.isroomctl = entity[s].isroomctl
  BY <1>1 DEF Entity
<1> HIDE DEF e
<1>3. entity'[s] = e /\ \A x \in Socket \ {s} : entity'[x] = entity[x]
  BY <1>1 DEF CacheTypeOK
<1> QED
  BY <1>1, <1>2, <1>3 DEF Steady, LeftRooms

LEMMA RemoveLastClean ==
    ASSUME RaceInv, NEW s \in Socket, RemoveLast(s)
    PROVE  StaysClean
PROOF
<1>1. /\ TypeInv /\ CacheTypeOK /\ rebuild \in [Socket -> Rebuild] /\ rebuild[s].at = "last"
      /\ entity' = [entity EXCEPT ![s].roomid = 0]
      /\ raced' = raced \cup (LeftRooms \ {0, rebuild[s].id}) /\ cache' = cache
  BY DEF RemoveLast, At, RaceInv, TypeInv
<1>2. PICK jd \in RoomID : jd = entity[s].roomid
  BY <1>1 DEF CacheTypeOK, Entity
<1>3. /\ rooms' = WithoutRoom(jd) /\ joining' = Deleted(jd)
      /\ rebuild' = PointersAfter({jd}, [rebuild EXCEPT ![s] = NotRebuilding])
  BY <1>2 DEF RemoveLast
<1>4. NotRebuilding \in Rebuild /\ NotRebuilding.at = "idle" /\ NotRebuilding.at # "copy"
  BY NotRebuildingType DEF NotRebuilding
<1>5. /\ rebuild'[s] = NotRebuilding
      /\ \A x \in Socket \ {s} : /\ rebuild'[x].at = rebuild[x].at
                                 /\ rebuild'[x].id = rebuild[x].id
                                 /\ rebuild'[x].root = rebuild[x].root
                                 /\ rebuild[x].id # jd => rebuild'[x] = rebuild[x]
  BY <1>1, <1>3, <1>4, RemovalPointers
<1>6. /\ joining'.at = joining.at /\ joining'.id = joining.id
      /\ joining'.seat = joining.seat /\ joining'.socket = joining.socket
  BY <1>1, <1>3, DeletedType DEF TypeInv
<1>7. rooms'[jd] = NULL /\ \A id \in RoomID \ {jd} : rooms'[id] = rooms[id]
  BY <1>1, <1>3 DEF WithoutRoom, CacheTypeOK
<1>8. ASSUME NEW id \in RandomID \ raced'
      PROVE  Clean(id)'
  <2>1. id \in RandomID \ raced /\ id \in RoomID /\ id # 0 /\ Clean(id)
    BY <1>1, RoomAssumption DEF RaceInv, RoomID
  <2>2. ~Works(s, id)'
    BY <1>4, <1>5 DEF Works
  <2>3. CASE Works(s, id)
    <3>1. /\ Exists(id) /\ entity[s].roomid = id /\ Whole(entity, id, rooms[id], {})
          /\ LastLeaves(rooms[id])
      BY <1>1, <2>1, <2>3 DEF Clean, Progress
    <3>2. rooms[id] \in Room /\ jd = id
      BY <1>1, <1>2, <2>1, <3>1, ExistingRoom
    <3>3. \A x \in Socket : entity[x].roomid = id => x = s
      BY <3>1, <3>2, WholeAlone
    <3>4. \A x \in Socket : entity'[x].roomid # id
      BY <1>1, <2>1, <3>3, OutOfOwnRoom
    <3>5. Settled(id)'
      BY <1>7, <3>2, <3>4 DEF Settled, Vacant
    <3> QED
      BY <1>5, <1>6, <2>1, <2>2, <2>3, <3>5, TimerHere
  <2>4. CASE ~Works(s, id)
    <3>1. id # rebuild[s].id
      BY <1>1, <2>4 DEF Works
    <3>2. entity[s].roomid # id
      BY <1>1, <1>8, <2>1, <3>1, OutOfOwnRoom
    <3>3. \A x \in Socket : Steady(entity[x], entity'[x], id)
      BY <1>1, <3>2, OutOfOwnRoom
    <3> QED
      BY <1>2, <1>5, <1>6, <1>7, <2>1, <2>2, <2>4, <3>2, <3>3, TimerElsewhere
  <2> QED
    BY <2>3, <2>4
<1>9. \A x \in Socket : entity'[x].roleid = entity[x].roleid
  BY <1>1, DepartedRole DEF CacheTypeOK
<1> QED
  BY <1>1, <1>8, <1>9 DEF StaysClean

LEMMA OutClean ==
    ASSUME RaceInv, NEW s \in Socket, Out(s)
    PROVE  StaysClean
PROOF
<1>1. /\ TypeInv /\ CacheTypeOK /\ rebuild \in [Socket -> Rebuild] /\ rebuild[s].at = "out"
      /\ entity' = [entity EXCEPT ![s].roomid = 0]
      /\ raced' = raced \cup (LeftRooms \ {0, rebuild[s].id})
      /\ UNCHANGED <<cache, rooms, joining>>
  BY DEF Out, At, RaceInv, TypeInv
<1>2. PICK jd \in RoomID : jd = entity[s].roomid
  BY <1>1 DEF CacheTypeOK, Entity
<1>3. rebuild' = AfterOut(s, jd)
  BY <1>2 DEF Out, AfterOut
<1>4. /\ rebuild'[s].at = "remove" /\ rebuild'[s].id = rebuild[s].id /\ rebuild'[s].root = jd
      /\ rebuild'[s].free = rebuild[s].free /\ rebuild'[s].players = rebuild[s].players
      /\ \A x \in Socket \ {s} : rebuild'[x] = rebuild[x]
  BY <1>1, <1>3, OutRecord
<1>5. ASSUME NEW id \in RandomID \ raced'
      PROVE  Clean(id)'
  <2>1. id \in RandomID \ raced /\ id \in RoomID /\ id # 0 /\ Clean(id)
    BY <1>1, RoomAssumption DEF RaceInv, RoomID
  <2>2. CASE Works(s, id)
    <3>1. /\ entity[s].roomid = id /\ rebuild[s].id = id
          /\ Whole(entity, id, NewRoomOf(s), {s}) /\ ~Lists(NewRoomOf(s), s)
      BY <1>1, <2>1, <2>2 DEF Clean, Progress
    <3>2. /\ entity'[s].roomid = 0
          /\ \A x \in Socket \ {s} : Steady(entity[x], entity'[x], id)
      BY <1>1, <2>1, OutOfOwnRoom
    <3> DEFINE out == {s}
               room == NewRoomOf(s)
               after == entity'
    <3>3. /\ room \in Room /\ out \in SUBSET out /\ Whole(entity, id, room, out)
          /\ \A x \in Socket \ out : Steady(entity[x], after[x], id)
          /\ \A x \in out : ~Lists(room, x)
      BY <1>1, <3>1, <3>2, NewRoomOfType
    <3> HIDE DEF out, room, after
    <3>4. Whole(after, id, room, out)
      BY ONLY <3>3, WholeKept
    <3>5. NewRoomOf(s)' = NewRoomOf(s)
      BY <1>4 DEF NewRoomOf
    <3>6. Progress(s, id)'
      BY <1>2, <1>4, <2>1, <3>1, <3>2, <3>4, <3>5 DEF Progress, out, room, after
    <3>7. Works(s, id)'
      BY <1>4, <3>1 DEF Works
    <3> QED
      BY <1>1, <1>4, <2>1, <2>2, <3>6, <3>7, TimerHere
  <2>3. CASE ~Works(s, id)
    <3>1. id # rebuild[s].id
      BY <1>1, <2>3 DEF Works
    <3>2. entity[s].roomid # id
      BY <1>1, <1>5, <2>1, <3>1, OutOfOwnRoom
    <3>3. \A x \in Socket : Steady(entity[x], entity'[x], id)
      BY <1>1, <3>2, OutOfOwnRoom
    <3>4. ~Works(s, id)'
      BY <1>2, <1>4, <3>1, <3>2 DEF Works
    <3> QED
      BY <1>1, <1>4, <2>1, <2>3, <3>3, <3>4, TimerElsewhere
  <2> QED
    BY <2>2, <2>3
<1>6. \A x \in Socket : entity'[x].roleid = entity[x].roleid
  BY <1>1, DepartedRole DEF CacheTypeOK
<1> QED
  BY <1>1, <1>5, <1>6 DEF StaysClean

LEMMA RemoveClean ==
    ASSUME RaceInv, NEW s \in Socket, Remove(s)
    PROVE  StaysClean
PROOF
<1>1. /\ TypeInv /\ CacheTypeOK /\ rebuild[s] \in Rebuild /\ rebuild[s].at = "remove"
      /\ UNCHANGED <<cache, entity, raced>>
  BY DEF Remove, At, RaceInv, TypeInv
<1>2. PICK jd \in RoomID : jd = rebuild[s].root
  BY <1>1 DEF Rebuild
<1> DEFINE r == [rebuild[s] EXCEPT !.at = "insert"]
<1>3. /\ rooms' = WithoutRoom(jd) /\ joining' = Deleted(jd)
      /\ rebuild' = PointersAfter({jd}, [rebuild EXCEPT ![s] = r])
  BY <1>2 DEF Remove
<1>4. /\ r \in Rebuild /\ r.at = "insert" /\ r.id = rebuild[s].id /\ r.root = jd
      /\ r.free = rebuild[s].free /\ r.players = rebuild[s].players
  BY <1>1, <1>2 DEF Rebuild
<1> HIDE DEF r
<1>5. /\ rebuild'[s] = r
      /\ \A x \in Socket \ {s} : /\ rebuild'[x].at = rebuild[x].at
                                 /\ rebuild'[x].id = rebuild[x].id
                                 /\ rebuild'[x].root = rebuild[x].root
                                 /\ rebuild[x].id # jd => rebuild'[x] = rebuild[x]
  BY <1>1, <1>3, <1>4, RemovalPointers
<1>6. /\ joining'.at = joining.at /\ joining'.id = joining.id
      /\ joining'.seat = joining.seat /\ joining'.socket = joining.socket
  BY <1>1, <1>3, DeletedType DEF TypeInv
<1>7. rooms'[jd] = NULL /\ \A id \in RoomID \ {jd} : rooms'[id] = rooms[id]
  BY <1>1, <1>3 DEF WithoutRoom, CacheTypeOK
<1>8. ASSUME NEW id \in RandomID \ raced'
      PROVE  Clean(id)'
  <2>1. id \in RandomID \ raced /\ id \in RoomID /\ Clean(id)
    BY <1>1 DEF RaceInv, RoomID
  <2>2. \A x \in Socket : Steady(entity[x], entity'[x], id)
    BY <1>1 DEF Steady
  <2>3. Works(s, id)' <=> Works(s, id)
    BY <1>1, <1>2, <1>4, <1>5 DEF Works
  <2>4. CASE Works(s, id)
    <3>1. /\ rebuild[s].id = id /\ jd = id /\ entity[s].roomid # id
          /\ Whole(entity, id, NewRoomOf(s), {s})
      BY <1>1, <1>2, <2>1, <2>4 DEF Clean, Progress
    <3>2. NewRoomOf(s)' = NewRoomOf(s)
      BY <1>4, <1>5 DEF NewRoomOf
    <3>3. Progress(s, id)'
      BY <1>1, <1>4, <1>5, <1>7, <3>1, <3>2 DEF Progress
    <3> QED
      BY <1>5, <1>6, <2>1, <2>3, <2>4, <3>3, TimerHere
  <2>5. CASE ~Works(s, id)
    <3>1. id # jd
      BY <1>1, <1>2, <2>5 DEF Works
    <3> QED
      BY <1>5, <1>6, <1>7, <2>1, <2>2, <2>3, <2>5, <3>1, TimerElsewhere
  <2> QED
    BY <2>4, <2>5
<1> QED
  BY <1>1, <1>8 DEF StaysClean

LEMMA InsertClean ==
    ASSUME RaceInv, NEW s \in Socket, Insert(s)
    PROVE  StaysClean
PROOF
<1>1. /\ TypeInv /\ CacheTypeOK /\ rebuild \in [Socket -> Rebuild] /\ rebuild[s].at = "insert"
      /\ UNCHANGED <<cache, entity, joining, raced>>
      /\ rebuild' = [rebuild EXCEPT ![s] = NotRebuilding]
  BY DEF Insert, At, RaceInv, TypeInv
<1>2. PICK jd \in RoomID : jd = rebuild[s].root
  BY <1>1 DEF Rebuild
<1>3. rooms' = WithRoom(jd, NewRoomOf(s))
  BY <1>2 DEF Insert, NewRoomOf
<1>4. /\ rebuild'[s].at = "idle" /\ \A x \in Socket \ {s} : rebuild'[x] = rebuild[x]
  BY <1>1 DEF NotRebuilding
<1>5. /\ \A id \in RoomID \ {jd} : rooms'[id] = rooms[id]
      /\ rooms[jd] = NULL => rooms'[jd] = NewRoomOf(s)
  BY <1>1, <1>3 DEF WithRoom, CacheTypeOK, Exists
<1>6. NewRoomOf(s) \in Room
  BY <1>1, NewRoomOfType
<1>7. ASSUME NEW id \in RandomID \ raced'
      PROVE  Clean(id)'
  <2>1. id \in RandomID \ raced /\ id \in RoomID /\ Clean(id)
    BY <1>1 DEF RaceInv, RoomID
  <2>2. ~Works(s, id)'
    BY <1>4 DEF Works
  <2>3. CASE Works(s, id)
    <3>1. /\ jd = id /\ rooms[id] = NULL /\ entity[s].roomid # id
          /\ Whole(entity, id, NewRoomOf(s), {s})
      BY <1>1, <1>2, <2>1, <2>3 DEF Clean, Progress
    <3>2. Whole(entity, id, NewRoomOf(s), {})
      BY <3>1 DEF Whole
    <3>3. Settled(id)'
      BY <1>1, <1>5, <1>6, <3>1, <3>2, RoomAssumption DEF Settled, Exists
    <3> QED
      BY <1>1, <1>4, <2>1, <2>2, <2>3, <3>3, TimerHere
  <2>4. CASE ~Works(s, id)
    <3>1. id # jd
      BY <1>1, <1>2, <2>4 DEF Works
    <3>2. \A x \in Socket : Steady(entity[x], entity'[x], id)
      BY <1>1 DEF Steady
    <3> QED
      BY <1>1, <1>4, <1>5, <2>1, <2>2, <2>4, <3>1, <3>2, TimerElsewhere
  <2> QED
    BY <2>3, <2>4
<1> QED
  BY <1>1, <1>7 DEF StaysClean

LEMMA CopyClean ==
    ASSUME RaceInv, NEW s \in Socket, Copy(s)
    PROVE  StaysClean
PROOF
<1>1. /\ TypeInv /\ CacheTypeOK /\ RolesDiffer /\ rebuild \in [Socket -> Rebuild]
      /\ rebuild[s].at = "copy" /\ UNCHANGED <<cache, rooms, joining, raced>>
  BY DEF Copy, At, RaceInv, TypeInv, Crash
<1> DEFINE room == Looked(s)
           role == entity[s].roleid
           heirs == Successor(room.players, role, entity[s].isroomctl)
           sockets == SocketsAt(room.players, heirs)
           players == Copied(room, role, heirs)
<1>2. CASE UNCHANGED <<entity, rebuild>>
  <2>1. ASSUME NEW id \in RandomID \ raced'
        PROVE  Clean(id)'
    <3>1. Clean(id) /\ Unmoved(id)
      BY <1>1, <1>2, <2>1 DEF RaceInv, Unmoved, Steady, Works, Joins
    <3> QED
      BY <1>1, <3>1, CleanUnmoved
  <2> QED
    BY <1>1, <1>2, <2>1 DEF StaysClean
<1>3. CASE /\ rebuild' = AfterCopy(s, players)
           /\ entity' = [x \in Socket |->
                           IF x \in sockets THEN [entity[x] EXCEPT !.isroomctl = TRUE]
                                            ELSE entity[x]]
  <2>1. /\ \A x \in Socket : /\ entity'[x].roleid = entity[x].roleid
                             /\ entity'[x].roomid = entity[x].roomid
                             /\ entity'[x].seat = entity[x].seat
                             /\ entity[x].isroomctl => entity'[x].isroomctl
        /\ \A x \in Socket \cap sockets : entity'[x].isroomctl
    <3>1. \A x \in Socket : entity[x] \in Entity
      BY <1>1 DEF CacheTypeOK
    <3> HIDE DEF sockets
    <3> QED
      BY <1>3, <3>1 DEF Entity
  <2>2. room \in Room
    BY <1>1, LookedType
  <2>a. heirs = Successor(room.players, role, entity[s].isroomctl)
        /\ role = entity[s].roleid /\ sockets = SocketsAt(room.players, heirs)
        /\ players = Copied(room, role, heirs) /\ room = Looked(s)
    OBVIOUS
  <2> HIDE DEF room, role, heirs, sockets, players
  <2> DEFINE new == Rebuilt(room, role, heirs)
  <2>3. new \in Room /\ players = new.players /\ new.free = room.free + 1
    <3>1. players = new.players /\ new.free = room.free + 1
      BY <2>a DEF Copied, Rebuilt
    <3> HIDE DEF new
    <3>2. new \in Room
      BY <2>2, RebuiltSound DEF new
    <3> QED
      BY <3>1, <3>2
  <2>4. players \in Seq(Member)
    BY <2>3 DEF Room
  <2>b. new = Rebuilt(room, role, heirs)
    OBVIOUS
  <2> HIDE DEF new
  <2>5. /\ rebuild'[s].at = "out" /\ rebuild'[s].id = rebuild[s].id
        /\ rebuild'[s].root = rebuild[s].root /\ rebuild'[s].free = rebuild[s].free
        /\ rebuild'[s].players = players
        /\ \A x \in Socket \ {s} : rebuild'[x] = rebuild[x]
    BY <1>1, <1>3, <2>4, CopyRecord
  <2>6. ASSUME NEW id \in RandomID \ raced'
        PROVE  Clean(id)'
    <3>1. id \in RandomID \ raced /\ id \in RoomID /\ Clean(id)
      BY <1>1 DEF RaceInv, RoomID
    <3>2. \A x \in Socket : Steady(entity[x], entity'[x], id)
      BY <2>1 DEF Steady
    <3>3. Works(s, id)' <=> Works(s, id)
      BY <1>1, <2>5 DEF Works
    <3>4. CASE Works(s, id)
      <4>1. /\ rebuild[s].id = id /\ rebuild[s].root = id /\ entity[s].roomid = id
            /\ rebuild[s].old = NULL /\ rebuild[s].free = rooms[id].free + 1
            /\ ~LastLeaves(rooms[id]) /\ Whole(entity, id, rooms[id], {})
        BY <1>1, <3>1, <3>4 DEF Clean, Progress
      <4>2. room = rooms[id]
        BY <2>a, <4>1 DEF Looked
      <4>3. \A i \in DOMAIN room.players : room.players[i].socket \in Socket
        BY <2>2, RoomPlayers
      <4>4. sockets \subseteq Socket
        BY <2>a, <4>3 DEF SocketsAt, Successor, Least, Others
      <4> DEFINE after == entity'
      <4>5. /\ room \in Room /\ Whole(entity, id, room, {}) /\ ~LastLeaves(room)
            /\ entity[s].roomid = id /\ CacheTypeOK /\ RolesDiffer
            /\ \A x \in Socket \ {s} : Steady(entity[x], after[x], id)
            /\ \A x \in SocketsAt(room.players, heirs) : after[x].isroomctl
        BY <1>1, <2>1, <2>2, <2>a, <3>2, <4>1, <4>2, <4>4
      <4> HIDE DEF after
      <4>6. Whole(after, id, new, {s}) /\ ~Lists(new, s)
        BY ONLY s \in Socket, <2>a, <2>b, <4>5, WholeRebuilt
      <4>7. NewRoomOf(s)' = new
        BY <2>3, <2>5, <4>1, <4>2 DEF NewRoomOf, Room
      <4>8. Progress(s, id)'
        BY <2>1, <2>5, <4>1, <4>6, <4>7 DEF Progress, after
      <4> QED
        BY <1>1, <2>5, <3>1, <3>3, <3>4, <4>8, TimerHere
    <3>5. CASE ~Works(s, id)
      BY <1>1, <2>5, <3>1, <3>2, <3>3, <3>5, TimerElsewhere
    <3> QED
      BY <3>4, <3>5
  <2> QED
    BY <1>1, <2>1, <2>6 DEF StaysClean
<1> QED
  BY <1>2, <1>3 DEF Copy, Looked, AfterCopy, Crash

-------------------------------------------------------------------------------
(* The invariant, and what it says when nobody is at work *)

LEMMA RaceInitClean == RaceInit => RaceInv
PROOF
<1> SUFFICES ASSUME RaceInit
             PROVE  RaceInv
  OBVIOUS
<1>1. TypeInv
  BY RaceInitType
<1>2. PICK role \in [Socket -> UserID] :
         /\ \A s, x \in Socket : role[s] = role[x] => s = x
         /\ entity = [s \in Socket |-> [NewEntity EXCEPT !.roleid = role[s]]]
  BY DEF RaceInit
<1>3. \A s \in Socket : entity[s].roleid = role[s] /\ entity[s].roomid = 0
  BY <1>2 DEF NewEntity
<1>4. RolesDiffer
  BY <1>2, <1>3 DEF RolesDiffer
<1>5. ASSUME NEW id \in RandomID
      PROVE  Clean(id)
  <2>1. Vacant(id)
    BY <1>3, RoomAssumption DEF RaceInit, Vacant, RoomID
  <2>2. ~Joins(id) /\ \A s \in Socket : ~Works(s, id)
    BY DEF RaceInit, Joins, NotJoining, Works, NotRebuilding
  <2> QED
    BY <2>1, <2>2 DEF Clean, Settled
<1> QED
  BY <1>1, <1>4, <1>5 DEF RaceInv, RaceInit

LEMMA RaceNextClean ==
    ASSUME RaceInv, [RaceNext]_raceVars
    PROVE  RaceInv'
PROOF
<1>1. StaysClean
  <2>1. CASE UNCHANGED raceVars
    <3>1. ASSUME NEW id \in RandomID \ raced
          PROVE  Clean(id)'
      <4>1. Clean(id) /\ Unmoved(id)
        BY <2>1, <3>1 DEF RaceInv, Unmoved, raceVars, Steady, Works, Joins
      <4> QED
        BY <4>1, CleanUnmoved DEF RaceInv
    <3> QED
      BY <2>1, <3>1 DEF StaysClean, raceVars
  <2>2. CASE AddMember
    BY <2>2, AddMemberClean
  <2>3. CASE \E s \in Socket : \E id \in RoomID :
                Create(s, id) \/ BeginJoin(s, id) \/ LeaveByJoin(s, id)
    BY <2>3, CreateClean, BeginJoinClean, LeaveByJoinClean
  <2>4. CASE \E s \in Socket : Leave(s) \/ Finish(s)
    BY <2>4, LeaveClean, FinishClean
  <2>5. CASE \E s \in Socket : Timer(s)
    BY <2>5, BeginClean, RemoveLastClean, CopyClean, OutClean, RemoveClean, InsertClean
    DEF Timer
  <2> QED
    BY <2>1, <2>2, <2>3, <2>4, <2>5 DEF RaceNext, RaceStep
<1>2. TypeInv'
  BY RaceNextType DEF RaceInv
<1>3. RolesDiffer'
  BY <1>1 DEF RaceInv, RolesDiffer, StaysClean
<1> QED
  BY <1>1, <1>2, <1>3 DEF RaceInv, StaysClean

LEMMA CleanIsContained == RaceInv => DamageContained
PROOF
<1> SUFFICES ASSUME RaceInv
             PROVE  DamageContained
  OBVIOUS
<1>1. ASSUME NEW id \in RoomID \ {0}, id \notin raced, ~Busy(id)
      PROVE  Vacant(id) \/ (Exists(id) /\ Whole(entity, id, rooms[id], {}))
  BY <1>1, RestIsNotBusy DEF RaceInv, Clean, Settled, RoomID
<1>2. \A s \in Socket : entity[s].roomid \in RoomID
  BY DEF RaceInv, TypeInv, CacheTypeOK, Entity
<1>3. \A id : AgreesIn(entity, id, rooms[id]) <=> Agrees(id, rooms[id])
  BY DEF AgreesIn, Agrees
<1> QED
  BY <1>1, <1>2, <1>3 DEF DamageContained, Vacant, Whole, Exists

(* Whatever the timers and the worker do to each other, every room that    *)
(* only one thread at a time has worked on, and the entities of those who  *)
(* are told to be in it, agree whenever nobody is at work there; with any  *)
(* number of players, rooms and timers, and however often they run.        *)
THEOREM DamageIsContained == RaceSpec => []DamageContained
PROOF
<1>1. RaceInit => RaceInv
  BY RaceInitClean
<1>2. RaceInv /\ [RaceNext]_raceVars => RaceInv'
  BY RaceNextClean
<1> QED
  BY <1>1, <1>2, CleanIsContained, PTL DEF RaceSpec
===============================================================================
