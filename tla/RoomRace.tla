------------------------------- MODULE RoomRace --------------------------------
(***************************************************************************)
(* The timer threads take silent players out of their rooms while the      *)
(* worker thread serves requests; nothing is locked.  Here a timer's       *)
(* LeaveRoom is a sequence of steps: it looks up the room, copies the      *)
(* other players, takes the player out, removes the old room and inserts   *)
(* the new one.  A join of the worker is two: it looks up the room, then   *)
(* adds the entry to what has that id.  The other handlers are one step,   *)
(* and so is each call into the maps of CCache.  A room that is removed is *)
(* deleted: to use it afterwards kills the process or shows what it was.   *)
(***************************************************************************)
EXTENDS RoomProperties

CONSTANTS
    Silent,    \* the clients whose timers find them silent
    MaxTaken,  \* a bound: players that timers take out of rooms
    MinFree    \* a bound: nobody is let into a room with no more free places

ASSUME RaceAssumption == MaxTaken \in Nat

VARIABLES
    rebuild,   \* per timer: where its LeaveRoom is and what it holds
    joining,   \* the worker's join that is under way
    taken,     \* history: how many LeaveRooms the timers have begun
    raced      \* history: the rooms that several threads worked on at once

raceVars == <<cache, entity, rooms, fault, rebuild, joining, taken, raced>>

(* "last": the count says that the player is the last one.  old is the     *)
(* room the timer has a pointer to, once that is deleted.                  *)
NotRebuilding == [at |-> "idle", id |-> 0, root |-> 0, free |-> 0, players |-> <<>>, old |-> NULL]
NotJoining == [at |-> "idle", id |-> 0, seat |-> FirstSeat, socket |-> NULL, deleted |-> FALSE]

RaceInit ==
    /\ cache = Socket
    /\ \E role \in [Socket -> UserID] :
          /\ \A s, x \in Socket : role[s] = role[x] => s = x
          /\ entity = [s \in Socket |-> [NewEntity EXCEPT !.roleid = role[s]]]
    /\ rooms = [id \in RoomID |-> NULL]
    /\ fault = "none"
    /\ rebuild = [s \in Socket |-> NotRebuilding]
    /\ joining = NotJoining
    /\ taken = 0
    /\ raced = {}

RaceTypeOK ==
    /\ CacheTypeOK
    /\ rebuild \in [Socket ->
                      [at : {"idle", "last", "copy", "out", "remove", "insert"}, id : RoomID,
                       root : RoomID, free : Int, players : Seq(Member), old : Room \cup {NULL}]]
    /\ joining \in [at : {"idle", "add"}, id : RoomID, seat : Seat, socket : Socket \cup {NULL},
                    deleted : BOOLEAN]
    /\ taken \in 0..MaxTaken
    /\ raced \in SUBSET RoomID

-------------------------------------------------------------------------------
(* Who works on a room *)

Rebuilding(s) == rebuild[s].at # "idle"

(* The timers that have a pointer to the room or are going to replace it. *)
Rebuilders(id) == {s \in Socket : Rebuilding(s) /\ id \in {rebuild[s].id, rebuild[s].root}}
Busy(id) == Rebuilders(id) # {} \/ (joining.at = "add" /\ joining.id = id)

(* The rooms that players are taken out of, as their entities say it. *)
LeftRooms == {entity[x].roomid : x \in {x \in Socket : entity'[x].roomid # entity[x].roomid}}

(* A step on the rooms of ids. *)
Races(ids) == raced' = raced \cup {id \in ids : Busy(id)} \cup (LeftRooms \ (ids \cup {0}))

(* The deletion of a room, as the pointers others have to it see it. *)
PointersAfter(gone, table) ==
    [s \in Socket |->
        IF table[s].at = "copy" /\ table[s].id \in gone /\ table[s].old = NULL
          THEN [table[s] EXCEPT !.old = rooms[table[s].id]] ELSE table[s]]

(* Deletions by handlers: a room that is now another one, too, unless it   *)
(* was only appended to.                                                   *)
Replaced ==
    {id \in RoomID : Exists(id) /\
        \/ rooms'[id] = NULL
        \/ rooms'[id] # NULL /\ rooms'[id].free > rooms[id].free}

-------------------------------------------------------------------------------
(* The worker thread *)

Ready(s) == joining.at = "idle" /\ Served(s)

(* A handler that works on the rooms of ids in one go. *)
Handler(ids) ==
    /\ Races(ids)
    /\ rebuild' = PointersAfter(Replaced, rebuild)
    /\ UNCHANGED <<joining, taken>>

Create(s, id) ==
    /\ Ready(s)
    /\ id # 0
    /\ CreateRoom(s, id)
    /\ Handler({id})

(* JoinRoom up to where the free places are counted and the entity is told *)
(* its room and its seat.  (JoinTeam differs in what seats it admits to.)  *)
BeginJoin(s, id) ==
    /\ Ready(s)
    /\ entity[s].roomid = 0
    /\ Exists(id) /\ rooms[id].free > MinFree
    /\ ~Listed(rooms[id].players, entity[s].roleid)
    /\ \E seat \in FirstIdle(rooms[id]) :
          /\ rooms' = [rooms EXCEPT ![id].free = rooms[id].free - 1]
          /\ entity' = [entity EXCEPT ![s].roomid = id, ![s].seat = seat]
          /\ joining' = [at |-> "add", id |-> id, seat |-> seat, socket |-> s, deleted |-> FALSE]
    /\ Races({id})
    /\ UNCHANGED <<cache, fault, rebuild, taken>>

(* EntityRoomAddMember: what has the id now gets the entry.  Then the      *)
(* answer is sent to the players of the room that was looked up.           *)
AddMember ==
    LET s == joining.socket
        entry == [socket |-> s, roleid |-> entity[s].roleid, isroomctl |-> FALSE,
                  seat |-> joining.seat]
    IN  /\ joining.at = "add"
        /\ fault = "none"
        /\ rooms' = IF Exists(joining.id)
                      THEN [rooms EXCEPT ![joining.id].players = Append(@, entry)] ELSE rooms
        /\ fault' \in {"none"} \cup (IF joining.deleted THEN {"FreedRoom"} ELSE {})
        /\ joining' = NotJoining
        /\ UNCHANGED <<cache, entity, rebuild, taken, raced>>

Leave(s) ==
    /\ Ready(s)
    /\ entity[s].roomid # 0
    /\ LeaveRoom(s)
    /\ Handler({entity[s].roomid})

(* A request to join a room that lists the player already. *)
LeaveByJoin(s, id) ==
    /\ Ready(s)
    /\ entity[s].roomid \in {0, id}
    /\ Exists(id) /\ Listed(rooms[id].players, entity[s].roleid)
    /\ JoinRoom(s, id)
    /\ Handler({id})

Finish(s) ==
    /\ Ready(s)
    /\ entity[s].roomid # 0
    /\ GameOver(s)
    /\ Handler({entity[s].roomid})

-------------------------------------------------------------------------------
(* CKeepAliveInfo::LeaveRoom on the timer thread of s *)

At(s, at) == fault = "none" /\ rebuild[s].at = at

(* The room is looked up and its count read. *)
Begin(s) ==
    LET id == entity[s].roomid
    IN  /\ At(s, "idle")
        /\ s \in Silent
        /\ taken < MaxTaken
        /\ taken' = taken + 1
        /\ OwnRoom(s) # NULL
        /\ rebuild' = [rebuild EXCEPT ![s] =
              [NotRebuilding EXCEPT !.at = IF LastLeaves(rooms[id]) THEN "last" ELSE "copy",
                                    !.id = id, !.root = id, !.free = rooms[id].free + 1]]
        /\ UNCHANGED <<cacheVars, joining>>
        /\ Races({id})

Deleted(id) ==
    IF joining.at = "add" /\ joining.id = id THEN [joining EXCEPT !.deleted = TRUE] ELSE joining

(* The room of the player is removed, whichever that is by now. *)
RemoveLast(s) ==
    LET id == entity[s].roomid
    IN  /\ At(s, "last")
        /\ rooms' = WithoutRoom(id)
        /\ entity' = [entity EXCEPT ![s].roomid = 0]
        /\ rebuild' = PointersAfter({id}, [rebuild EXCEPT ![s] = NotRebuilding])
        /\ joining' = Deleted(id)
        /\ raced' = raced \cup (LeftRooms \ {0, rebuild[s].id})
        /\ UNCHANGED <<cache, fault, taken>>

(* Mutant of Copied: the player's own entry is copied, too. *)
CopiedAll(room, role, heirs) == Promote(room.players, heirs)

Copied(room, role, heirs) == Keep(Promote(room.players, heirs), Others(room.players, role))

(* The loop over the players of the room that was looked up, which makes   *)
(* the heir's entity captain.  If the room is deleted it may crash.        *)
Copy(s) ==
    LET room  == IF rebuild[s].old = NULL THEN rooms[rebuild[s].id] ELSE rebuild[s].old
        role  == entity[s].roleid
        heirs == Successor(room.players, role, entity[s].isroomctl)
    IN  /\ At(s, "copy")
        /\ \/ /\ rebuild' = [rebuild EXCEPT ![s].at = "out", ![s].old = NULL,
                                            ![s].players = Copied(room, role, heirs)]
              /\ entity' = [x \in Socket |->
                              IF x \in SocketsAt(room.players, heirs)
                                THEN [entity[x] EXCEPT !.isroomctl = TRUE] ELSE entity[x]]
              /\ UNCHANGED <<cache, rooms, fault>>
           \/ rebuild[s].old # NULL /\ Crash("FreedRoom") /\ UNCHANGED rebuild
        /\ UNCHANGED <<joining, taken, raced>>

(* rootID is what the entity says now; then it says 0. *)
Out(s) ==
    /\ At(s, "out")
    /\ rebuild' = [rebuild EXCEPT ![s].at = "remove", ![s].root = entity[s].roomid]
    /\ entity' = [entity EXCEPT ![s].roomid = 0]
    /\ raced' = raced \cup (LeftRooms \ {0, rebuild[s].id})
    /\ UNCHANGED <<cache, rooms, fault, joining, taken>>

Remove(s) ==
    /\ At(s, "remove")
    /\ rooms' = WithoutRoom(rebuild[s].root)
    /\ rebuild' = PointersAfter({rebuild[s].root}, [rebuild EXCEPT ![s].at = "insert"])
    /\ joining' = Deleted(rebuild[s].root)
    /\ UNCHANGED <<cache, entity, fault, taken, raced>>

Insert(s) ==
    /\ At(s, "insert")
    /\ rooms' = WithRoom(rebuild[s].root,
                         [free |-> rebuild[s].free, players |-> rebuild[s].players])
    /\ rebuild' = [rebuild EXCEPT ![s] = NotRebuilding]
    /\ UNCHANGED <<cache, entity, fault, joining, taken, raced>>

Timer(s) == Begin(s) \/ RemoveLast(s) \/ Copy(s) \/ Out(s) \/ Remove(s) \/ Insert(s)

-------------------------------------------------------------------------------
(* A bound: nothing is left to be contained. *)
Contained == ~(RandomID \subseteq raced)

RaceStep ==
    \/ \E s \in Socket :
          \/ \E id \in RoomID : Create(s, id) \/ BeginJoin(s, id) \/ LeaveByJoin(s, id)
          \/ Leave(s)
          \/ Finish(s)
          \/ Timer(s)
    \/ AddMember

RaceNext == Contained /\ RaceStep

RaceSpec == RaceInit /\ [][RaceNext]_raceVars

-------------------------------------------------------------------------------
(* What is true of a room that has id, and of its players, when nobody     *)
(* works on it.                                                            *)
Agrees(id, room) ==
    LET players == room.players
    IN  /\ room.free = PersonCount - Len(players)
        /\ players # <<>>
        /\ \A i, j \in DOMAIN players : players[i].seat = players[j].seat => i = j
        /\ \A i \in DOMAIN players :
              LET e == entity[players[i].socket]
              IN  /\ e.roomid = id
                  /\ e.roleid = players[i].roleid
                  /\ e.seat = players[i].seat
                  /\ players[i].isroomctl <=> i = 1
                  /\ players[i].isroomctl => e.isroomctl

Lists(room, s) == \E i \in DOMAIN room.players : room.players[i].socket = s

(* What the threads do to each other stays in the rooms they work on at    *)
(* once, and in those players have gone to while a timer still takes them  *)
(* out of another, or that one still lists them when its game ends: all    *)
(* other rooms and their players agree.  (0 is no id a room is given.)     *)
DamageContained ==
    /\ \A id \in RoomID \ {0} : Exists(id) /\ id \notin raced /\ ~Busy(id) => Agrees(id, rooms[id])
    /\ \A s \in Socket :
         LET id == entity[s].roomid
         IN  id # 0 /\ id \notin raced /\ ~Busy(id) => Exists(id) /\ Lists(rooms[id], s)

(* HallScene.cpp:606: a player who joins is recorded in the room.  Once    *)
(* nobody is at work, every player who is told a room is listed there.     *)
JoinedIsListed ==
    fault = "none" /\ joining.at = "idle" /\ (\A s \in Socket : ~Rebuilding(s)) =>
        \A s \in Socket : entity[s].roomid # 0 =>
            OwnRoom(s) # NULL /\ Lists(OwnRoom(s), s)
===============================================================================
