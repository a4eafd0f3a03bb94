-------------------------------- MODULE Cache ---------------------------------
(***************************************************************************)
(* CCache: the entities of the connected clients by socket, the rooms by   *)
(* id.  A handler that dereferences what a lookup did not find takes the   *)
(* process down; fault records it and nothing happens afterwards.          *)
(***************************************************************************)
EXTENDS RoomInfo

CONSTANTS
    RandomID,   \* the ids GenrateRandomID can draw
    NULL        \* no room

ASSUME RoomAssumption == 0 \notin RandomID /\ NULL \notin Room

VARIABLES
    cache,      \* m_mCClientEntity: the sockets that have an entity
    entity,     \* the entity's roleInfo, per socket
    rooms,      \* m_mEntityRoom
    fault       \* "none" while the process lives

cacheVars == <<cache, entity, rooms, fault>>

RoomID == RandomID \cup {0}

Entity ==
    [roleid : RoleID, isroomctl : BOOLEAN, roomid : RoomID, seat : SeatName,
     gamewaite : BOOLEAN]

(* A PlayerInfo nobody has filled in: the defaults of proto2. *)
NewEntity ==
    [roleid |-> 0, isroomctl |-> FALSE, roomid |-> 0, seat |-> FirstSeat,
     gamewaite |-> FALSE]

Fault == {"none", "NullRoom", "NullEntity", "FreedInfo", "FreedRoom"}

CacheInit ==
    /\ cache = {}
    /\ entity = [s \in Socket |-> NewEntity]
    /\ rooms = [id \in RoomID |-> NULL]
    /\ fault = "none"

CacheTypeOK ==
    /\ cache \in SUBSET Socket
    /\ entity \in [Socket -> Entity]
    /\ rooms \in [RoomID -> Room \cup {NULL}]
    /\ fault \in Fault

(* The process lives and CheckSessionValid finds the socket's entity. *)
Served(s) == fault = "none" /\ s \in cache

Exists(id) == rooms[id] # NULL
OwnRoom(s) == rooms[entity[s].roomid]

(* The process dies: what it held is gone with it. *)
Crash(kind) ==
    /\ fault' = kind
    /\ UNCHANGED <<cache, entity, rooms>>

(* CCache::CreateRoom keeps a room that is already there. *)
WithRoom(id, room) == IF Exists(id) THEN rooms ELSE [rooms EXCEPT ![id] = room]

(* Mutant of WithoutRoom: the room stays in the map. *)
WithoutRoomKept(id) == rooms

(* CCache::EntityRoomRemoveMember removes the room, not one member. *)
WithoutRoom(id) == [rooms EXCEPT ![id] = NULL]
===============================================================================
