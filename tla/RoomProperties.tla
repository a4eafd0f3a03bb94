----------------------------- MODULE RoomProperties ----------------------------
(***************************************************************************)
(* What the server keeps true of its rooms.  The modules that compose the  *)
(* handlers with clients, timers and histories state these of their steps. *)
(***************************************************************************)
EXTENDS MainScene

Players(id) == rooms[id].players

(* No two players of a room sit on the same seat, whatever the clients     *)
(* send and whoever comes, leaves, falls silent or is evicted in between:  *)
(* JoinTeam tests the seat the invitation names and JoinRoom chooses one   *)
(* that no listed player has.                                              *)
SeatsDistinct ==
    \A id \in RoomID : Exists(id) =>
        \A i, j \in DOMAIN Players(id) :
            Players(id)[i].seat = Players(id)[j].seat => i = j

(* Every seat that was given to a player is one the room has.              *)
SeatsExist == \A id \in RoomID : Exists(id) => SeatsOf(rooms[id]) \subseteq Seat

(* freepersoncount, which is kept by adding and subtracting, is always the *)
(* number of places the player list leaves, and no room is empty: the      *)
(* comparison with personcount does find the last player.                  *)
FreeCount ==
    \A id \in RoomID : Exists(id) =>
        /\ rooms[id].free = PersonCount - Len(Players(id))
        /\ Players(id) # <<>>

(* A player is listed once: neither its roleid nor its socket has a second *)
(* entry in this or in another room.                                       *)
RoleOnce ==
    \A id, jd \in RoomID : Exists(id) /\ Exists(jd) =>
        \A i \in DOMAIN Players(id), j \in DOMAIN Players(jd) :
            \/ Players(id)[i].roleid = Players(jd)[j].roleid
            \/ Players(id)[i].socket = Players(jd)[j].socket
            => id = jd /\ i = j

(* Entity and entry: an entry of a connected socket is of the role, in the *)
(* room and on the seat its entity says.                                   *)
EntryHasEntity ==
    \A id \in RoomID : Exists(id) =>
        \A i \in DOMAIN Players(id) :
            LET m == Players(id)[i]
            IN  m.socket \in cache =>
                    /\ entity[m.socket].roomid = id
                    /\ entity[m.socket].roleid = m.roleid
                    /\ entity[m.socket].seat = m.seat

(* And back: an entity that is in a room is listed there.  So no handler   *)
(* finds its own room gone while the entity says it is in one.             *)
EntityHasEntry ==
    \A s \in cache : entity[s].roomid # 0 =>
        /\ OwnRoom(s) # NULL
        /\ \E i \in DOMAIN OwnRoom(s).players : OwnRoom(s).players[i].socket = s

(* A room has one captain, the player longest in it, and the captain's     *)
(* entity knows: so the LeaveRoom of the captain does choose a successor,  *)
(* although the entities of former captains keep the flag.                 *)
CaptainFirst ==
    \A id \in RoomID : Exists(id) =>
        \A i \in DOMAIN Players(id) :
            LET m == Players(id)[i]
            IN  /\ m.isroomctl <=> i = 1
                /\ m.isroomctl /\ m.socket \in cache => entity[m.socket].isroomctl

-------------------------------------------------------------------------------
(* The promise of the lobby *)

PartyView ==
    [id \in RoomID |->
        IF Exists(id) THEN [i \in DOMAIN Players(id) |-> Players(id)[i].roleid] ELSE <<>>]

Registry ==
    INSTANCE RoomRegistry WITH User <- UserID, Id <- RoomID, Capacity <- PersonCount,
                               party <- PartyView

(* The rooms, seen as lists of roles, behave as RoomRegistry says: a step  *)
(* of the server opens or closes one room, or lets one user in or out, or  *)
(* leaves all rooms as they are.                                           *)
KeepsRegistry == Registry!Spec
===============================================================================
