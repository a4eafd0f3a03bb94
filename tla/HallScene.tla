------------------------------ MODULE HallScene -------------------------------
(***************************************************************************)
(* CHallScene: what the lobby's requests do to the cache.  One worker      *)
(* thread runs the handlers, so each is one step.  RequestTeam,            *)
(* OnlineFriend and GetRoomList change nothing and are not here.           *)
(***************************************************************************)
EXTENDS Cache

(* The first draw counts: if a room has it, the function draws again but   *)
(* throws the second result away and returns 0.                            *)
GenrateOnlyRoomID ==
    {id \in RandomID : ~Exists(id)} \cup (IF \E id \in RandomID : Exists(id) THEN {0} ELSE {})

CreateRoom(s, id) ==
    /\ Served(s)
    /\ entity[s].roomid = 0
    /\ id \in GenrateOnlyRoomID
    /\ rooms' = WithRoom(id, NewRoom([socket |-> s, roleid |-> entity[s].roleid,
                                      isroomctl |-> TRUE, seat |-> FirstSeat]))
    /\ entity' = [entity EXCEPT ![s].isroomctl = TRUE, ![s].roomid = id,
                                ![s].seat = FirstSeat]
    /\ UNCHANGED <<cache, fault>>

(* Mutant of Admit: the entity is not told its seat. *)
AdmitUnseated(s, id, seat) ==
    /\ rooms' = [rooms EXCEPT ![id] =
                    Seated(rooms[id], [socket |-> s, roleid |-> entity[s].roleid,
                                       isroomctl |-> FALSE, seat |-> seat])]
    /\ entity' = [entity EXCEPT ![s].roomid = id]
    /\ UNCHANGED <<cache, fault>>

(* The entry a room gets for an admitted player, and the entity's side. *)
Admit(s, id, seat) ==
    /\ rooms' = [rooms EXCEPT ![id] =
                    Seated(rooms[id], [socket |-> s, roleid |-> entity[s].roleid,
                                       isroomctl |-> FALSE, seat |-> seat])]
    /\ entity' = [entity EXCEPT ![s].roomid = id, ![s].seat = seat]
    /\ UNCHANGED <<cache, fault>>

(* Mutant of SeatIsFree: only the captain's seat is compared. *)
SeatIsFreeOfCaptain(id, seat) ==
    \A i \in DOMAIN rooms[id].players : i = 1 => rooms[id].players[i].seat # seat

(* The seat an invitation names must be free; nothing else is asked. *)
SeatIsFree(id, seat) == seat \notin SeatsOf(rooms[id])

(* An accepted invitation.  The room is tested for NULL twice and then     *)
(* dereferenced without a test to collect the receivers of the answer.     *)
JoinTeam(s, id, seat) ==
    /\ Served(s)
    /\ \/ ~Exists(id) /\ Crash("NullRoom")
       \/ Exists(id) /\ SeatIsFree(id, seat) /\ Admit(s, id, seat)

(* Mutant of Listed: only the captain is compared. *)
ListedFirst(players, role) == players[1].roleid = role

Listed(players, role) == \E i \in DOMAIN players : players[i].roleid = role

(* Mutants of Departed: the roomid stays; the heir's entity is not marked. *)
DepartedOnPaper(s, heirs) ==
    [x \in Socket |->
        IF x \in heirs \cap cache THEN [entity[x] EXCEPT !.isroomctl = TRUE] ELSE entity[x]]
DepartedUnmarked(s, heirs) ==
    [entity EXCEPT ![s].roomid = 0]

(* s is out of its room and the heirs it left are captains, in their       *)
(* entities too as far as they still have one.                             *)
Departed(s, heirs) ==
    [x \in Socket |->
        LET e == IF x \in heirs \cap cache THEN [entity[x] EXCEPT !.isroomctl = TRUE]
                                           ELSE entity[x]
        IN  IF x = s THEN [e EXCEPT !.roomid = 0] ELSE e]

SocketsAt(players, K) == {players[i].socket : i \in K}

(* A request to join a room that lists the player's roleid takes the       *)
(* player out of that room.                                                *)
Rejoin(s, id) ==
    LET room  == rooms[id]
        role  == entity[s].roleid
        heirs == SuccessorBehind(room.players, role)
    IN  /\ \/ /\ LastLeaves(room)
              /\ rooms' = WithoutRoom(id)
              /\ entity' = Departed(s, {})
           \/ /\ ~LastLeaves(room)
              /\ rooms' = [rooms EXCEPT ![id] = Rebuilt(room, role, heirs)]
              /\ entity' = Departed(s, SocketsAt(room.players, heirs))
        /\ UNCHANGED <<cache, fault>>

(* JoinRoom; an absent room or a full one that does not list the player    *)
(* changes nothing.                                                        *)
JoinRoom(s, id) ==
    /\ Served(s)
    /\ Exists(id)
    /\ \/ Listed(rooms[id].players, entity[s].roleid) /\ Rejoin(s, id)
       \/ /\ ~Listed(rooms[id].players, entity[s].roleid)
          /\ \E seat \in FirstIdle(rooms[id]) : Admit(s, id, seat)

(* The body of CHallScene::LeaveRoom and CKeepAliveInfo::LeaveRoom. *)
LeaveOwnRoom(s) ==
    LET id    == entity[s].roomid
        room  == rooms[id]
        role  == entity[s].roleid
        heirs == Successor(room.players, role, entity[s].isroomctl)
    IN  \/ /\ LastLeaves(room)
           /\ rooms' = WithoutRoom(id)
           /\ entity' = Departed(s, {})
           /\ UNCHANGED <<cache, fault>>
        \/ /\ ~LastLeaves(room)
           /\ SocketsAt(room.players, heirs) \subseteq cache
           /\ rooms' = [rooms EXCEPT ![id] = Rebuilt(room, role, heirs)]
           /\ entity' = Departed(s, SocketsAt(room.players, heirs))
           /\ UNCHANGED <<cache, fault>>
        \/ /\ ~LastLeaves(room)
           /\ ~(SocketsAt(room.players, heirs) \subseteq cache)
           /\ Crash("NullEntity")

LeaveRoom(s) ==
    /\ Served(s)
    /\ OwnRoom(s) # NULL
    /\ LeaveOwnRoom(s)

(* The ready switch; the room is dereferenced without a test. *)
GameWaite(s) ==
    /\ Served(s)
    /\ \/ OwnRoom(s) = NULL /\ Crash("NullRoom")
       \/ /\ OwnRoom(s) # NULL
          /\ entity' = [entity EXCEPT ![s].gamewaite = ~entity[s].gamewaite]
          /\ UNCHANGED <<cache, rooms, fault>>

(* The entries GameStart looks up before it meets one that is not ready. *)
Polled(s) ==
    LET players == OwnRoom(s).players
        others  == Others(players, entity[s].roleid)
        ready(i) == players[i].socket \in cache /\ entity[players[i].socket].gamewaite
    IN  {i \in others : \A j \in others : j < i => ready(j)}

(* GameStart changes nothing in the cache: it answers, with the players if *)
(* all others are ready, or dies on an entry whose entity is gone.         *)
StartApproved(s) ==
    \A i \in Others(OwnRoom(s).players, entity[s].roleid) :
        entity[OwnRoom(s).players[i].socket].gamewaite

GameStartCrash(s) ==
    /\ Served(s)
    /\ \/ OwnRoom(s) = NULL /\ Crash("NullRoom")
       \/ /\ OwnRoom(s) # NULL
          /\ ~(SocketsAt(OwnRoom(s).players, Polled(s)) \subseteq cache)
          /\ Crash("NullEntity")
===============================================================================
