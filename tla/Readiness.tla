------------------------------- MODULE Readiness -------------------------------
(***************************************************************************)
(* The ready switch of the lobby and the start of a game.  The switch is   *)
(* gamewaite of the player's entity.  GameWaite turns it, a PlayerInfo the *)
(* player sends overwrites it, and GameStart asks for it; no handler       *)
(* resets it.  Two histories remember what the players have done.          *)
(***************************************************************************)
EXTENDS RoomProperties

VARIABLES
    pressed,  \* the player has set the switch to ready in the room it is in
    started   \* the rooms whose players were sent the list to start with

readinessVars == <<cache, entity, rooms, fault, pressed, started>>

(* Every socket has an entity and a role of its own, as after SelectRole. *)
ReadinessInit ==
    /\ cache = Socket
    /\ \E role \in [Socket -> UserID] :
          /\ \A s, x \in Socket : role[s] = role[x] => s = x
          /\ entity = [s \in Socket |-> [NewEntity EXCEPT !.roleid = role[s]]]
    /\ rooms = [id \in RoomID |-> NULL]
    /\ fault = "none"
    /\ pressed = [s \in Socket |-> FALSE]
    /\ started = {}

ReadinessTypeOK ==
    /\ CacheTypeOK
    /\ SeatsExist
    /\ pressed \in [Socket -> BOOLEAN]
    /\ started \subseteq RoomID

(* A room that is gone has not started. *)
Restarted == {id \in started : rooms'[id] # NULL}

Create(s, id) ==
    /\ id # 0
    /\ CreateRoom(s, id)
    /\ pressed' = [pressed EXCEPT ![s] = FALSE]
    /\ started' = started

Join(s, id) ==
    /\ entity[s].roomid = 0
    /\ Exists(id)
    /\ JoinRoom(s, id) \/ \E seat \in Seat : JoinTeam(s, id, seat)
    /\ pressed' = [pressed EXCEPT ![s] = FALSE]
    /\ started' = started

(* A request to join the room one is in is a leave, too. *)
Leave(s) ==
    /\ OwnRoom(s) # NULL
    /\ LeaveRoom(s) \/ JoinRoom(s, entity[s].roomid)
    /\ pressed' = pressed
    /\ started' = Restarted

Switch(s) ==
    /\ OwnRoom(s) # NULL
    /\ GameWaite(s)
    /\ pressed' = [pressed EXCEPT ![s] = ~entity[s].gamewaite]
    /\ started' = started

(* RsyncAttr or RsyncStatus; its sender leaves flag and seat as they are,  *)
(* but may set the switch.                                                 *)
Sync(s) ==
    \E sent \in SentInfo :
        /\ KeepsPlace(s, sent)
        /\ Rsync(s, sent)
        /\ pressed' = [pressed EXCEPT ![s] = sent.gamewaite]
        /\ started' = started

(* GameStart by anyone in the room, once all the others are ready. *)
Start(s) ==
    /\ Served(s)
    /\ OwnRoom(s) # NULL
    /\ StartApproved(s)
    /\ started' = started \cup {entity[s].roomid}
    /\ UNCHANGED <<cacheVars, pressed>>

(* The game is over.  The switches stay as they are. *)
Finish(s) ==
    /\ GameOver(s)
    /\ pressed' = pressed
    /\ started' = Restarted

ReadinessNext ==
    \E s \in Socket :
        \/ \E id \in RoomID : Create(s, id) \/ Join(s, id)
        \/ Leave(s)
        \/ Switch(s)
        \/ Sync(s)
        \/ Start(s)
        \/ Finish(s)

ReadinessSpec == ReadinessInit /\ [][ReadinessNext]_readinessVars

-------------------------------------------------------------------------------
(* HallScene.cpp:809, 833: the game starts once all players of the room    *)
(* are ready.  All but the one who asks have then set the switch to ready, *)
(* and not back, since they came into this room.                           *)
StartsWhenAllPressed ==
    [][\A s \in Socket : Start(s) =>
         \A i \in Others(OwnRoom(s).players, entity[s].roleid) :
            pressed[OwnRoom(s).players[i].socket]]_readinessVars
===============================================================================
