------------------------------ MODULE GameServer ------------------------------
(***************************************************************************)
(* The server: the accept loop, the choice of a role, the lobby, the game  *)
(* and the timers over one cache.  Messages of all clients pass through    *)
(* one worker thread, so a handler is one step; so is a run of TimerFunc.  *)
(*                                                                         *)
(* Clients are not part of the repository.  They may send any request at   *)
(* any time, except that an instance of the model names in Hazards which   *)
(* of the following it admits:                                             *)
(*   "collision"   a drawn room id that a room already has                 *)
(*   "joinInRoom"  a request to join by a player who is in another room,   *)
(*                 or an accepted invitation by one who is in any          *)
(*   "sharedRole"  a role that a connected entity has, chosen on another   *)
(*                 socket; requests of the lobby without any role          *)
(*   "comeback"    a role that only an evicted entity's entry in a room    *)
(*                 still has, chosen on another socket                     *)
(*   "relogin"     another role chosen on a socket that has one            *)
(*   "reuse"       a socket number the system hands out a second time      *)
(*   "sync"        a PlayerInfo with another captain's flag or another     *)
(*                 seat than the server has                                *)
(*   "elsewhere"   an accepted invitation to a seat that rooms do not have *)
(***************************************************************************)
EXTENDS KeepAlive, RoomProperties

CONSTANTS
    Hazards,
    Beating,     \* the clients that send heartbeats; without one no timer starts
    Overfull     \* a bound: by how many players a room's count may be exceeded

HazardNames ==
    {"collision", "joinInRoom", "sharedRole", "comeback", "relogin", "reuse", "sync",
     "elsewhere"}

ASSUME HazardAssumption == Hazards \subseteq HazardNames /\ Beating \subseteq Socket

vars == <<cache, entity, rooms, fault, sendMsgCount, isBroken, hasThread, info, curscene>>

Init == CacheInit /\ KeepAliveInit

TypeOK == CacheTypeOK /\ KeepAliveTypeOK

Admits(hazard) == hazard \in Hazards

-------------------------------------------------------------------------------
(* Connections *)

(* accept returns a socket number that has no entity. *)
Connect(s) ==
    /\ fault = "none"
    /\ s \notin cache
    /\ info[s] = "none" \/ Admits("reuse")
    /\ cache' = cache \cup {s}
    /\ entity' = [entity EXCEPT ![s] = NewEntity]
    /\ UNCHANGED <<rooms, fault, keepAliveVars>>

(* accept returns a number whose last connection is closed but whose       *)
(* entity was not evicted: the new client gets the old entity.             *)
Reconnect(s) ==
    /\ Served(s)
    /\ Admits("reuse")
    /\ isBroken' = [isBroken EXCEPT ![s] = FALSE]
    /\ hasThread' = [hasThread EXCEPT ![s] = FALSE]
    /\ sendMsgCount' = [sendMsgCount EXCEPT ![s] = 0]
    /\ UNCHANGED <<cacheVars, info, curscene>>

HeldByEntity(u) == \E s \in cache : entity[s].roleid = u
HeldInRoom(u) == \E id \in RoomID : Exists(id) /\ Listed(rooms[id].players, u)

RoleMayBeChosen(s, u) ==
    /\ entity[s].roleid = 0 \/ Admits("relogin")
    /\ HeldByEntity(u) => Admits("sharedRole")
    /\ (HeldInRoom(u) /\ ~HeldByEntity(u)) => Admits("comeback")

(* SelectRole: the user id the database has for the session becomes the    *)
(* entity's roleid.                                                        *)
SelectRole(s, u) ==
    /\ Served(s)
    /\ RoleMayBeChosen(s, u)
    /\ entity' = [entity EXCEPT ![s].roleid = u]
    /\ UNCHANGED <<cache, rooms, fault>>

-------------------------------------------------------------------------------
(* Requests *)

HasRole(s) == entity[s].roleid # 0 \/ Admits("sharedRole")
Roomless(s) == entity[s].roomid = 0 \/ Admits("joinInRoom")
WithinBound(id) == Exists(id) => rooms[id].free + Overfull > 0
MayBeNamed(seat) == seat \in Seat \/ Admits("elsewhere")
Leaves(s, id) == Exists(id) /\ Listed(rooms[id].players, entity[s].roleid)

Lobby(s) ==
    /\ HasRole(s)
    /\ \/ \E id \in RoomID : /\ id = 0 => Admits("collision")
                             /\ CreateRoom(s, id)
       \/ \E id \in RoomID, seat \in SeatName :
            Roomless(s) /\ MayBeNamed(seat) /\ WithinBound(id) /\ JoinTeam(s, id, seat)
       \/ \E id \in RoomID : /\ Roomless(s) \/ entity[s].roomid = id
                             /\ ~Leaves(s, id) => WithinBound(id)
                             /\ JoinRoom(s, id)
       \/ LeaveRoom(s)
       \/ GameWaite(s)
       \/ GameStartCrash(s)

Game(s) ==
    /\ HasRole(s)
    /\ \/ \E sent \in SentInfo : (KeepsPlace(s, sent) \/ Admits("sync")) /\ Rsync(s, sent)
       \/ GameOver(s)

Next ==
    \E s \in Socket :
        \/ Connect(s)
        \/ Reconnect(s)
        \/ \E u \in UserID : SelectRole(s, u) /\ UNCHANGED keepAliveVars
        \/ Lobby(s) /\ UNCHANGED keepAliveVars
        \/ Game(s) /\ UNCHANGED keepAliveVars
        \/ s \in Beating /\ \E scene \in Scene : Heartbeat(s, scene)
        \/ TimerFunc(s)

Spec == Init /\ [][Next]_vars

-------------------------------------------------------------------------------
(* What comments of the code say *)

(* MainScene.cpp:159: the end of the game deletes the room.                *)
GameOverDeletesRoom ==
    [][\A s \in Socket : GameOver(s) => rooms'[entity[s].roomid] = NULL]_vars

(* HallScene.cpp:669: when the last player leaves, the room is deleted; so *)
(* there is never a room without players.                                  *)
NoEmptyRoom == \A id \in RoomID : Exists(id) => Players(id) # <<>>
===============================================================================
