------------------------------ MODULE MainScene -------------------------------
(***************************************************************************)
(* CMainScene: the requests of players whose game is on.                   *)
(***************************************************************************)
EXTENDS HallScene

(* The PlayerInfo a client sends may say anything.                         *)
SentInfo == [isroomctl : BOOLEAN, seat : SeatName, gamewaite : BOOLEAN]

(* It leaves the captain's flag and the seat as the server has them.       *)
KeepsPlace(s, sent) ==
    sent.isroomctl = entity[s].isroomctl /\ sent.seat = entity[s].seat

(* CopyFrom overwrites the entity; roomid, socket and roleid are restored. *)
Overwritten(s, sent) ==
    [entity[s] EXCEPT !.isroomctl = sent.isroomctl, !.seat = sent.seat,
                      !.gamewaite = sent.gamewaite]

(* RsyncAttr and RsyncStatus treat the entity alike. *)
Rsync(s, sent) ==
    /\ Served(s)
    /\ OwnRoom(s) # NULL
    /\ entity' = [entity EXCEPT ![s] = Overwritten(s, sent)]
    /\ UNCHANGED <<cache, rooms, fault>>

(* Mutant of SentHome: the loop stops after the first player. *)
SentHomeFirst(players) == [entity EXCEPT ![players[1].socket].roomid = 0]

(* Every listed player is out of the room; nothing else of it is reset.    *)
SentHome(players) ==
    [x \in Socket |->
        IF x \in SocketsAt(players, DOMAIN players)
          THEN [entity[x] EXCEPT !.roomid = 0] ELSE entity[x]]

(* The end of the game dissolves the room.  A player whose entity is gone  *)
(* is dereferenced all the same.                                           *)
GameOver(s) ==
    LET players == OwnRoom(s).players
    IN  /\ Served(s)
        /\ OwnRoom(s) # NULL
        /\ \/ /\ SocketsAt(players, DOMAIN players) \subseteq cache
              /\ rooms' = WithoutRoom(entity[s].roomid)
              /\ entity' = SentHome(players)
              /\ UNCHANGED <<cache, fault>>
           \/ /\ ~(SocketsAt(players, DOMAIN players) \subseteq cache)
              /\ Crash("NullEntity")
===============================================================================
