------------------------------ MODULE KeepAlive -------------------------------
(***************************************************************************)
(* CKeepAlive and the timer of CClientEntity: every tick counts one more   *)
(* unanswered heartbeat; a heartbeat of the client resets the count.  A    *)
(* long silence takes the player out of the room, then removes the entity. *)
(***************************************************************************)
EXTENDS MainScene

CONSTANTS
    LateCount,   \* ticks until the player leaves the room (3 in the code)
    LostCount,   \* ticks until the other players are told (10)
    EvictCount   \* ticks until the entity is erased (30)

ASSUME CountAssumption ==
    /\ {LateCount, LostCount, EvictCount} \subseteq Nat
    /\ 0 < LateCount /\ LateCount < LostCount /\ LostCount < EvictCount

VARIABLES
    sendMsgCount,  \* m_iSendMsgCount
    isBroken,      \* isBroken of the entity
    hasThread,     \* m_HasThread: a timer thread runs for the entity
    info,          \* keepAliveInfoMap: no object, one, or a pointer to a deleted one
    curscene       \* the scene in the heartbeat that object keeps

keepAliveVars == <<sendMsgCount, isBroken, hasThread, info, curscene>>

Scene == {"WaitRoom", "MainScene"}

KeepAliveInit ==
    /\ sendMsgCount = [s \in Socket |-> 0]
    /\ isBroken = [s \in Socket |-> FALSE]
    /\ hasThread = [s \in Socket |-> FALSE]
    /\ info = [s \in Socket |-> "none"]
    /\ curscene = [s \in Socket |-> "WaitRoom"]

KeepAliveTypeOK ==
    /\ sendMsgCount \in [Socket -> 0..EvictCount]
    /\ isBroken \in [Socket -> BOOLEAN]
    /\ hasThread \in [Socket -> BOOLEAN]
    /\ info \in [Socket -> {"none", "live", "freed"}]
    /\ curscene \in [Socket -> Scene]

(* A heartbeat: CKeepAlive::Start, which asks for no session.  It writes   *)
(* through the pointer the map holds, also one whose object TimerFunc has  *)
(* deleted: then the write may go unnoticed or take the process down.      *)
Heartbeat(s, scene) ==
    /\ fault = "none"
    /\ s \in cache
    /\ \/ /\ sendMsgCount' = [sendMsgCount EXCEPT ![s] = 0]
          /\ isBroken' = [isBroken EXCEPT ![s] = FALSE]
          /\ hasThread' = [hasThread EXCEPT ![s] = TRUE]
          /\ info' = [info EXCEPT ![s] = IF hasThread[s] THEN info[s] ELSE "live"]
          /\ curscene' = [curscene EXCEPT ![s] = scene]
          /\ UNCHANGED cacheVars
       \/ /\ info[s] = "freed"
          /\ Crash("FreedInfo")
          /\ UNCHANGED keepAliveVars

(* Mutant of Lost: without its upper end. *)
LostOpen(s) == LostCount <= sendMsgCount[s]

Late(s)  == LateCount <= sendMsgCount[s] /\ sendMsgCount[s] < LostCount
Lost(s)  == LostCount <= sendMsgCount[s] /\ sendMsgCount[s] < EvictCount
Evicted(s) == EvictCount <= sendMsgCount[s]

(* A silent player in the lobby is taken out of the room, once. *)
MustLeave(s) == ~isBroken[s] /\ curscene[s] = "WaitRoom"

(* What TimerFunc does to the flag: set it first, clear it while the       *)
(* player is lost, and count the heartbeat it then sends.                  *)
Counted(s, broken) ==
    /\ isBroken' = [isBroken EXCEPT ![s] = broken]
    /\ sendMsgCount' = [sendMsgCount EXCEPT ![s] = sendMsgCount[s] + 1]
    /\ UNCHANGED <<hasThread, info, curscene>>

TickLate(s) ==
    /\ Late(s)
    /\ IF MustLeave(s) /\ OwnRoom(s) # NULL THEN LeaveOwnRoom(s) ELSE UNCHANGED cacheVars
    /\ Counted(s, TRUE)

(* The entity leaves the map; the room it may be in keeps its entry.  The  *)
(* object is not deleted, but nothing refers to it any more.               *)
TickEvict(s) ==
    /\ Evicted(s)
    /\ cache' = cache \ {s}
    /\ entity' = [entity EXCEPT ![s] = NewEntity]
    /\ info' = [info EXCEPT ![s] = "freed"]
    /\ sendMsgCount' = [sendMsgCount EXCEPT ![s] = 0]
    /\ isBroken' = [isBroken EXCEPT ![s] = FALSE]
    /\ hasThread' = [hasThread EXCEPT ![s] = FALSE]
    /\ curscene' = [curscene EXCEPT ![s] = "WaitRoom"]
    /\ UNCHANGED <<rooms, fault>>

(* One run of TimerFunc for the entity of s. *)
TimerFunc(s) ==
    /\ Served(s)
    /\ hasThread[s]
    /\ \/ sendMsgCount[s] < LateCount /\ Counted(s, isBroken[s]) /\ UNCHANGED cacheVars
       \/ TickLate(s)
       \/ Lost(s) /\ Counted(s, FALSE) /\ UNCHANGED cacheVars
       \/ TickEvict(s)
===============================================================================
