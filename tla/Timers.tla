-------------------------------- MODULE Timers --------------------------------
(***************************************************************************)
(* The timer threads of CClientEntity.  Each entity may have some; all of  *)
(* them look at one static preTime and set it when they have fired.  The   *)
(* worker thread starts timers and resets their counts (heartbeats), the   *)
(* accept thread stops them when a socket number comes back.  What firing  *)
(* does to rooms is in KeepAlive; here it counts and evicts.               *)
(***************************************************************************)
EXTENDS Integers, FiniteSets

CONSTANTS
    Entity,      \* the CClientEntity objects
    Reused,      \* a bound: the entities whose socket number comes back
    MaxThreads,  \* a bound: threads of one entity
    DeltaTime,   \* m_iDeltaTime (1 second)
    EvictCount   \* unanswered heartbeats until the entity is erased (30)

ASSUME TimerAssumption ==
    /\ Reused \subseteq Entity
    /\ MaxThreads \in Nat \ {0}
    /\ DeltaTime \in Nat
    /\ EvictCount \in Nat \ {0}

VARIABLES
    elapsed,     \* time(0) - preTime, as far as the comparison tells it
    cached,      \* the entities in m_mCClientEntity
    power,       \* m_ThreadPower: the threads of the entity shall end
    hasThread,   \* m_HasThread
    count,       \* m_iSendMsgCount
    arg,         \* m_pTimeFuncArg
    thread,      \* where each thread is, and the count it has read
    quiet,       \* history: seconds since the count was last reset
    restarted,   \* history: the entities whose timer has been stopped by a reconnect
    overtaken,   \* history: a count read before the last reset is written after it
    fault        \* a thread has used a deleted argument and the process died

vars == <<elapsed, cached, power, hasThread, count, arg, thread, quiet, restarted,
          overtaken, fault>>

Thread == Entity \X (1..MaxThreads)
Interval == DeltaTime + 1
MaxQuiet == Interval * EvictCount

Idle == [at |-> "none", n |-> 0]

Init ==
    /\ elapsed = 0
    /\ cached = Entity
    /\ power = [e \in Entity |-> FALSE]
    /\ hasThread = [e \in Entity |-> FALSE]
    /\ count = [e \in Entity |-> 0]
    /\ arg = [e \in Entity |-> "none"]
    /\ thread = [t \in Thread |-> Idle]
    /\ quiet = [e \in Entity |-> 0]
    /\ restarted = {}
    /\ overtaken = {}
    /\ fault = FALSE

TypeOK ==
    /\ elapsed \in 0..Interval
    /\ cached \in SUBSET Entity
    /\ power \in [Entity -> BOOLEAN]
    /\ hasThread \in [Entity -> BOOLEAN]
    /\ count \in [Entity -> 0..EvictCount]
    /\ arg \in [Entity -> {"none", "live", "deleted"}]
    /\ thread \in [Thread -> [at : {"none", "look", "fire", "count"}, n : 0..EvictCount]]
    /\ quiet \in [Entity -> 0..MaxQuiet]
    /\ restarted \in SUBSET Entity
    /\ overtaken \in SUBSET Entity
    /\ fault \in BOOLEAN

Running(e) == {t \in Thread : t[1] = e /\ thread[t].at # "none"}

-------------------------------------------------------------------------------
(* The clock *)

Second ==
    /\ ~fault
    /\ elapsed' = IF elapsed < Interval THEN elapsed + 1 ELSE elapsed
    /\ quiet' = [e \in Entity |-> IF quiet[e] < MaxQuiet THEN quiet[e] + 1 ELSE MaxQuiet]
    /\ UNCHANGED <<cached, power, hasThread, count, arg, thread, restarted, overtaken, fault>>

-------------------------------------------------------------------------------
(* The worker thread: CKeepAlive::Start *)

(* A thread that has read the count and not written it will undo a reset.  *)
Undoing(e) == \E t \in Running(e) : thread[t].at = "count"

CountReset(e) ==
    /\ count' = [count EXCEPT ![e] = 0]
    /\ quiet' = [quiet EXCEPT ![e] = 0]
    /\ overtaken' = IF Undoing(e) THEN overtaken \cup {e} ELSE overtaken \ {e}

(* Mutant of StartsTimer: m_HasThread is not set. *)
StartsTimerUnmarked(e, t) ==
    /\ thread' = [thread EXCEPT ![t].at = "look"]
    /\ arg' = [arg EXCEPT ![e] = "live"]
    /\ power' = [power EXCEPT ![e] = FALSE]
    /\ UNCHANGED hasThread

(* SetTimerMutex, with a new argument. *)
StartsTimer(e, t) ==
    /\ thread' = [thread EXCEPT ![t].at = "look"]
    /\ arg' = [arg EXCEPT ![e] = "live"]
    /\ power' = [power EXCEPT ![e] = FALSE]
    /\ hasThread' = [hasThread EXCEPT ![e] = TRUE]

Heartbeat(e) ==
    /\ ~fault
    /\ e \in cached
    /\ CountReset(e)
    /\ IF hasThread[e]
         THEN UNCHANGED <<power, hasThread, arg, thread>>
         ELSE \E t \in Thread : t[1] = e /\ thread[t].at = "none" /\ StartsTimer(e, t)
    /\ UNCHANGED <<elapsed, cached, restarted, fault>>

-------------------------------------------------------------------------------
(* The accept thread *)

(* The socket number of an entity that is still there: its timer is told   *)
(* to end, which it does when it next looks.                               *)
Reconnect(e) ==
    /\ ~fault
    /\ e \in cached \cap Reused
    /\ hasThread' = [hasThread EXCEPT ![e] = FALSE]
    /\ power' = [power EXCEPT ![e] = TRUE]
    /\ CountReset(e)
    /\ restarted' = restarted \cup {e}
    /\ UNCHANGED <<elapsed, cached, arg, thread, fault>>

-------------------------------------------------------------------------------
(* SetTimerMutexThread: the loop of one thread *)

Due == elapsed > DeltaTime

(* m_ThreadPower, then the clock.  Nothing sleeps: a loop that is not due  *)
(* looks again at once.                                                    *)
Look(t) ==
    /\ thread[t].at = "look"
    /\ \/ power[t[1]] /\ thread' = [thread EXCEPT ![t].at = "none"]
       \/ ~power[t[1]] /\ Due /\ thread' = [thread EXCEPT ![t].at = "fire"]
    /\ UNCHANGED <<elapsed, cached, power, hasThread, count, arg, quiet, restarted,
                   overtaken, fault>>

(* Mutant of Returns: preTime is not set. *)
ReturnsUnset(t) ==
    /\ UNCHANGED elapsed
    /\ thread' = [thread EXCEPT ![t] = [at |-> "look", n |-> 0]]

(* TimerFunc has returned; preTime is now. *)
Returns(t) ==
    /\ elapsed' = 0
    /\ thread' = [thread EXCEPT ![t] = [at |-> "look", n |-> 0]]

(* Mutant of Evict: StopTimerMutex is forgotten. *)
EvictRunning(t) ==
    LET e == t[1]
    IN  /\ thread[t].at = "fire" /\ arg[e] = "live" /\ count[e] >= EvictCount
        /\ cached' = cached \ {e}
        /\ arg' = [arg EXCEPT ![e] = "deleted"]
        /\ count' = [count EXCEPT ![e] = 0]
        /\ Returns(t)
        /\ UNCHANGED <<power, hasThread, quiet, restarted, overtaken, fault>>

(* TimerFunc erases the entity, deletes its own argument and stops. *)
Evict(t) ==
    LET e == t[1]
    IN  /\ thread[t].at = "fire" /\ arg[e] = "live" /\ count[e] >= EvictCount
        /\ cached' = cached \ {e}
        /\ arg' = [arg EXCEPT ![e] = "deleted"]
        /\ power' = [power EXCEPT ![e] = TRUE]
        /\ count' = [count EXCEPT ![e] = 0]
        /\ Returns(t)
        /\ UNCHANGED <<hasThread, quiet, restarted, overtaken, fault>>

(* Mutant of ReadCount: one more tick after the last. *)
ReadCountAtLimit(t) ==
    LET e == t[1]
    IN  /\ thread[t].at = "fire" /\ arg[e] = "live" /\ count[e] <= EvictCount
        /\ thread' = [thread EXCEPT ![t] = [at |-> "count", n |-> count[e]]]
        /\ UNCHANGED <<elapsed, cached, power, hasThread, count, arg, quiet, restarted,
                       overtaken, fault>>

(* TimerFunc, up to where m_iSendMsgCount++ reads the count. *)
ReadCount(t) ==
    LET e == t[1]
    IN  /\ thread[t].at = "fire" /\ arg[e] = "live" /\ count[e] < EvictCount
        /\ thread' = [thread EXCEPT ![t] = [at |-> "count", n |-> count[e]]]
        /\ UNCHANGED <<elapsed, cached, power, hasThread, count, arg, quiet, restarted,
                       overtaken, fault>>

(* On an argument that another thread has deleted TimerFunc finds no       *)
(* entity, or the process dies.                                            *)
UseDeleted(t) ==
    /\ thread[t].at = "fire" /\ arg[t[1]] = "deleted"
    /\ \/ Returns(t) /\ UNCHANGED fault
       \/ fault' = TRUE /\ UNCHANGED <<elapsed, thread>>
    /\ UNCHANGED <<cached, power, hasThread, count, arg, quiet, restarted, overtaken>>

(* Mutant of WriteCount: the heartbeat sent is not counted. *)
WriteCountSame(t) ==
    /\ thread[t].at = "count"
    /\ count' = [count EXCEPT ![t[1]] = thread[t].n]
    /\ Returns(t)
    /\ UNCHANGED <<cached, power, hasThread, arg, quiet, restarted, overtaken, fault>>

(* m_iSendMsgCount++ writes what it has read, plus one. *)
WriteCount(t) ==
    /\ thread[t].at = "count"
    /\ count' = [count EXCEPT ![t[1]] = thread[t].n + 1]
    /\ Returns(t)
    /\ UNCHANGED <<cached, power, hasThread, arg, quiet, restarted, overtaken, fault>>

TimerThread(t) == 
    /\ ~fault
    /\ Look(t) \/ Evict(t) \/ ReadCount(t) \/ UseDeleted(t) \/ WriteCount(t)

-------------------------------------------------------------------------------
Next ==
    \/ Second
    \/ \E e \in Entity : Heartbeat(e) \/ Reconnect(e)
    \/ \E t \in Thread : TimerThread(t)

(* Time passes, and every timer thread is a loop that never sleeps. *)
Spec ==
    /\ Init /\ [][Next]_vars
    /\ WF_vars(Second)
    /\ \A t \in Thread : WF_vars(TimerThread(t))

-------------------------------------------------------------------------------
(* An entity whose socket number was not handed out again has one timer    *)
(* thread at most: heartbeats start no second one.                         *)
OneTimer == \A e \in Entity \ restarted : Cardinality(Running(e)) <= 1

(* A timer never works on an argument that is deleted, unless the entity   *)
(* was given a second thread by a reconnect.                               *)
ArgumentLives ==
    \A t \in Thread :
        thread[t].at = "fire" /\ t[1] \notin restarted => arg[t[1]] = "live"

(* No client is counted silent faster than one timer alone would: apart    *)
(* from the first, unanswered heartbeats are two changes of time(0) apart, *)
(* however many timers share preTime.  After a reset that was undone, the  *)
(* next heartbeat repairs it.  (The comments have another pace: a tick     *)
(* every second at KeepAlive.cpp:48, and 3 minutes for 30 ticks at 127.)   *)
CountsSlowly ==
    \A e \in Entity \ (restarted \cup overtaken) :
        e \in cached => quiet[e] >= Interval * (count[e] - 1)

(* Once all clients have fallen silent for good, all entities that have a  *)
(* timer are evicted: the timers may postpone, but not stop each other.    *)
AllSilentEvicted ==
    <>[][\A e \in Entity : ~Heartbeat(e)]_vars
        => <>[](fault \/ \A t \in Thread : thread[t].at = "none")
===============================================================================
