----------------------------- MODULE TimersProofs ------------------------------
(***************************************************************************)
(* For any entities, any number of their threads, any interval and any     *)
(* number of unanswered heartbeats: an entity whose socket number was not  *)
(* handed out again has one timer, which works on a live argument and does *)
(* not count faster than the interval.                                     *)
(***************************************************************************)
EXTENDS Timers, FiniteSetTheorems, TLAPS

State == [at : {"none", "look", "fire", "count"}, n : 0..EvictCount]

(* The parts of the type invariant; a count that was read is below the     *)
(* limit.                                                                  *)
ClockTypes == elapsed \in 0..Interval /\ quiet \in [Entity -> 0..MaxQuiet]
ThreadTypes ==
    /\ thread \in [Thread -> State]
    /\ \A t \in Thread : thread[t].at = "count" => thread[t].n < EvictCount
EntityTypes ==
    /\ power \in [Entity -> BOOLEAN]
    /\ hasThread \in [Entity -> BOOLEAN]
    /\ count \in [Entity -> 0..EvictCount]
    /\ arg \in [Entity -> {"none", "live", "deleted"}]
RestTypes ==
    /\ cached \in SUBSET Entity
    /\ restarted \in SUBSET Entity
    /\ overtaken \in SUBSET Entity
    /\ fault \in BOOLEAN

TypeInv == ClockTypes /\ ThreadTypes /\ EntityTypes /\ RestTypes

-------------------------------------------------------------------------------
(* The numbers: an interval is positive, and limits are products of it. *)
LEMMA Numbers ==
    /\ Interval \in Nat \ {0} /\ DeltaTime \in Nat /\ Interval = DeltaTime + 1
    /\ EvictCount \in Nat \ {0} /\ MaxQuiet \in Nat
    /\ \A c \in 0..EvictCount : /\ Interval * c \in Nat
                                /\ Interval * c <= MaxQuiet
                                /\ Interval * (c - 1) + Interval = Interval * c
                                /\ Interval * (c - 1) <= Interval * c
                                /\ Interval * (c - 1) \in Int
    /\ Interval * 0 = 0
<1>1. Interval \in Nat \ {0} /\ DeltaTime \in Nat /\ EvictCount \in Nat \ {0}
      /\ Interval = DeltaTime + 1
  BY TimerAssumption DEF Interval
<1> HIDE DEF Interval
<1>2. \A i \in Nat, m \in Nat : i * m \in Nat
  OBVIOUS
<1>3. \A i \in Nat, c \in Nat : i * (c - 1) + i = i * c /\ i * (c - 1) \in Int
  OBVIOUS
<1>4. ASSUME NEW c \in 0..EvictCount PROVE Interval * c <= Interval * EvictCount
  <2>1. EvictCount - c \in Nat /\ c \in Nat
    BY <1>1
  <2>2. Interval * (EvictCount - c) \in Nat
    BY <1>1, <1>2, <2>1
  <2>3. Interval * EvictCount = Interval * c + Interval * (EvictCount - c)
    BY <1>1, <2>1
  <2>4. Interval * c \in Nat /\ Interval * EvictCount \in Nat
    BY <1>1, <1>2, <2>1
  <2> QED
    BY <2>2, <2>3, <2>4
<1>5. Interval * 0 = 0
  BY <1>1
<1>6. ASSUME NEW c \in 0..EvictCount
      PROVE  /\ Interval * c \in Nat
             /\ Interval * (c - 1) + Interval = Interval * c
             /\ Interval * (c - 1) \in Int
             /\ Interval * (c - 1) <= Interval * c
  <2>1. c \in Nat /\ Interval \in Nat
    BY <1>1
  <2>2. Interval * c \in Nat /\ Interval * (c - 1) + Interval = Interval * c
        /\ Interval * (c - 1) \in Int
    BY <1>2, <1>3, <2>1
  <2> QED
    BY <2>1, <2>2
<1> QED
  BY <1>1, <1>2, <1>4, <1>5, <1>6 DEF MaxQuiet

(* A thread belongs to an entity. *)
LEMMA ThreadEntity == \A t \in Thread : t[1] \in Entity
BY DEF Thread

(* No timer has been started. *)
LEMMA TypeInit == Init => TypeInv
<1> SUFFICES ASSUME Init
             PROVE  TypeInv
  OBVIOUS
<1>1. ClockTypes
  BY Numbers DEF Init, ClockTypes
<1>2. ThreadTypes
  BY Numbers DEF Init, ThreadTypes, State, Idle
<1>3. EntityTypes /\ RestTypes
  <2>1. 0 \in 0..EvictCount
    BY Numbers
  <2> QED
    BY <2>1 DEF Init, EntityTypes, RestTypes
<1> QED
  BY <1>1, <1>2, <1>3 DEF TypeInv

(* Time, heartbeats and reconnects keep the types. *)
LEMMA OutsideTypes ==
    ASSUME TypeInv, Second \/ \E e \in Entity : Heartbeat(e) \/ Reconnect(e)
    PROVE  TypeInv'
<1> USE DEF TypeInv
<1>1. CASE Second
  <2>1. ClockTypes'
    BY <1>1, Numbers DEF Second, ClockTypes
  <2> QED
    BY <1>1, <2>1 DEF Second, ThreadTypes, EntityTypes, RestTypes
<1>2. ASSUME NEW e \in Entity, CountReset(e)
      PROVE  /\ count' \in [Entity -> 0..EvictCount]
             /\ quiet' \in [Entity -> 0..MaxQuiet]
             /\ overtaken' \in SUBSET Entity
  BY <1>2, Numbers DEF CountReset, EntityTypes, ClockTypes, RestTypes
<1>3. ASSUME NEW e \in Entity, Heartbeat(e) PROVE TypeInv'
  <2>1. UNCHANGED <<elapsed, cached, restarted, fault>> /\ CountReset(e)
    BY <1>3 DEF Heartbeat
  <2>2. CASE UNCHANGED <<power, hasThread, arg, thread>>
    BY <1>2, <2>1, <2>2 DEF ClockTypes, ThreadTypes, EntityTypes, RestTypes
  <2>3. ASSUME NEW t \in Thread, StartsTimer(e, t) PROVE TypeInv'
    <3>1. ThreadTypes'
      BY <2>3 DEF StartsTimer, ThreadTypes, State
    <3>2. /\ power' \in [Entity -> BOOLEAN]
          /\ hasThread' \in [Entity -> BOOLEAN]
          /\ arg' \in [Entity -> {"none", "live", "deleted"}]
      BY <2>3 DEF StartsTimer, EntityTypes
    <3> QED
      BY <1>2, <2>1, <3>1, <3>2 DEF ClockTypes, EntityTypes, RestTypes
  <2> QED
    BY <1>3, <2>2, <2>3 DEF Heartbeat
<1>4. ASSUME NEW e \in Entity, Reconnect(e) PROVE TypeInv'
  <2>1. UNCHANGED <<elapsed, cached, arg, thread, fault>> /\ CountReset(e)
    BY <1>4 DEF Reconnect
  <2>2. /\ power' \in [Entity -> BOOLEAN]
        /\ hasThread' \in [Entity -> BOOLEAN]
        /\ restarted' \in SUBSET Entity
    BY <1>4 DEF Reconnect, EntityTypes, RestTypes
  <2> QED
    BY <1>2, <2>1, <2>2 DEF ClockTypes, ThreadTypes, EntityTypes, RestTypes
<1> QED
  BY <1>1, <1>3, <1>4

(* The threads keep the types: they read counts below the limit only. *)
LEMMA TimerTypes ==
    ASSUME TypeInv, NEW t \in Thread, TimerThread(t)
    PROVE  TypeInv'
<1> USE DEF TypeInv
<1> DEFINE e == t[1]
<1>1. e \in Entity
  BY ThreadEntity
<1>2. ASSUME Returns(t) PROVE ClockTypes' \/ quiet' # quiet
  BY <1>2, Numbers DEF Returns, ClockTypes
<1>3. ASSUME Returns(t) PROVE ThreadTypes'
  <2>1. [at |-> "look", n |-> 0] \in State
    BY Numbers DEF State
  <2> QED
    BY <1>3, <2>1 DEF Returns, ThreadTypes
<1>4. CASE Look(t)
  <2>1. ThreadTypes'
    BY <1>4 DEF Look, ThreadTypes, State
  <2> QED
    BY <1>4, <2>1 DEF Look, ClockTypes, EntityTypes, RestTypes
<1>5. CASE Evict(t)
  <2>1. UNCHANGED <<hasThread, quiet, restarted, overtaken, fault>> /\ Returns(t)
    BY <1>5 DEF Evict
  <2>2. EntityTypes' /\ cached' \in SUBSET Entity
    BY <1>1, <1>5, Numbers DEF Evict, EntityTypes, RestTypes
  <2> QED
    BY <1>2, <1>3, <2>1, <2>2 DEF RestTypes
<1>6. CASE ReadCount(t)
  <2>1. thread' = [thread EXCEPT ![t] = [at |-> "count", n |-> count[e]]] /\ count[e] < EvictCount
    BY <1>6 DEF ReadCount
  <2>2. [at |-> "count", n |-> count[e]] \in State
    BY <1>1 DEF State, EntityTypes
  <2>3. ThreadTypes'
    BY <2>1, <2>2 DEF ThreadTypes
  <2> QED
    BY <1>6, <2>3 DEF ReadCount, ClockTypes, EntityTypes, RestTypes
<1>7. CASE UseDeleted(t)
  <2>1. UNCHANGED <<cached, power, hasThread, count, arg, quiet, restarted, overtaken>>
        /\ fault' \in BOOLEAN
    BY <1>7 DEF UseDeleted, RestTypes
  <2>2. Returns(t) \/ UNCHANGED <<elapsed, thread>>
    BY <1>7 DEF UseDeleted
  <2> QED
    BY <1>2, <1>3, <2>1, <2>2 DEF ClockTypes, ThreadTypes, EntityTypes, RestTypes
<1>8. CASE WriteCount(t)
  <2>1. UNCHANGED <<cached, power, hasThread, arg, quiet, restarted, overtaken, fault>>
        /\ Returns(t) /\ count' = [count EXCEPT ![e] = thread[t].n + 1]
    BY <1>8 DEF WriteCount
  <2>2. thread[t].n + 1 \in 0..EvictCount
    BY <1>8, Numbers DEF WriteCount, ThreadTypes, State
  <2> QED
    BY <1>2, <1>3, <2>1, <2>2 DEF EntityTypes, RestTypes
<1> QED
  BY <1>4, <1>5, <1>6, <1>7, <1>8 DEF TimerThread

(* Every step keeps the types. *)
LEMMA TypeKept == TypeInv /\ [Next]_vars => TypeInv'
<1> SUFFICES ASSUME TypeInv, [Next]_vars
             PROVE  TypeInv'
  OBVIOUS
<1>1. CASE UNCHANGED vars
  BY <1>1 DEF vars, TypeInv, ClockTypes, ThreadTypes, EntityTypes, RestTypes
<1>2. CASE Next
  BY <1>2, OutsideTypes, TimerTypes DEF Next
<1> QED
  BY <1>1, <1>2

(* Every variable keeps its type: no count passes the limit at which the   *)
(* entity is erased.                                                       *)
THEOREM TimersTypeCorrect == Spec => []TypeOK
<1>1. TypeInv => TypeOK
  BY DEF TypeInv, TypeOK, ClockTypes, ThreadTypes, State, EntityTypes, RestTypes
<1> QED
  BY <1>1, TypeInit, TypeKept, PTL DEF Spec

-------------------------------------------------------------------------------
(* Single timers *)

(* One thread per entity, as long as its timer was not stopped and started *)
(* again by a reconnect.                                                   *)
OneEach ==
    \A t, u \in Thread :
        /\ t[1] = u[1] /\ t[1] \notin restarted
        /\ thread[t].at # "none" /\ thread[u].at # "none"
        => t = u

(* m_HasThread says whether there is one. *)
MarkedThreads ==
    \A t \in Thread : t[1] \notin restarted /\ ~hasThread[t[1]] => thread[t].at = "none"

(* Only a thread that has been told to end has lost its argument. *)
Arguments ==
    \A t \in Thread : t[1] \notin restarted =>
        /\ thread[t].at \in {"fire", "count"} => arg[t[1]] = "live"
        /\ thread[t].at = "look" =>
              arg[t[1]] = "live" \/ (power[t[1]] /\ t[1] \notin cached)

Single == OneEach /\ MarkedThreads /\ Arguments

(* No entity has a thread. *)
LEMMA SingleInit == Init => Single
BY ThreadEntity DEF Init, Idle, Single, OneEach, MarkedThreads, Arguments

(* A heartbeat starts a thread only where there is none; a reconnect takes *)
(* the entity out of what is said.                                         *)
LEMMA OutsideSingle ==
    ASSUME TypeInv, Single, Second \/ \E e \in Entity : Heartbeat(e) \/ Reconnect(e)
    PROVE  Single'
<1> USE DEF TypeInv, Single
<1>1. CASE Second
  BY <1>1 DEF Second, OneEach, MarkedThreads, Arguments
<1>2. ASSUME NEW e \in Entity, Heartbeat(e) PROVE Single'
  <2>1. UNCHANGED <<elapsed, cached, restarted, fault>> /\ e \in cached
    BY <1>2 DEF Heartbeat
  <2>2. CASE UNCHANGED <<power, hasThread, arg, thread>>
    BY <2>1, <2>2 DEF OneEach, MarkedThreads, Arguments
  <2>3. ASSUME NEW t \in Thread, t[1] = e, ~hasThread[e], StartsTimer(e, t) PROVE Single'
    <3>1. /\ thread'[t].at = "look" /\ \A u \in Thread \ {t} : thread'[u] = thread[u]
          /\ arg'[e] = "live" /\ ~power'[e] /\ hasThread'[e]
          /\ \A x \in Entity \ {e} : /\ arg'[x] = arg[x] /\ power'[x] = power[x]
                                     /\ hasThread'[x] = hasThread[x]
      BY <2>3 DEF StartsTimer, ThreadTypes, State, EntityTypes
    <3>2. e \notin restarted => \A u \in Thread : u[1] = e => thread[u].at = "none"
      BY <2>3 DEF MarkedThreads
    <3>3. OneEach'
      BY <2>1, <2>3, <3>1, <3>2 DEF OneEach
    <3>4. MarkedThreads'
      BY <2>1, <2>3, <3>1, ThreadEntity DEF MarkedThreads
    <3>5. Arguments'
      <4>1. SUFFICES ASSUME NEW u \in Thread, u[1] \notin restarted
                     PROVE  /\ thread'[u].at \in {"fire", "count"} => arg'[u[1]] = "live"
                            /\ thread'[u].at = "look" =>
                                 arg'[u[1]] = "live" \/ (power'[u[1]] /\ u[1] \notin cached)
        BY <2>1 DEF Arguments
      <4>2. CASE u[1] = e
        BY <4>2, <3>1
      <4>3. CASE u[1] # e
        BY <2>3, <3>1, <4>1, <4>3, ThreadEntity DEF Arguments
      <4> QED
        BY <4>2, <4>3
    <3> QED
      BY <3>3, <3>4, <3>5
  <2> QED
    BY <1>2, <2>2, <2>3 DEF Heartbeat
<1>3. ASSUME NEW e \in Entity, Reconnect(e) PROVE Single'
  <2>1. /\ UNCHANGED <<cached, arg, thread>> /\ restarted' = restarted \cup {e}
        /\ \A x \in Entity \ {e} : power'[x] = power[x] /\ hasThread'[x] = hasThread[x]
    BY <1>3 DEF Reconnect, EntityTypes
  <2> QED
    BY <2>1, ThreadEntity DEF OneEach, MarkedThreads, Arguments
<1> QED
  BY <1>1, <1>2, <1>3

(* A thread starts no other one; what it deletes it does not use again. *)
LEMMA TimerSingle ==
    ASSUME TypeInv, Single, NEW t \in Thread, TimerThread(t)
    PROVE  Single'
<1> USE DEF TypeInv, Single
<1> DEFINE e == t[1]
<1>1. e \in Entity
  BY ThreadEntity
<1>2. UNCHANGED <<hasThread, restarted>> /\ thread[t].at # "none"
  BY DEF TimerThread, Look, Evict, ReadCount, UseDeleted, WriteCount
<1>3. \A u \in Thread \ {t} : thread'[u] = thread[u]
  BY DEF TimerThread, Look, Evict, ReadCount, UseDeleted, WriteCount, Returns, ThreadTypes
<1>4. OneEach'
  BY <1>2, <1>3 DEF OneEach
<1>5. MarkedThreads'
  BY <1>2, <1>3 DEF MarkedThreads
<1>6. \A u \in Thread : u # t /\ u[1] = e /\ e \notin restarted => thread[u].at = "none"
  BY <1>2 DEF OneEach
<1>7. ASSUME UNCHANGED <<cached, arg, power>>,
             e \notin restarted =>
                /\ thread'[t].at \in {"fire", "count"} => arg[e] = "live"
                /\ thread'[t].at = "look" => arg[e] = "live"
      PROVE  Arguments'
  BY <1>2, <1>3, <1>7 DEF Arguments
<1>8. CASE Look(t)
  <2>1. thread'[t].at = "none" \/ (thread'[t].at = "fire" /\ ~power[e])
    BY <1>8 DEF Look, ThreadTypes, State
  <2>2. thread[t].at = "look" /\ UNCHANGED <<cached, arg, power>>
    BY <1>8 DEF Look
  <2> QED
    BY <1>4, <1>5, <1>7, <2>1, <2>2 DEF Arguments
<1>9. CASE ReadCount(t) \/ WriteCount(t)
  <2>1. thread[t].at \in {"fire", "count"} /\ UNCHANGED <<cached, arg, power>>
    BY <1>9 DEF ReadCount, WriteCount
  <2> QED
    BY <1>4, <1>5, <1>7, <2>1 DEF Arguments
<1>10. CASE UseDeleted(t)
  <2>1. thread[t].at = "fire" /\ arg[e] = "deleted" /\ UNCHANGED <<cached, arg, power>>
    BY <1>10 DEF UseDeleted
  <2>2. e \in restarted
    BY <2>1 DEF Arguments
  <2> QED
    BY <1>4, <1>5, <1>7, <2>1, <2>2
<1>11. CASE Evict(t)
  <2>1. /\ thread'[t].at = "look" /\ cached' = cached \ {e}
        /\ power'[e] = TRUE
        /\ \A x \in Entity \ {e} : arg'[x] = arg[x] /\ power'[x] = power[x]
    BY <1>1, <1>11 DEF Evict, Returns, ThreadTypes, EntityTypes
  <2>2. SUFFICES ASSUME NEW u \in Thread, u[1] \notin restarted
                 PROVE  /\ thread'[u].at \in {"fire", "count"} => arg'[u[1]] = "live"
                        /\ thread'[u].at = "look" =>
                             arg'[u[1]] = "live" \/ (power'[u[1]] /\ u[1] \notin cached')
    BY <1>2, <1>4, <1>5 DEF Arguments
  <2>3. CASE u = t
    BY <2>1, <2>3
  <2>4. CASE u # t /\ u[1] = e
    BY <1>3, <1>6, <2>2, <2>4
  <2>5. CASE u[1] # e
    BY <1>3, <2>1, <2>2, <2>5, ThreadEntity DEF Arguments
  <2> QED
    BY <2>3, <2>4, <2>5
<1> QED
  BY <1>8, <1>9, <1>10, <1>11 DEF TimerThread

(* Every step keeps single timers single. *)
LEMMA SingleKept == TypeInv /\ Single /\ [Next]_vars => Single'
<1> SUFFICES ASSUME TypeInv, Single, [Next]_vars
             PROVE  Single'
  OBVIOUS
<1>1. CASE UNCHANGED vars
  BY <1>1 DEF vars, Single, OneEach, MarkedThreads, Arguments
<1>2. CASE Next
  BY <1>2, OutsideSingle, TimerSingle DEF Next
<1> QED
  BY <1>1, <1>2

(* All entities that were not reconnected have single timers. *)
THEOREM SingleInvariance == Spec => [](TypeInv /\ Single)
<1>1. Init => TypeInv /\ Single
  BY TypeInit, SingleInit
<1>2. TypeInv /\ Single /\ [Next]_vars => TypeInv' /\ Single'
  BY TypeKept, SingleKept
<1> QED
  BY <1>1, <1>2, PTL DEF Spec

(* Heartbeats start no second timer. *)
THEOREM TimersAreSingle == Spec => []OneTimer
<1>1. Single => OneTimer
  <2> SUFFICES ASSUME Single, NEW e \in Entity \ restarted
               PROVE  Cardinality(Running(e)) <= 1
    BY DEF OneTimer
  <2>1. \A t, u \in Running(e) : t = u
    BY DEF Single, OneEach, Running
  <2>2. CASE Running(e) = {}
    BY <2>2, FS_EmptySet
  <2>3. CASE Running(e) # {}
    <3>1. PICK t \in Running(e) : TRUE
      BY <2>3
    <3>2. Running(e) = {t}
      BY <2>1, <3>1
    <3> QED
      BY <3>2, FS_Singleton
  <2> QED
    BY <2>2, <2>3
<1> QED
  BY <1>1, SingleInvariance, PTL

(* A timer does not use the argument it has deleted. *)
THEOREM ArgumentsLive == Spec => []ArgumentLives
<1>1. Single => ArgumentLives
  BY DEF Single, Arguments, ArgumentLives
<1> QED
  BY <1>1, SingleInvariance, PTL

-------------------------------------------------------------------------------
(* How fast they count *)

(* The entities CountsSlowly is about. *)
Counted == cached \ (restarted \cup overtaken)

Firing(e) == \E t \in Thread : t[1] = e /\ thread[t].at \in {"fire", "count"}

(* The last heartbeat was sent no less than elapsed ago; once a thread has *)
(* seen that the interval is over, a whole interval ago.                   *)
Slow(e) == count[e] = 0 \/ quiet[e] >= Interval * (count[e] - 1) + elapsed
SlowFired(e) == count[e] = 0 \/ quiet[e] >= Interval * count[e]

AllSlow ==
    \A e \in Counted : /\ ~Firing(e) => Slow(e)
                       /\ Firing(e) => SlowFired(e)

(* What was read is what the count still is. *)
ReadIsCount == \A t \in Thread : thread[t].at = "count" /\ t[1] \in Counted =>
                                     thread[t].n = count[t[1]]

Pace == AllSlow /\ ReadIsCount

TimersInv == TypeInv /\ Single /\ Pace

(* Nothing was counted. *)
LEMMA PaceInit == Init => Pace
BY DEF Init, Idle, Pace, AllSlow, ReadIsCount, Firing, Slow, SlowFired, Counted

(* Time: silence grows as fast as the time since the last tick. *)
LEMMA SecondPace ==
    ASSUME TypeInv, Pace, Second
    PROVE  Pace'
<1>1. UNCHANGED <<cached, restarted, overtaken, count, thread>>
  BY DEF Second
<1>2. Counted' = Counted /\ \A e : Firing(e)' <=> Firing(e)
  BY <1>1 DEF Counted, Firing
<1>3. ReadIsCount'
  BY <1>1, <1>2 DEF Pace, ReadIsCount
<1>4. ASSUME NEW e \in Counted
      PROVE  /\ ~Firing(e) => Slow(e)'
             /\ Firing(e) => SlowFired(e)'
  <2> DEFINE c == count[e]
             low == Interval * (c - 1)
             high == Interval * c
  <2>1. /\ e \in Entity /\ c \in 0..EvictCount /\ quiet[e] \in 0..MaxQuiet
        /\ elapsed \in 0..Interval /\ MaxQuiet \in Nat /\ Interval \in Nat
    BY Numbers DEF TypeInv, EntityTypes, ClockTypes, RestTypes, Counted
  <2>2. low \in Int /\ high \in Nat /\ low + Interval = high /\ high <= MaxQuiet
    BY <2>1, Numbers
  <2>3. /\ elapsed' = IF elapsed < Interval THEN elapsed + 1 ELSE elapsed
        /\ quiet'[e] = IF quiet[e] < MaxQuiet THEN quiet[e] + 1 ELSE MaxQuiet
        /\ count'[e] = c
    BY <2>1 DEF Second
  <2>4. ~Firing(e) => c = 0 \/ quiet[e] >= low + elapsed
    BY DEF Pace, AllSlow, Slow
  <2>5. Firing(e) => c = 0 \/ quiet[e] >= high
    BY DEF Pace, AllSlow, SlowFired
  <2> HIDE DEF low, high
  <2>6. ~Firing(e) => c = 0 \/ quiet'[e] >= low + elapsed'
    BY <2>1, <2>2, <2>3, <2>4
  <2>7. Firing(e) => c = 0 \/ quiet'[e] >= high
    BY <2>1, <2>2, <2>3, <2>5
  <2> QED
    BY <1>1, <2>3, <2>6, <2>7 DEF Slow, SlowFired, low, high, Interval
<1> QED
  BY <1>2, <1>3, <1>4 DEF Pace, AllSlow

(* A reset starts the count anew; a thread that would undo it is noted.    *)
LEMMA ResetPace ==
    ASSUME TypeInv, Pace, NEW e \in Entity, Heartbeat(e) \/ Reconnect(e)
    PROVE  Pace'
<1>1. /\ UNCHANGED <<elapsed, cached>> /\ restarted \subseteq restarted'
      /\ CountReset(e)
  BY DEF Heartbeat, Reconnect
<1>2. /\ count'[e] = 0
      /\ \A x \in Entity \ {e} : count'[x] = count[x] /\ quiet'[x] = quiet[x]
      /\ \A x : x # e /\ x \in overtaken => x \in overtaken'
      /\ Undoing(e) => e \in overtaken'
  BY <1>1 DEF CountReset, TypeInv, EntityTypes, ClockTypes
<1>3. \A t \in Thread : /\ thread'[t].at \in {"fire", "count"} <=>
                              thread[t].at \in {"fire", "count"}
                        /\ thread'[t].at = "count" => thread'[t] = thread[t]
  <2>1. CASE UNCHANGED thread
    BY <2>1
  <2>2. ASSUME NEW u \in Thread, thread[u].at = "none", StartsTimer(e, u)
        PROVE  \A t \in Thread : /\ thread'[t].at \in {"fire", "count"} <=>
                                       thread[t].at \in {"fire", "count"}
                                 /\ thread'[t].at = "count" => thread'[t] = thread[t]
    <3>1. thread'[u].at = "look" /\ \A t \in Thread \ {u} : thread'[t] = thread[t]
      BY <2>2 DEF StartsTimer, TypeInv, ThreadTypes, State
    <3> QED
      BY <2>2, <3>1
  <2> QED
    BY <2>1, <2>2 DEF Heartbeat, Reconnect
<1>4. \A x : Firing(x)' <=> Firing(x)
  BY <1>3 DEF Firing
<1>5. \A x \in Counted' : x # e => x \in Counted
  BY <1>1, <1>2 DEF Counted
<1>6. Counted' \subseteq Entity
  BY <1>1 DEF Counted, TypeInv, RestTypes
<1>7. AllSlow'
  BY <1>1, <1>2, <1>4, <1>5, <1>6 DEF Pace, AllSlow, Slow, SlowFired
<1>8. ReadIsCount'
  <2>1. SUFFICES ASSUME NEW t \in Thread, thread'[t].at = "count", t[1] \in Counted'
                 PROVE  thread'[t].n = count'[t[1]]
    BY DEF ReadIsCount
  <2>2. t[1] # e
    BY <1>2, <1>3, <2>1 DEF Undoing, Running, Counted
  <2> QED
    BY <1>2, <1>3, <1>5, <2>1, <2>2, ThreadEntity DEF Pace, ReadIsCount
<1> QED
  BY <1>7, <1>8 DEF Pace

(* A tick is counted when the interval is over, and the clock starts anew. *)
LEMMA TimerPace ==
    ASSUME TypeInv, Single, Pace, NEW t \in Thread, TimerThread(t)
    PROVE  Pace'
<1> DEFINE e == t[1]
<1>1. e \in Entity /\ Counted \subseteq Entity
  BY ThreadEntity DEF Counted, TypeInv, RestTypes
<1>2. /\ UNCHANGED <<quiet, restarted, overtaken>> /\ cached' \subseteq cached
      /\ thread[t].at # "none"
  BY DEF TimerThread, Look, Evict, ReadCount, UseDeleted, WriteCount
<1>3. \A u \in Thread \ {t} : thread'[u] = thread[u]
  BY DEF TimerThread, Look, Evict, ReadCount, UseDeleted, WriteCount, Returns, TypeInv, ThreadTypes
<1>4. Counted' \subseteq Counted
  BY <1>2 DEF Counted
<1>5. \A x \in Entity \ {e} : /\ count'[x] = count[x]
                              /\ Firing(x)' <=> Firing(x)
  <2>1. \A x \in Entity \ {e} : count'[x] = count[x]
    BY <1>1 DEF TimerThread, Look, Evict, ReadCount, UseDeleted, WriteCount, TypeInv, EntityTypes
  <2>2. \A x \in Entity \ {e} : Firing(x)' <=> Firing(x)
    BY <1>3 DEF Firing
  <2> QED
    BY <2>1, <2>2
<1>6. elapsed' = elapsed \/ elapsed' = 0
  BY DEF TimerThread, Look, Evict, ReadCount, UseDeleted, WriteCount, Returns
<1>7. ASSUME NEW x \in Counted', x # e
      PROVE  (~Firing(x)' => Slow(x)') /\ (Firing(x)' => SlowFired(x)')
  <2>1. x \in Counted /\ x \in Entity \ {e}
    BY <1>1, <1>4, <1>7
  <2>2. /\ Interval * (count[x] - 1) \in Int /\ quiet[x] \in Int /\ elapsed \in Nat
    BY <2>1, Numbers DEF TypeInv, EntityTypes, ClockTypes
  <2>3. Slow(x) => Slow(x)'
    <3> DEFINE low == Interval * (count[x] - 1)
    <3>1. Slow(x) <=> count[x] = 0 \/ quiet[x] >= low + elapsed
      BY DEF Slow
    <3>2. Slow(x)' <=> count[x] = 0 \/ quiet[x] >= low + elapsed'
      BY <1>2, <1>5, <2>1 DEF Slow, Interval
    <3> HIDE DEF low
    <3>3. low \in Int
      BY <2>2 DEF low
    <3> QED
      BY <1>6, <2>2, <3>1, <3>2, <3>3
  <2>4. SlowFired(x) => SlowFired(x)'
    BY <1>2, <1>5, <2>1 DEF SlowFired, Interval
  <2> QED
    BY <1>5, <2>1, <2>3, <2>4 DEF Pace, AllSlow
<1>8. ASSUME NEW u \in Thread, u # t, thread'[u].at = "count", u[1] \in Counted'
      PROVE  thread'[u].n = count'[u[1]]
  <2>1. u[1] # e
    BY <1>2, <1>3, <1>4, <1>8 DEF Single, OneEach, Counted
  <2> QED
    BY <1>3, <1>4, <1>5, <1>8, <2>1, ThreadEntity DEF Pace, ReadIsCount
<1>9. ASSUME e \in Counted' =>
               /\ ~Firing(e)' => Slow(e)'
               /\ Firing(e)' => SlowFired(e)'
               /\ thread'[t].at = "count" => thread'[t].n = count'[e]
      PROVE  Pace'
  <2>1. AllSlow'
    BY <1>7, <1>9 DEF AllSlow
  <2>2. ReadIsCount'
    BY <1>8, <1>9 DEF ReadIsCount
  <2> QED
    BY <2>1, <2>2 DEF Pace
<1>10. e \in Counted' => \A u \in Thread : u[1] = e /\ u # t => thread'[u].at = "none"
  BY <1>2, <1>3, <1>4 DEF Single, OneEach, Counted
<1>11. e \in Counted' => (Firing(e)' <=> thread'[t].at \in {"fire", "count"})
                         /\ (Firing(e) <=> thread[t].at \in {"fire", "count"})
  BY <1>3, <1>10 DEF Firing
<1>12. /\ count[e] \in 0..EvictCount /\ quiet[e] \in 0..MaxQuiet /\ elapsed \in 0..Interval
       /\ Interval * (count[e] - 1) \in Int /\ Interval * count[e] \in Nat
       /\ Interval * (count[e] - 1) + Interval = Interval * count[e]
       /\ thread[t] \in State
  BY <1>1, Numbers DEF TypeInv, EntityTypes, ClockTypes, ThreadTypes
<1>13. CASE Look(t)
  <2>1. thread[t].at = "look" /\ UNCHANGED <<elapsed, cached, count>>
    BY <1>13 DEF Look
  <2>2. CASE thread'[t].at = "none"
    <3>1. Slow(e) => Slow(e)'
      BY <1>2, <2>1 DEF Slow, Interval
    <3> QED
      BY <1>4, <1>9, <1>11, <2>1, <2>2, <3>1 DEF Pace, AllSlow
  <2>3. CASE Due /\ thread' = [thread EXCEPT ![t].at = "fire"]
    <3>1. thread'[t].at = "fire" /\ elapsed = Interval
      BY <1>12, <2>3, Numbers DEF Due, TypeInv, ThreadTypes, State
    <3>2. Slow(e) => SlowFired(e)'
      <4> DEFINE low == Interval * (count[e] - 1)
                 high == Interval * count[e]
      <4>1. low + Interval = high
        BY <1>12
      <4>2. Slow(e) <=> count[e] = 0 \/ quiet[e] >= low + Interval
        BY <3>1 DEF Slow
      <4>3. SlowFired(e)' <=> count[e] = 0 \/ quiet[e] >= high
        BY <1>2, <2>1 DEF SlowFired, Interval
      <4> QED
        BY <4>1, <4>2, <4>3
    <3> QED
      BY <1>4, <1>9, <1>11, <2>1, <3>1, <3>2 DEF Pace, AllSlow
  <2> QED
    BY <1>13, <2>2, <2>3 DEF Look, TypeInv, ThreadTypes, State
<1>14. CASE Evict(t)
  BY <1>9, <1>14 DEF Evict, Counted
<1>15. CASE ReadCount(t)
  <2>1. /\ thread[t].at = "fire" /\ UNCHANGED <<elapsed, cached, count>>
        /\ thread'[t] = [at |-> "count", n |-> count[e]]
    BY <1>15 DEF ReadCount, TypeInv, ThreadTypes
  <2>2. SlowFired(e) => SlowFired(e)'
    BY <1>2, <2>1 DEF SlowFired, Interval
  <2> QED
    BY <1>4, <1>9, <1>11, <2>1, <2>2 DEF Pace, AllSlow
<1>16. CASE UseDeleted(t)
  <2>1. e \in restarted
    BY <1>16 DEF UseDeleted, Single, Arguments
  <2> QED
    BY <1>2, <1>9, <2>1 DEF Counted
<1>17. CASE WriteCount(t)
  <2>1. /\ thread[t].at = "count" /\ UNCHANGED cached /\ elapsed' = 0
        /\ thread'[t] = [at |-> "look", n |-> 0]
        /\ count'[e] = thread[t].n + 1
    BY <1>1, <1>17 DEF WriteCount, Returns, TypeInv, ThreadTypes, EntityTypes
  <2>2. SUFFICES ASSUME e \in Counted
                 PROVE  Slow(e)'
    BY <1>4, <1>9, <1>11, <2>1
  <2>3. count'[e] = count[e] + 1
    BY <2>1, <2>2 DEF Pace, ReadIsCount
  <2>4. SlowFired(e)
    BY <2>1, <2>2 DEF Pace, AllSlow, Firing
  <2> DEFINE high == Interval * count[e]
  <2>5. Interval * (count'[e] - 1) = high
    <3>1. (count[e] + 1) - 1 = count[e]
      BY <1>12
    <3> QED
      BY <2>3, <3>1
  <2>6. quiet[e] >= high
    BY <1>12, <2>4, Numbers DEF SlowFired
  <2>7. quiet'[e] >= Interval * (count'[e] - 1) + elapsed'
    <3> HIDE DEF high
    <3>1. high \in Nat
      BY <1>12 DEF high
    <3> QED
      BY <1>2, <2>1, <2>5, <2>6, <3>1
  <2> QED
    BY <2>7 DEF Slow, Interval
<1> QED
  BY <1>13, <1>14, <1>15, <1>16, <1>17 DEF TimerThread

(* The inductive invariant. *)
LEMMA TimersKept == TimersInv /\ [Next]_vars => TimersInv'
<1> SUFFICES ASSUME TimersInv, [Next]_vars
             PROVE  TimersInv'
  OBVIOUS
<1>1. TypeInv' /\ Single'
  BY TypeKept, SingleKept DEF TimersInv
<1>2. CASE UNCHANGED vars
  <2>1. Counted' = Counted
    BY <1>2 DEF vars, Counted
  <2>2. \A e : /\ Firing(e)' <=> Firing(e)
               /\ Slow(e)' <=> Slow(e)
               /\ SlowFired(e)' <=> SlowFired(e)
    BY <1>2 DEF vars, Firing, Slow, SlowFired
  <2> QED
    BY <1>1, <1>2, <2>1, <2>2 DEF vars, TimersInv, Pace, AllSlow, ReadIsCount
<1>3. CASE Next
  BY <1>1, <1>3, SecondPace, ResetPace, TimerPace DEF Next, TimersInv
<1> QED
  BY <1>2, <1>3

(* No client is counted silent faster than the interval, whatever other    *)
(* timers do to the clock they share and wherever heartbeats fall.         *)
THEOREM NeverTooFast == Spec => []CountsSlowly
<1>1. Init => TimersInv
  BY TypeInit, SingleInit, PaceInit DEF TimersInv
<1>2. TimersInv => CountsSlowly
  <2> SUFFICES ASSUME TimersInv, NEW e \in Entity \ (restarted \cup overtaken), e \in cached
               PROVE  quiet[e] >= Interval * (count[e] - 1)
    BY DEF CountsSlowly
  <2> DEFINE low == Interval * (count[e] - 1)
             high == Interval * count[e]
  <2>1. /\ count[e] \in 0..EvictCount /\ quiet[e] \in 0..MaxQuiet /\ elapsed \in 0..Interval
        /\ low \in Int /\ high \in Nat /\ low + Interval = high
        /\ Interval \in Nat
    BY Numbers DEF TimersInv, TypeInv, EntityTypes, ClockTypes
  <2>2. count[e] = 0 \/ quiet[e] >= low + elapsed \/ quiet[e] >= high
    BY DEF TimersInv, Pace, AllSlow, Counted, Slow, SlowFired
  <2>3. count[e] = 0 => high = 0
    BY Numbers
  <2> HIDE DEF low, high
  <2>4. quiet[e] >= low
    BY <2>1, <2>2, <2>3
  <2> QED
    BY <2>4 DEF low
<1> QED
  BY <1>1, <1>2, TimersKept, PTL DEF Spec
===============================================================================
