---------------------------- MODULE HandlerProofs ------------------------------
(***************************************************************************)
(* Facts about the operations on a room's list of players (what a rebuild  *)
(* keeps and in which order, and what it counts), and what the handlers of *)
(* the lobby and the game do to the types and the seats: one lemma per     *)
(* handler, used by the proofs about the modules that compose them.        *)
(***************************************************************************)
EXTENDS RoomProperties, FiniteSetTheorems, TLAPS

Rank(K, i) == Cardinality({j \in K : j <= i})

(* A set of indices of a list is finite, so it has a number of elements. *)
LEMMA IndicesFinite ==
    ASSUME NEW n \in Nat, NEW K \in SUBSET (1..n)
    PROVE  IsFiniteSet(K) /\ Cardinality(K) \in Nat /\ K \subseteq Int
PROOF
<1>1. IsFiniteSet(1..n)
  BY FS_Interval
<1>2. IsFiniteSet(K)
  BY <1>1, FS_Subset
<1> QED
  BY <1>2, FS_CardinalityType

(* The rank of an index is larger the larger the index is. *)
LEMMA RankMonotone ==
    ASSUME NEW n \in Nat, NEW K \in SUBSET (1..n), NEW i \in K, NEW j \in K, i < j
    PROVE  /\ Rank(K, i) \in 1..Cardinality(K)
           /\ Rank(K, i) < Rank(K, j)
PROOF
<1> DEFINE A == {x \in K : x <= i}
           B == {x \in K : x <= j}
<1>1. IsFiniteSet(K)
  BY IndicesFinite
<1>2. A \in SUBSET B /\ B \in SUBSET K /\ j \in B /\ j \notin A /\ i \in A
  <2>1. K \subseteq Int
    BY IndicesFinite
  <2>2. \A x \in K : x <= i => x <= j
    BY <2>1
  <2>3. ~(j <= i) /\ j <= j /\ i <= i
    BY <2>1
  <2> QED
    BY <2>2, <2>3
<1>3. IsFiniteSet(A) /\ IsFiniteSet(B)
  BY <1>1, <1>2, FS_Subset
<1>4. Cardinality(A) <= Cardinality(B) /\ Cardinality(A) # Cardinality(B)
  <2> HIDE DEF A, B
  <2> QED
    BY <1>2, <1>3, FS_Subset
<1>5. Cardinality(A) \in Nat /\ Cardinality(B) \in Nat /\ Cardinality(K) \in Nat
  BY <1>1, <1>3, FS_CardinalityType
<1>6. Cardinality(B) <= Cardinality(K)
  <2> HIDE DEF A, B
  <2> QED
    BY <1>1, <1>2, FS_Subset
<1>7. Cardinality(A) # 0
  <2> HIDE DEF A, B
  <2> QED
    BY <1>2, <1>3, FS_EmptySet
<1>8. Rank(K, i) = Cardinality(A) /\ Rank(K, j) = Cardinality(B)
  BY DEF Rank
<1> HIDE DEF A, B
<1> QED
  BY <1>4, <1>5, <1>6, <1>7, <1>8

(* Every index of K has a rank, and every rank up to the size of K has an  *)
(* index: Nth finds it.                                                    *)
LEMMA RankRange ==
    ASSUME NEW n \in Nat, NEW K \in SUBSET (1..n), NEW i \in K
    PROVE  Rank(K, i) \in 1..Cardinality(K)
PROOF
<1> DEFINE A == {x \in K : x <= i}
<1>1. IsFiniteSet(K)
  BY IndicesFinite
<1>2. A \in SUBSET K /\ i \in A
  OBVIOUS
<1> HIDE DEF A
<1>3. IsFiniteSet(A) /\ Cardinality(A) <= Cardinality(K)
  BY <1>1, <1>2, FS_Subset
<1>4. Cardinality(A) \in Nat /\ Cardinality(K) \in Nat /\ Cardinality(A) # 0
  BY <1>1, <1>2, <1>3, FS_CardinalityType, FS_EmptySet
<1>5. Rank(K, i) = Cardinality(A)
  BY DEF Rank, A
<1> QED
  BY <1>3, <1>4, <1>5

(* What Nth promises: an index of K, the one with the rank asked for. *)
LEMMA NthSound ==
    ASSUME NEW n \in Nat, NEW K \in SUBSET (1..n), NEW k \in 1..Cardinality(K)
    PROVE  Nth(K, k) \in K /\ Rank(K, Nth(K, k)) = k
PROOF
<1> DEFINE f == [i \in K |-> Rank(K, i)]
           T == 1..Cardinality(K)
<1>1. IsFiniteSet(K) /\ Cardinality(K) \in Nat
  BY IndicesFinite
<1>2. f \in [K -> T]
  BY RankRange
<1>a. \A i \in K : Rank(K, i) \in 1..Cardinality(K)
  BY RankRange
<1>b. \A i \in K : Rank(K, i) \in Int
  BY <1>1, <1>a
<1>3. ASSUME NEW i \in K, NEW j \in K, f[i] = f[j]
      PROVE  i = j
  <2>1. CASE i < j
    <3>1. Rank(K, i) < Rank(K, j)
      BY <2>1, RankMonotone
    <3>2. Rank(K, i) \in Int /\ Rank(K, j) \in Int
      BY <1>b
    <3> QED
      BY <3>1, <3>2, <1>3
  <2>2. CASE j < i
    <3>1. Rank(K, j) < Rank(K, i)
      BY <2>2, RankMonotone
    <3>2. Rank(K, i) \in Int /\ Rank(K, j) \in Int
      BY <1>b
    <3> QED
      BY <3>1, <3>2, <1>3
  <2> QED
    BY <2>1, <2>2
<1>4. f \in Injection(K, T)
  BY <1>2, <1>3 DEF Injection, IsInjective
<1>5. IsFiniteSet(T) /\ Cardinality(T) = Cardinality(K)
  BY <1>1, FS_Interval
<1>6. f \in Surjection(K, T)
  <2> HIDE DEF f, T
  <2> QED
    BY <1>4, <1>5, FS_Injection
<1>7. \E i \in K : Rank(K, i) = k
  BY <1>6 DEF Surjection
<1> QED
  BY <1>7 DEF Nth, Rank

(* Different ranks have different indices. *)
LEMMA NthInjective ==
    ASSUME NEW n \in Nat, NEW K \in SUBSET (1..n),
           NEW a \in 1..Cardinality(K), NEW b \in 1..Cardinality(K),
           Nth(K, a) = Nth(K, b)
    PROVE  a = b
PROOF
<1>1. Rank(K, Nth(K, a)) = a
  BY NthSound
<1>2. Rank(K, Nth(K, b)) = b
  BY NthSound
<1> QED
  BY <1>1, <1>2

(* Every index has its turn. *)
LEMMA NthCovers ==
    ASSUME NEW n \in Nat, NEW K \in SUBSET (1..n), NEW i \in K
    PROVE  \E k \in 1..Cardinality(K) : Nth(K, k) = i
PROOF
<1>1. Rank(K, i) \in 1..Cardinality(K)
  BY RankRange
<1>2. PICK j \in K : j = Nth(K, Rank(K, i)) /\ Rank(K, j) = Rank(K, i)
  BY <1>1, NthSound
<1>3. i \in Int /\ j \in Int /\ Rank(K, i) \in Int
  BY <1>1, IndicesFinite
<1>4. ASSUME i < j PROVE FALSE
  <2>1. Rank(K, i) < Rank(K, j)
    BY <1>4, RankMonotone
  <2> QED
    BY <1>2, <1>3, <2>1
<1>5. ASSUME j < i PROVE FALSE
  <2>1. Rank(K, j) < Rank(K, i)
    BY <1>5, RankMonotone
  <2> QED
    BY <1>2, <1>3, <2>1
<1>6. Nth(K, Rank(K, i)) = i
  BY <1>2, <1>3, <1>4, <1>5
<1> QED
  BY <1>1, <1>6

-------------------------------------------------------------------------------
(* What a rebuild copies is a list again, of as many entries as are kept,  *)
(* each of them an entry of the old list.                                  *)
LEMMA KeepSound ==
    ASSUME NEW S, NEW seq \in Seq(S), NEW K \in SUBSET DOMAIN seq
    PROVE  /\ Keep(seq, K) \in Seq(S)
           /\ Cardinality(K) \in Nat
           /\ DOMAIN Keep(seq, K) = 1..Cardinality(K)
           /\ Len(Keep(seq, K)) = Cardinality(K)
           /\ \A k \in 1..Cardinality(K) :
                 Nth(K, k) \in K /\ Keep(seq, K)[k] = seq[Nth(K, k)]
PROOF
<1>1. Len(seq) \in Nat /\ K \in SUBSET (1..Len(seq)) /\ seq \in [1..Len(seq) -> S]
  OBVIOUS
<1>2. Cardinality(K) \in Nat
  BY <1>1, IndicesFinite
<1>3. \A k \in 1..Cardinality(K) : Nth(K, k) \in K
  BY <1>1, NthSound
<1>4. \A k \in 1..Cardinality(K) : Keep(seq, K)[k] = seq[Nth(K, k)] /\ seq[Nth(K, k)] \in S
  BY <1>1, <1>3 DEF Keep
<1>5. Keep(seq, K) \in [1..Cardinality(K) -> S]
  BY <1>4 DEF Keep
<1> QED
  BY <1>2, <1>3, <1>4, <1>5

(* Marking captains changes no other field of any entry. *)
LEMMA PromoteSound ==
    ASSUME NEW players \in Seq(Member), NEW heirs
    PROVE  /\ Promote(players, heirs) \in Seq(Member)
           /\ DOMAIN Promote(players, heirs) = DOMAIN players
           /\ \A i \in DOMAIN players :
                 /\ Promote(players, heirs)[i].seat = players[i].seat
                 /\ Promote(players, heirs)[i].roleid = players[i].roleid
                 /\ Promote(players, heirs)[i].socket = players[i].socket
                 /\ Promote(players, heirs)[i].isroomctl
                       = (i \in heirs \/ players[i].isroomctl)
PROOF
<1>1. Len(players) \in Nat /\ players \in [1..Len(players) -> Member]
  OBVIOUS
<1>2. \A i \in DOMAIN players :
        Promote(players, heirs)[i] =
          IF i \in heirs THEN [players[i] EXCEPT !.isroomctl = TRUE] ELSE players[i]
  BY DEF Promote
<1>3. \A i \in DOMAIN players :
        /\ Promote(players, heirs)[i] \in Member
        /\ Promote(players, heirs)[i].seat = players[i].seat
        /\ Promote(players, heirs)[i].roleid = players[i].roleid
        /\ Promote(players, heirs)[i].socket = players[i].socket
        /\ Promote(players, heirs)[i].isroomctl = (i \in heirs \/ players[i].isroomctl)
  BY <1>1, <1>2 DEF Member
<1>4. Promote(players, heirs) \in [1..Len(players) -> Member]
  BY <1>1, <1>3 DEF Promote
<1> QED
  BY <1>1, <1>3, <1>4

(* The entries of a rebuilt room: the kept ones of the old room, in place  *)
(* of each other, with their seats and roles.                              *)
LEMMA RebuiltSound ==
    ASSUME NEW room \in Room, NEW role, NEW heirs,
           NEW K, K = Others(room.players, role)
    PROVE  /\ Rebuilt(room, role, heirs) \in Room
           /\ Rebuilt(room, role, heirs).free = room.free + 1
           /\ K \in SUBSET DOMAIN room.players
           /\ Cardinality(K) \in Nat
           /\ Len(Rebuilt(room, role, heirs).players) = Cardinality(K)
           /\ DOMAIN Rebuilt(room, role, heirs).players = 1..Cardinality(K)
           /\ \A k \in 1..Cardinality(K) :
                 /\ Nth(K, k) \in K
                 /\ Rebuilt(room, role, heirs).players[k].seat = room.players[Nth(K, k)].seat
                 /\ Rebuilt(room, role, heirs).players[k].roleid = room.players[Nth(K, k)].roleid
                 /\ Rebuilt(room, role, heirs).players[k].socket = room.players[Nth(K, k)].socket
                 /\ Rebuilt(room, role, heirs).players[k].isroomctl
                       = (Nth(K, k) \in heirs \/ room.players[Nth(K, k)].isroomctl)
PROOF
<1> DEFINE marked == Promote(room.players, heirs)
<1>1. room.free \in Int /\ room.players \in Seq(Member)
  BY DEF Room
<1>2. K \in SUBSET DOMAIN room.players
  BY DEF Others
<1>3. marked \in Seq(Member) /\ DOMAIN marked = DOMAIN room.players
  BY <1>1, PromoteSound
<1>4. Rebuilt(room, role, heirs) = [free |-> room.free + 1, players |-> Keep(marked, K)]
  BY DEF Rebuilt
<1>5. \A i \in DOMAIN room.players :
        /\ marked[i].seat = room.players[i].seat
        /\ marked[i].roleid = room.players[i].roleid
        /\ marked[i].socket = room.players[i].socket
        /\ marked[i].isroomctl = (i \in heirs \/ room.players[i].isroomctl)
  BY <1>1, PromoteSound
<1> HIDE DEF marked
<1>6. /\ Keep(marked, K) \in Seq(Member)
      /\ Cardinality(K) \in Nat
      /\ DOMAIN Keep(marked, K) = 1..Cardinality(K)
      /\ Len(Keep(marked, K)) = Cardinality(K)
      /\ \A k \in 1..Cardinality(K) :
            Nth(K, k) \in K /\ Keep(marked, K)[k] = marked[Nth(K, k)]
  BY <1>2, <1>3, KeepSound
<1>7. Rebuilt(room, role, heirs) \in Room
  BY <1>1, <1>4, <1>6 DEF Room
<1>8. \A k \in 1..Cardinality(K) : Nth(K, k) \in DOMAIN room.players
  BY <1>2, <1>6
<1> QED
  BY <1>2, <1>4, <1>5, <1>6, <1>7, <1>8

(* A rebuild seats nobody on the seat of another. *)
LEMMA RebuiltSeats ==
    ASSUME NEW room \in Room, NEW role, NEW heirs,
           \A i, j \in DOMAIN room.players :
              room.players[i].seat = room.players[j].seat => i = j
    PROVE  \A a, b \in DOMAIN Rebuilt(room, role, heirs).players :
              Rebuilt(room, role, heirs).players[a].seat
                = Rebuilt(room, role, heirs).players[b].seat => a = b
PROOF
<1> DEFINE K == Others(room.players, role)
           new == Rebuilt(room, role, heirs)
<1>1. /\ K \in SUBSET DOMAIN room.players
      /\ DOMAIN new.players = 1..Cardinality(K)
      /\ \A k \in 1..Cardinality(K) :
            Nth(K, k) \in K /\ new.players[k].seat = room.players[Nth(K, k)].seat
  BY RebuiltSound
<1> HIDE DEF K, new
<1>2. Len(room.players) \in Nat /\ K \in SUBSET (1..Len(room.players))
  BY <1>1 DEF Room
<1> SUFFICES ASSUME NEW a \in 1..Cardinality(K), NEW b \in 1..Cardinality(K),
                    new.players[a].seat = new.players[b].seat
             PROVE  a = b
  BY <1>1 DEF new
<1>3. Nth(K, a) = Nth(K, b)
  BY <1>1
<1> QED
  BY <1>2, <1>3, NthInjective

-------------------------------------------------------------------------------
(* Leaving one index out: the indices before it keep their place, the      *)
(* others move up by one.                                                  *)
Skip(i, k) == IF k < i THEN k ELSE k + 1

LEMMA NthSkip ==
    ASSUME NEW n \in Nat, NEW i \in 1..n, NEW K, K = (1..n) \ {i}
    PROVE  /\ Cardinality(K) = n - 1
           /\ \A k \in 1..(n - 1) : Nth(K, k) = Skip(i, k)
PROOF
<1>1. K \in SUBSET (1..n)
  OBVIOUS
<1>2. Cardinality(K) = n - 1
  <2>1. IsFiniteSet(1..n) /\ Cardinality(1..n) = n
    BY FS_Interval
  <2> QED
    BY <2>1, FS_RemoveElement
<1>3. ASSUME NEW k \in 1..(n - 1)
      PROVE  Nth(K, k) = Skip(i, k)
  <2> DEFINE e == Skip(i, k)
  <2>1. e \in K
    BY <1>3 DEF Skip
  <2>2. Rank(K, e) = k
    <3>1. CASE k < i
      <4>1. {j \in K : j <= e} = 1..k
        BY <3>1 DEF Skip
      <4>2. Cardinality(1..k) = k
        BY FS_Interval
      <4> QED
        BY <4>1, <4>2 DEF Rank
    <3>2. CASE ~(k < i)
      <4>1. {j \in K : j <= e} = (1..(k + 1)) \ {i}
        BY <3>2 DEF Skip
      <4> DEFINE I == 1..(k + 1)
      <4>2. IsFiniteSet(I) /\ Cardinality(I) = k + 1 /\ i \in I
        BY <3>2, FS_Interval
      <4> HIDE DEF I
      <4>3. Cardinality(I \ {i}) = (k + 1) - 1
        BY <4>2, FS_RemoveElement
      <4>4. Rank(K, e) = Cardinality(I \ {i})
        BY <4>1 DEF Rank, I
      <4> QED
        BY <4>3, <4>4
    <3> QED
      BY <3>1, <3>2
  <2> HIDE DEF e
  <2>3. Nth(K, k) \in K /\ Rank(K, Nth(K, k)) = k
    BY <1>1, <1>2, NthSound
  <2>4. CASE Nth(K, k) < e
    <3>1. Rank(K, Nth(K, k)) < Rank(K, e)
      BY <1>1, <2>1, <2>3, <2>4, RankMonotone
    <3> QED
      BY <2>2, <2>3, <3>1
  <2>5. CASE e < Nth(K, k)
    <3>1. Rank(K, e) < Rank(K, Nth(K, k))
      BY <1>1, <2>1, <2>3, <2>5, RankMonotone
    <3> QED
      BY <2>2, <2>3, <3>1
  <2>6. e \in Int /\ Nth(K, k) \in Int
    BY <1>1, <2>1, <2>3
  <2> QED
    BY <2>4, <2>5, <2>6 DEF e
<1> QED
  BY <1>2, <1>3

(* Skip is a bijection from 1..n-1 to the indices other than i. *)
LEMMA SkipSound ==
    ASSUME NEW n \in Nat, NEW i \in 1..n
    PROVE  /\ \A k \in 1..(n - 1) : Skip(i, k) \in 1..n /\ Skip(i, k) # i
           /\ \A k, j \in 1..(n - 1) : Skip(i, k) = Skip(i, j) => k = j
           /\ \A j \in 1..n : j # i => \E k \in 1..(n - 1) : Skip(i, k) = j
           /\ \A k \in 1..(n - 1) : i # 1 => (Skip(i, k) = 1 <=> k = 1)
           /\ \A k \in 1..(n - 1) : i = 1 => Skip(i, k) = k + 1
PROOF
<1>1. ASSUME NEW j \in 1..n, j # i
      PROVE  \E k \in 1..(n - 1) : Skip(i, k) = j
  <2>1. CASE j < i
    <3>1. j \in 1..(n - 1) /\ Skip(i, j) = j
      BY <2>1 DEF Skip
    <3> QED
      BY <3>1
  <2>2. CASE i < j
    <3>1. j - 1 \in 1..(n - 1) /\ Skip(i, j - 1) = j
      BY <2>2 DEF Skip
    <3> QED
      BY <3>1
  <2> QED
    BY <1>1, <2>1, <2>2
<1>2. \A k \in 1..(n - 1) : Skip(i, k) \in 1..n /\ Skip(i, k) # i
  BY DEF Skip
<1>3. \A k, j \in 1..(n - 1) : Skip(i, k) = Skip(i, j) => k = j
  BY DEF Skip
<1>4. \A k \in 1..(n - 1) : i # 1 => (Skip(i, k) = 1 <=> k = 1)
  BY DEF Skip
<1>5. \A k \in 1..(n - 1) : i = 1 => Skip(i, k) = k + 1
  BY DEF Skip
<1> QED
  BY <1>1, <1>2, <1>3, <1>4, <1>5

-------------------------------------------------------------------------------
(* Types *)

(* An entry of a captain or of an admitted player keeps the types. *)
LEMMA NewRoomType ==
    ASSUME NEW m \in Member
    PROVE  NewRoom(m) \in Room
PROOF
<1>1. PersonCount \in Int
  BY TeamAssumption DEF PersonCount
<1> QED
  BY <1>1 DEF NewRoom, Room

LEMMA SeatedType ==
    ASSUME NEW room \in Room, NEW m \in Member
    PROVE  Seated(room, m) \in Room
BY DEF Seated, Room

LEMMA FirstSeatIsSeat == FirstSeat \in Seat /\ FirstSeat \in SeatName
BY TeamAssumption DEF FirstSeat, Seat, SeatName

LEMMA NewEntityType == NewEntity \in Entity
BY FirstSeatIsSeat DEF NewEntity, Entity, RoleID, RoomID

(* Leaving and promoting keep the entities' types. *)
LEMMA DepartedType ==
    ASSUME CacheTypeOK, NEW s, NEW heirs
    PROVE  Departed(s, heirs) \in [Socket -> Entity]
PROOF
<1> SUFFICES ASSUME NEW x \in Socket
             PROVE  Departed(s, heirs)[x] \in Entity
  BY DEF Departed
<1>1. entity[x] \in Entity
  BY DEF CacheTypeOK
<1>2. [entity[x] EXCEPT !.isroomctl = TRUE] \in Entity
  BY <1>1 DEF Entity
<1>3. \A e \in Entity : [e EXCEPT !.roomid = 0] \in Entity
  BY DEF Entity, RoomID
<1> QED
  BY <1>1, <1>2, <1>3 DEF Departed

(* A room that is there is a room. *)
LEMMA ExistingRoom ==
    ASSUME CacheTypeOK, NEW id \in RoomID, Exists(id)
    PROVE  rooms[id] \in Room
BY DEF CacheTypeOK, Exists

LEMMA CrashType ==
    ASSUME CacheTypeOK, NEW kind \in Fault, Crash(kind)
    PROVE  CacheTypeOK'
BY DEF CacheTypeOK, Crash

LEMMA CreateRoomType ==
    ASSUME CacheTypeOK, NEW s \in Socket, NEW id \in RoomID, CreateRoom(s, id)
    PROVE  CacheTypeOK'
PROOF
<1>1. entity[s] \in Entity
  BY DEF CacheTypeOK
<1> DEFINE m == [socket |-> s, roleid |-> entity[s].roleid, isroomctl |-> TRUE, seat |-> FirstSeat]
<1>2. m \in Member
  BY <1>1, FirstSeatIsSeat DEF Member, Entity
<1>3. NewRoom(m) \in Room
  <2> HIDE DEF m
  <2> QED
    BY <1>2, NewRoomType
<1>4. rooms' \in [RoomID -> Room \cup {NULL}]
  BY <1>3 DEF CreateRoom, WithRoom, CacheTypeOK
<1>5. entity' \in [Socket -> Entity]
  BY <1>1, FirstSeatIsSeat DEF CreateRoom, CacheTypeOK, Entity
<1> QED
  BY <1>4, <1>5 DEF CreateRoom, CacheTypeOK

LEMMA AdmitType ==
    ASSUME CacheTypeOK, NEW s \in Socket, NEW id \in RoomID, NEW seat \in SeatName,
           Exists(id), Admit(s, id, seat)
    PROVE  CacheTypeOK'
PROOF
<1>1. entity[s] \in Entity
  BY DEF CacheTypeOK
<1> DEFINE m == [socket |-> s, roleid |-> entity[s].roleid, isroomctl |-> FALSE, seat |-> seat]
<1>2. m \in Member
  BY <1>1 DEF Member, Entity
<1>3. Seated(rooms[id], m) \in Room
  <2> HIDE DEF m
  <2> QED
    BY <1>2, SeatedType, ExistingRoom
<1>4. rooms' \in [RoomID -> Room \cup {NULL}]
  BY <1>3 DEF Admit, CacheTypeOK
<1>5. entity' \in [Socket -> Entity]
  BY <1>1 DEF Admit, CacheTypeOK, Entity
<1> QED
  BY <1>4, <1>5 DEF Admit, CacheTypeOK

LEMMA JoinTeamType ==
    ASSUME CacheTypeOK, NEW s \in Socket, NEW id \in RoomID, NEW seat \in SeatName,
           JoinTeam(s, id, seat)
    PROVE  CacheTypeOK'
BY AdmitType, CrashType DEF JoinTeam, Fault

LEMMA RejoinType ==
    ASSUME CacheTypeOK, NEW s \in Socket, NEW id \in RoomID, Exists(id), Rejoin(s, id)
    PROVE  CacheTypeOK'
PROOF
<1>1. \A heirs : Rebuilt(rooms[id], entity[s].roleid, heirs) \in Room
  BY ExistingRoom, RebuiltSound
<1>2. rooms' \in [RoomID -> Room \cup {NULL}]
  BY <1>1 DEF Rejoin, WithoutRoom, CacheTypeOK
<1>3. entity' \in [Socket -> Entity]
  BY DepartedType DEF Rejoin
<1> QED
  BY <1>2, <1>3 DEF Rejoin, CacheTypeOK

LEMMA JoinRoomType ==
    ASSUME CacheTypeOK, NEW s \in Socket, NEW id \in RoomID, JoinRoom(s, id)
    PROVE  CacheTypeOK'
BY AdmitType, RejoinType DEF JoinRoom, FirstIdle, IdleSeats, SeatName

LEMMA LeaveOwnRoomType ==
    ASSUME CacheTypeOK, NEW s \in Socket, OwnRoom(s) # NULL, LeaveOwnRoom(s)
    PROVE  CacheTypeOK'
PROOF
<1> DEFINE id == entity[s].roomid
<1>1. id \in RoomID /\ Exists(id)
  BY DEF CacheTypeOK, Entity, Exists, OwnRoom
<1>2. \A heirs : Rebuilt(rooms[id], entity[s].roleid, heirs) \in Room
  BY <1>1, ExistingRoom, RebuiltSound
<1>3. CASE Crash("NullEntity")
  BY <1>3, CrashType DEF Fault
<1>4. CASE ~Crash("NullEntity")
  <2>1. rooms' \in [RoomID -> Room \cup {NULL}]
    BY <1>2, <1>4 DEF LeaveOwnRoom, WithoutRoom, CacheTypeOK
  <2>2. entity' \in [Socket -> Entity]
    BY <1>4, DepartedType DEF LeaveOwnRoom
  <2> QED
    BY <1>4, <2>1, <2>2 DEF LeaveOwnRoom, CacheTypeOK
<1> QED
  BY <1>3, <1>4

LEMMA GameWaiteType ==
    ASSUME CacheTypeOK, NEW s \in Socket, GameWaite(s)
    PROVE  CacheTypeOK'
PROOF
<1>1. CASE Crash("NullRoom")
  BY <1>1, CrashType DEF Fault
<1>2. CASE ~Crash("NullRoom")
  <2> DEFINE turned == ~entity[s].gamewaite
  <2>1. turned \in BOOLEAN
    OBVIOUS
  <2>2. entity' = [entity EXCEPT ![s].gamewaite = turned] /\ UNCHANGED <<cache, rooms, fault>>
    BY <1>2 DEF GameWaite
  <2> HIDE DEF turned
  <2> QED
    BY <2>1, <2>2 DEF CacheTypeOK, Entity
<1> QED
  BY <1>1, <1>2

LEMMA GameOverType ==
    ASSUME CacheTypeOK, NEW s \in Socket, GameOver(s)
    PROVE  CacheTypeOK'
PROOF
<1>1. \A players : SentHome(players) \in [Socket -> Entity]
  BY DEF SentHome, CacheTypeOK, Entity, RoomID
<1>2. CASE Crash("NullEntity")
  BY <1>2, CrashType DEF Fault
<1>3. CASE ~Crash("NullEntity")
  BY <1>1, <1>3 DEF GameOver, WithoutRoom, CacheTypeOK
<1> QED
  BY <1>2, <1>3

LEMMA RsyncType ==
    ASSUME CacheTypeOK, NEW s \in Socket, NEW sent \in SentInfo, Rsync(s, sent)
    PROVE  CacheTypeOK'
PROOF
<1>1. Overwritten(s, sent) \in Entity
  BY DEF SentInfo, Overwritten, CacheTypeOK, Entity
<1> QED
  BY <1>1 DEF Rsync, CacheTypeOK

-------------------------------------------------------------------------------
(* Seats *)

(* Exchanging one room for one with distinct seats, or for none. *)
LEMMA SeatsAfterExchange ==
    ASSUME CacheTypeOK, SeatsDistinct, NEW id \in RoomID, NEW room,
           rooms' = [rooms EXCEPT ![id] = room],
           room # NULL => \A i, j \in DOMAIN room.players :
                             room.players[i].seat = room.players[j].seat => i = j
    PROVE  SeatsDistinct'
BY DEF SeatsDistinct, Exists, Players, CacheTypeOK

LEMMA SeatsUnchanged ==
    ASSUME SeatsDistinct, UNCHANGED rooms
    PROVE  SeatsDistinct'
BY DEF SeatsDistinct, Exists, Players

LEMMA CreateRoomSeats ==
    ASSUME CacheTypeOK, SeatsDistinct, NEW s \in Socket, NEW id \in RoomID, CreateRoom(s, id)
    PROVE  SeatsDistinct'
PROOF
<1> DEFINE m == [socket |-> s, roleid |-> entity[s].roleid, isroomctl |-> TRUE, seat |-> FirstSeat]
           room == NewRoom(m)
<1>1. \A i, j \in DOMAIN room.players : i = j
  BY DEF NewRoom
<1>2. UNCHANGED rooms \/ rooms' = [rooms EXCEPT ![id] = room]
  BY DEF CreateRoom, WithRoom
<1> HIDE DEF room
<1> QED
  BY <1>1, <1>2, SeatsAfterExchange, SeatsUnchanged

(* The one list that grows gets a seat none of its entries has. *)
LEMMA AdmitSeats ==
    ASSUME CacheTypeOK, SeatsDistinct, NEW s \in Socket, NEW id \in RoomID, NEW seat,
           Exists(id), seat \notin SeatsOf(rooms[id]), Admit(s, id, seat)
    PROVE  SeatsDistinct'
PROOF
<1> DEFINE m == [socket |-> s, roleid |-> entity[s].roleid, isroomctl |-> FALSE, seat |-> seat]
           old == rooms[id].players
           room == Seated(rooms[id], m)
<1>1. old \in Seq(Member) /\ Len(old) \in Nat
  BY ExistingRoom DEF Room
<1>2. room.players = Append(old, m) /\ m.seat = seat
  BY DEF Seated
<1>3. \A i, j \in DOMAIN old : old[i].seat = old[j].seat => i = j
  BY DEF SeatsDistinct, Players
<1>4. \A i \in DOMAIN old : old[i].seat # seat
  BY DEF SeatsOf
<1>5. rooms' = [rooms EXCEPT ![id] = room]
  BY DEF Admit
<1> HIDE DEF m, old, room
<1>6. /\ DOMAIN room.players = 1..Len(old) + 1
      /\ DOMAIN old = 1..Len(old)
      /\ \A i \in 1..Len(old) : room.players[i] = old[i]
      /\ room.players[Len(old) + 1] = m
  BY <1>1, <1>2
<1>7. ASSUME NEW i \in DOMAIN room.players, NEW j \in DOMAIN room.players,
             room.players[i].seat = room.players[j].seat
      PROVE  i = j
  <2>1. CASE i \in 1..Len(old) /\ j \in 1..Len(old)
    BY <1>3, <1>6, <1>7, <2>1
  <2>2. CASE i = Len(old) + 1 /\ j \in 1..Len(old)
    BY <1>2, <1>4, <1>6, <1>7, <2>2
  <2>3. CASE i \in 1..Len(old) /\ j = Len(old) + 1
    BY <1>2, <1>4, <1>6, <1>7, <2>3
  <2> QED
    BY <1>1, <1>6, <2>1, <2>2, <2>3
<1> QED
  BY <1>5, <1>7, SeatsAfterExchange

LEMMA RebuildSeats ==
    ASSUME CacheTypeOK, SeatsDistinct, NEW id \in RoomID, Exists(id), NEW role, NEW heirs,
           rooms' = [rooms EXCEPT ![id] = Rebuilt(rooms[id], role, heirs)]
    PROVE  SeatsDistinct'
PROOF
<1>1. rooms[id] \in Room
  BY ExistingRoom
<1>2. \A i, j \in DOMAIN rooms[id].players :
        rooms[id].players[i].seat = rooms[id].players[j].seat => i = j
  BY DEF SeatsDistinct, Players
<1> DEFINE room == Rebuilt(rooms[id], role, heirs)
<1>3. \A i, j \in DOMAIN room.players :
        room.players[i].seat = room.players[j].seat => i = j
  BY <1>1, <1>2, RebuiltSeats
<1>4. rooms' = [rooms EXCEPT ![id] = room]
  OBVIOUS
<1> HIDE DEF room
<1> QED
  BY <1>3, <1>4, SeatsAfterExchange

LEMMA WithoutRoomSeats ==
    ASSUME CacheTypeOK, SeatsDistinct, NEW id \in RoomID, rooms' = WithoutRoom(id)
    PROVE  SeatsDistinct'
BY SeatsAfterExchange DEF WithoutRoom

LEMMA LeaveOwnRoomSeats ==
    ASSUME CacheTypeOK, SeatsDistinct, NEW s \in Socket, OwnRoom(s) # NULL, LeaveOwnRoom(s)
    PROVE  SeatsDistinct'
PROOF
<1> DEFINE id == entity[s].roomid
<1>1. id \in RoomID /\ Exists(id)
  BY DEF CacheTypeOK, Entity, Exists, OwnRoom
<1>2. \/ rooms' = WithoutRoom(id)
      \/ \E heirs : rooms' = [rooms EXCEPT ![id] = Rebuilt(rooms[id], entity[s].roleid, heirs)]
      \/ UNCHANGED rooms
  BY DEF LeaveOwnRoom, Crash
<1> HIDE DEF id
<1> QED
  BY <1>1, <1>2, WithoutRoomSeats, RebuildSeats, SeatsUnchanged

LEMMA JoinRoomSeats ==
    ASSUME CacheTypeOK, SeatsDistinct, NEW s \in Socket, NEW id \in RoomID, JoinRoom(s, id)
    PROVE  SeatsDistinct'
PROOF
<1>1. CASE Rejoin(s, id)
  <2>1. \/ rooms' = WithoutRoom(id)
        \/ \E heirs : rooms' = [rooms EXCEPT ![id] = Rebuilt(rooms[id], entity[s].roleid, heirs)]
    BY <1>1 DEF Rejoin
  <2> QED
    BY <2>1, WithoutRoomSeats, RebuildSeats DEF JoinRoom
<1>2. CASE \E seat \in FirstIdle(rooms[id]) : Admit(s, id, seat)
  BY <1>2, AdmitSeats DEF FirstIdle, IdleSeats, JoinRoom
<1> QED
  BY <1>1, <1>2 DEF JoinRoom

LEMMA GameOverSeats ==
    ASSUME CacheTypeOK, SeatsDistinct, NEW s \in Socket, GameOver(s)
    PROVE  SeatsDistinct'
PROOF
<1>1. entity[s].roomid \in RoomID
  BY DEF CacheTypeOK, Entity
<1> QED
  BY <1>1, WithoutRoomSeats, SeatsUnchanged DEF GameOver, Crash
===============================================================================
