------------------------------- MODULE RoomInfo -------------------------------
(***************************************************************************)
(* Rooms and players as values: PBMessage::RoomInfo and                    *)
(* PBMessage::PlayerInfo, as CHallScene, CMainScene and CKeepAliveInfo     *)
(* read and rebuild them.  Names, levels, hit points, roomstate and the    *)
(* rest of the payload are left out: the server copies them into answers,  *)
(* and none of its decisions depends on them.                              *)
(***************************************************************************)
EXTENDS Integers, Sequences, FiniteSets

CONSTANTS
    Socket,     \* the socket numbers the system hands out
    UserID,     \* the user ids of the accounts; SelectRole makes one the roleid
    TeamCount,  \* teams of a room (2 in the code)
    TeamSize,   \* seats of a team (3 in the code)
    Elsewhere   \* pairs of team and teamid that a message can name and no room has

ASSUME TeamAssumption == TeamCount \in Nat \ {0} /\ TeamSize \in Nat \ {0}
ASSUME UserAssumption == 0 \notin UserID  \* 0 is the roleid of an entity without a role

RoleID == UserID \cup {0}

(* A seat is a team and a position (teamid) in it.  A message can name any *)
(* teamid, an int32: nothing compares it with the size of a team.          *)
Seat == (1..TeamCount) \X (0..TeamSize - 1)
SeatName == Seat \cup Elsewhere
FirstSeat == <<1, 0>>
PersonCount == TeamCount * TeamSize

(* The part of PlayerInfo that an entry of a room's player list carries. *)
Member == [socket : Socket, roleid : RoleID, isroomctl : BOOLEAN, seat : SeatName]

(* freepersoncount is an int the handlers add to and subtract from. *)
Room == [free : Int, players : Seq(Member)]

NewRoom(captain) == [free |-> PersonCount - 1, players |-> <<captain>>]

SeatsOf(room) == {room.players[i].seat : i \in DOMAIN room.players}

(* The order in which map<int, vector<int>> IdleTeam_ID lists the seats. *)
Before(a, b) == a[1] < b[1] \/ (a[1] = b[1] /\ a[2] < b[2])

(* Mutant of IdleSeats: positions counted from one. *)
IdleSeatsFromOne(room) == ((1..TeamCount) \X (1..TeamSize)) \ SeatsOf(room)

(* The idle seats JoinRoom collects: every seat no listed player has. *)
IdleSeats(room) == Seat \ SeatsOf(room)

(* The seat JoinRoom gives: the first one left (no element if full). *)
FirstIdle(room) ==
    {seat \in IdleSeats(room) : \A other \in IdleSeats(room) : ~Before(other, seat)}

(* add_playerinfo, with one free place fewer. *)
Seated(room, member) ==
    [free |-> room.free - 1, players |-> Append(room.players, member)]

-------------------------------------------------------------------------------
(* What leaving does to the list of players *)

(* Mutant of Others: the copying stops at the leaver (break, not continue). *)
OthersUntilOwn(players, role) ==
    {i \in DOMAIN players : \A j \in 1..i : players[j].roleid # role}

(* The entries a rebuild copies: all whose roleid is not the leaver's. *)
Others(players, role) == {i \in DOMAIN players : players[i].roleid # role}

Least(S) == {i \in S : \A j \in S : i <= j}

(* The k-th smallest element of K. *)
Nth(K, k) == CHOOSE i \in K : Cardinality({j \in K : j <= i}) = k

(* Mutant of Keep: every copy is put in front. *)
KeepBackwards(seq, K) ==
    [k \in 1..Cardinality(K) |-> seq[Nth(K, Cardinality(K) + 1 - k)]]

(* The entries of seq at the indices K, in their order: what the copying   *)
(* loops build.  (SelectSeq says the same; this form can be proved about.) *)
Keep(seq, K) == [k \in 1..Cardinality(K) |-> seq[Nth(K, k)]]

Promote(players, heirs) ==
    [i \in DOMAIN players |->
        IF i \in heirs THEN [players[i] EXCEPT !.isroomctl = TRUE] ELSE players[i]]

(* Mutant of Successor: nobody follows a captain. *)
SuccessorNever(players, role, wasCaptain) == {}

(* LeaveRoom: if the leaving entity is captain, the first other entry is heir. *)
Successor(players, role, wasCaptain) ==
    IF wasCaptain THEN Least(Others(players, role)) ELSE {}

(* JoinRoom into a room that lists the role: the heir is the first other   *)
(* entry after an own entry that is marked captain.                        *)
SuccessorBehind(players, role) ==
    Least({i \in Others(players, role) :
              \E j \in 1..(i - 1) : j \notin Others(players, role) /\ players[j].isroomctl})

(* Mutant of Rebuilt: the place is not given back. *)
RebuiltUncounted(room, role, heirs) ==
    [room EXCEPT !.players = Keep(Promote(room.players, heirs), Others(room.players, role))]

(* newRoomInfo of the rebuild: one free place more, the leaver's entries out. *)
Rebuilt(room, role, heirs) ==
    [free    |-> room.free + 1,
     players |-> Keep(Promote(room.players, heirs), Others(room.players, role))]

(* Mutant of LastLeaves: the count before the player left. *)
LastLeavesUncounted(room) == room.free = PersonCount

(* "the last player leaves": the count alone decides, not the list. *)
LastLeaves(room) == room.free + 1 = PersonCount
===============================================================================
