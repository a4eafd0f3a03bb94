------------------------------ MODULE MCRoomRace -------------------------------
(* Instances of RoomRace for TLC. *)
EXTENDS RoomRace, TLC

Symmetry == Permutations(Silent) \cup Permutations(Socket \ Silent)
            \cup Permutations(UserID) \cup Permutations(RandomID)

(* Keep is what the copying loops of the rebuild do: SelectSeq on the      *)
(* entries whose roleid differs, over all short lists of roleids.          *)
RoleLists == UNION {[1..n -> {[roleid |-> r] : r \in 1..3}] : n \in 0..5}
ASSUME KeepCopiesInOrder ==
    \A players \in RoleLists, role \in 1..3 :
        Keep(players, Others(players, role))
            = SelectSeq(players, LAMBDA m : m.roleid # role)
===============================================================================
