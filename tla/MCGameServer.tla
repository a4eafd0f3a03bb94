---------------------------- MODULE MCGameServer ------------------------------
(* Instances of GameServer for TLC. *)
EXTENDS GameServer, TLC

(* Sockets, users and room ids are only compared with each other. *)
Symmetry ==
    Permutations(Beating) \cup Permutations(Socket \ Beating)
        \cup Permutations(UserID) \cup Permutations(RandomID)
===============================================================================
