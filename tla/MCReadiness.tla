----------------------------- MODULE MCReadiness -------------------------------
(* Instances of Readiness for TLC. *)
EXTENDS Readiness, TLC

(* Sockets, users and room ids are only compared with each other. *)
Symmetry == Permutations(Socket) \cup Permutations(UserID) \cup Permutations(RandomID)
===============================================================================
