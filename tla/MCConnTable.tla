----------------------------- MODULE MCConnTable ------------------------------
(* Instances of ConnTable for TLC. *)
EXTENDS ConnTable, TLC

Symmetry == Permutations(Socket)
===============================================================================
