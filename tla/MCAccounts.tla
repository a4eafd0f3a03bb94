------------------------------ MODULE MCAccounts -------------------------------
(* Instances of Accounts for TLC. *)
EXTENDS Accounts, TLC

(* All of these are only compared with each other. *)
Symmetry == Permutations(Socket) \cup Permutations(UserID) \cup Permutations(Ticket)
            \cup Permutations(RoleName) \cup Permutations(RoleType)
===============================================================================
