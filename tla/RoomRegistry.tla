----------------------------- MODULE RoomRegistry ------------------------------
(***************************************************************************)
(* What the lobby promises its players: a user is in one room at most, a   *)
(* room holds no more users than it has places, its members are ordered by *)
(* the time they came, and the first of them is the captain.               *)
(***************************************************************************)
EXTENDS Naturals, Sequences

CONSTANTS User, Id, Capacity

VARIABLE party  \* the users in each room, in order; empty where there is no room

Somewhere(u) == \E id \in Id : \E i \in DOMAIN party[id] : party[id][i] = u

WithoutIndex(seq, i) ==
    [k \in 1..(Len(seq) - 1) |-> IF k < i THEN seq[k] ELSE seq[k + 1]]

Init == party = [id \in Id |-> <<>>]

Open(u, id) ==
    /\ ~Somewhere(u)
    /\ party[id] = <<>>
    /\ party' = [party EXCEPT ![id] = <<u>>]

Enter(u, id) ==
    /\ ~Somewhere(u)
    /\ party[id] # <<>>
    /\ Len(party[id]) < Capacity
    /\ party' = [party EXCEPT ![id] = Append(party[id], u)]

Exit(id) ==
    \E i \in DOMAIN party[id] :
        party' = [party EXCEPT ![id] = WithoutIndex(party[id], i)]

Close(id) ==
    /\ party[id] # <<>>
    /\ party' = [party EXCEPT ![id] = <<>>]

Next ==
    \E id \in Id :
        \/ \E u \in User : Open(u, id) \/ Enter(u, id)
        \/ Exit(id)
        \/ Close(id)

Spec == Init /\ [][Next]_party
===============================================================================
