------------------------------ MODULE LruLists ------------------------------
(***************************************************************************)
(* What the rankings of the disk cache promise: a list of nodes for each   *)
(* kind of use, the last used first.  A node enters at the front of one    *)
(* list or leaves the list it is in, each in one step, and a crash of the  *)
(* process is no step at all.                                              *)
(***************************************************************************)
EXTENDS Naturals, Sequences

CONSTANTS Nodes, Lists

VARIABLE lists

Members(l) == {lists[l][i] : i \in DOMAIN lists[l]}

Init == lists = [l \in Lists |-> <<>>]

Insert(n, l) ==
    /\ lists' = [lists EXCEPT ![l] = <<n>> \o @]
    /\ \A m \in Lists : n \notin Members(m)

Remove(n, l) ==
    /\ lists' = [lists EXCEPT ![l] = SelectSeq(@, LAMBDA m : m # n)]
    /\ n \in Members(l)

Next == \E n \in Nodes, l \in Lists : Insert(n, l) \/ Remove(n, l)

Spec == Init /\ [][Next]_lists
=============================================================================
