-------------------------- MODULE MCClientSocketPool --------------------------
(* Small instances of ClientSocketPool for TLC. *)
EXTENDS ClientSocketPool

Others == Permutations(SocketIds) \cup Permutations(Groups)

(* All handles are alike ... *)
Symmetry == Permutations(Handles) \cup Others

(* ... but for those whose requests ignore the limits. *)
SymmetryLimits ==
    {p @@ [h \in IgnoreLimits |-> h] : p \in Permutations(Handles \ IgnoreLimits)}
        \cup Others
=============================================================================
