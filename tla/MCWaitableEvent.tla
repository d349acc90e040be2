--------------------------- MODULE MCWaitableEvent ---------------------------
(* Small instances of WaitableEvent for TLC. *)
EXTENDS WaitableEvent, TLC

Symmetry == Permutations(Threads)
=============================================================================
