------------------------- MODULE MCWaitableEventWatcher -------------------------
(* Small instances of WaitableEventWatcher for TLC. *)
EXTENDS WaitableEventWatcher, TLC

Symmetry == Permutations(Watchers) \cup Permutations(Addresses)
                \cup Permutations(Flags)
=============================================================================
