--------------------------- MODULE CommandStream ---------------------------
(***************************************************************************)
(* What the command buffer promises its client: the commands are carried   *)
(* out in the order in which they were issued, each once, until the        *)
(* context is lost.                                                        *)
(***************************************************************************)
EXTENDS Sequences

CONSTANT Commands

VARIABLES pending, lost

vars == <<pending, lost>>

Init == pending = <<>> /\ lost = FALSE

Issue ==
    /\ ~lost
    /\ \E c \in Commands : pending' = Append(pending, c)
    /\ UNCHANGED lost

Execute == pending # <<>> /\ pending' = Tail(pending) /\ UNCHANGED lost

Lose == lost' = TRUE /\ pending' = <<>>

Next == Issue \/ Execute \/ Lose

Spec == Init /\ [][Next]_vars
=============================================================================
