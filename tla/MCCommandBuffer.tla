-------------------------- MODULE MCCommandBuffer --------------------------
(* A small ring for TLC. *)
EXTENDS CommandBuffer
=============================================================================
