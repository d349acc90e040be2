--------------------------- MODULE MCMessageLoop ---------------------------
(* One thread, started twice, for TLC. *)
EXTENDS MessageLoop
=============================================================================
