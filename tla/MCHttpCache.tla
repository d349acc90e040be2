---------------------------- MODULE MCHttpCache ----------------------------
(* Three transactions for one key; three live ActiveEntry objects suffice. *)
EXTENDS HttpCache
============================================================================
