---------------------------- MODULE MCTaskEvents ----------------------------
(* Model-checking instances of TaskEvents: the cfg files give the constants. *)
EXTENDS TaskEvents
=============================================================================
