---------------------------- MODULE MCAgentLoop ----------------------------
(* Model-checking instances of AgentLoop: the cfg files give the constants. *)
EXTENDS AgentLoop
=============================================================================
