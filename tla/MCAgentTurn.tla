---------------------------- MODULE MCAgentTurn ----------------------------
(* Two reads, and a write that a person must approve.                     *)
EXTENDS AgentTurn

CONSTANTS read, look, write

MCNeedsPerson == {write}
=============================================================================
