---------------------------- MODULE MCAgentRuns ----------------------------
(* Two replicas, one of which serves people; the cfg says how many turns each can have. *)
EXTENDS AgentRuns
CONSTANTS p1, p2
=============================================================================
