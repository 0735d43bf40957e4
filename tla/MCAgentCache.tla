---------------------------- MODULE MCAgentCache ----------------------------
(* Two callers, two agents and a cache that holds one of them. *)
EXTENDS AgentCache
=============================================================================
