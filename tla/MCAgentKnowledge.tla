-------------------------- MODULE MCAgentKnowledge --------------------------
(* Agent `default' and the default route before a sandbox that keeps one   *)
(* corpus; one entry of agent `default', which both see, and one without   *)
(* an agent, which only the default route sees.                            *)
EXTENDS AgentKnowledge, TLC

CONSTANTS shared, legacy

OwnerOf == (shared :> Default) @@ (legacy :> NoAgent)

Good == [valid |-> TRUE, enabled |-> TRUE, kb |-> NoAgent]

RowsHere == {Good, [Good EXCEPT !.valid = FALSE]}

Symmetry == Permutations(Call)
=============================================================================
