---------------------------- MODULE MCAgentAccess ----------------------------
(* AgentAccess with two threads that compete for two approvals of one run.    *)
EXTENDS AgentAccess, TLC

MCPolicies == {Actions, {"run.stop"}}
Symmetry   == Permutations(Calls) \cup Permutations(Tokens)
=============================================================================
