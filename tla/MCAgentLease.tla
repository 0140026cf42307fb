---------------------------- MODULE MCAgentLease ----------------------------
(* Small instances of AgentLease: two agents of one shared XPU.            *)
EXTENDS AgentLease, TLC

CONSTANTS a1, a2

AgentSymmetry == Permutations({a1, a2})
=============================================================================
