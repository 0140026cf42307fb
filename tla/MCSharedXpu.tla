---------------------------- MODULE MCSharedXpu ----------------------------
(* Small instances of SharedXpu: two agents, a client of the ComfyUI bridge *)
(* and one of the upscale server.                                          *)
EXTENDS SharedXpu, TLC

CONSTANTS a1, a2, x1, x2, u1

AgentSymmetry == Permutations({a1, a2})
=============================================================================
