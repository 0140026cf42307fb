--------------------------- MODULE MCEngineGroup ---------------------------
(* Two jobs, one of them of a workflow without a profile; two operations.  *)
EXTENDS EngineGroup

CONSTANTS j1, j2, w1, w2

MCJobs == {j1, j2}
MCUnprofiled == {j2}
MCMaxEvents == [j \in MCJobs |-> 1]
MCCallers == {w1, w2}
MCCasts == {{j1, j2}, {j1, w1}, {w1, w2}}
=============================================================================
