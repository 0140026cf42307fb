----------------------------- MODULE MCImageTask -----------------------------
(* Small instances of Presentation: a turn that asks twice for its job, *)
(* a cancellation, restarts.                                            *)
EXTENDS Presentation

CONSTANTS t1, t2, k1
=============================================================================
