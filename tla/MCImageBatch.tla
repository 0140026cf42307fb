---------------------------- MODULE MCImageBatch ----------------------------
(* Small instances of ImageBatch: a turn asked twice for the batch, two    *)
(* later turns that resume it, two cancellations.                          *)
EXTENDS ImageBatch, TLC

CONSTANTS c1, c2, r1, r2, k1, k2

\* Invocations of one kind are interchangeable.
InvocationSymmetry ==
  Permutations(Creators) \cup Permutations(Resumers) \cup Permutations(Cancellers)
=============================================================================
