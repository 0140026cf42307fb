---------------------------- MODULE MCRemediation ----------------------------
(* Small instances of Remediation: two plans for the target, calls that *)
(* decide, execute and propose at the same time.                        *)
EXTENDS Remediation

CONSTANTS p1, p2, d1, d2, e1, e2, r1
=============================================================================
