-------------------------- MODULE RemediationPromise --------------------------
(***************************************************************************)
(* What governed remediation promises: a command is started for a plan     *)
(* once at most, only when the plan's approval was granted and then used   *)
(* up for it, and never while another command works on the target.         *)
(***************************************************************************)
CONSTANT Plans

VARIABLES
  grant,      \* grant[p]: none, granted, refused or used
  running,    \* the plans whose command is at work
  commanded   \* the plans whose command was started

Init ==
  /\ grant = [p \in Plans |-> "none"]
  /\ running = {}
  /\ commanded = {}

\* A grant may be taken back, a refusal and a use are final.
Decide(p, decision) ==
  /\ grant[p] = "none" \/ (grant[p] = "granted" /\ decision # "granted")
  /\ grant' = [grant EXCEPT ![p] = decision]
  /\ UNCHANGED <<running, commanded>>

Use(p) ==
  /\ grant[p] = "granted"
  /\ grant' = [grant EXCEPT ![p] = "used"]
  /\ UNCHANGED <<running, commanded>>

Start(p) ==
  /\ grant[p] = "used"
  /\ p \notin commanded
  /\ running = {}
  /\ running' = {p}
  /\ commanded' = commanded \cup {p}
  /\ UNCHANGED grant

End(p) ==
  /\ p \in running
  /\ running' = running \ {p}
  /\ UNCHANGED <<grant, commanded>>

Next ==
  \E p \in Plans :
    \/ \E decision \in {"granted", "refused"} : Decide(p, decision)
    \/ Use(p) \/ Start(p) \/ End(p)

Spec == Init /\ [][Next]_<<grant, running, commanded>>
=============================================================================
