---------------------------- MODULE BatchPromise ----------------------------
(***************************************************************************)
(* What a batch of images promises the conversation that asked for it      *)
(* (docs/SECURITY.md): what was verified stays verified; a batch may stop  *)
(* and be resumed any number of times; it completes with every image       *)
(* verified, once, and nothing happens to it afterwards.                   *)
(***************************************************************************)
CONSTANT Images

VARIABLES
  verified,   \* the images with a verified artifact
  phase       \* what the parent record says of the batch

vars == <<verified, phase>>

Init ==
  /\ verified = {}
  /\ phase = "none"

Ask ==
  /\ phase = "none"
  /\ phase' = "open"
  /\ UNCHANGED verified

\* A child that is at work ends its work after its batch was stopped, too.
Verify(i) ==
  /\ phase \in {"open", "stopped"}
  /\ i \notin verified
  /\ verified' = verified \cup {i}
  /\ UNCHANGED phase

Stop ==
  /\ phase = "open"
  /\ phase' = "stopped"
  /\ UNCHANGED verified

Reopen ==
  /\ phase = "stopped"
  /\ phase' = "open"
  /\ UNCHANGED verified

Complete ==
  /\ phase = "open"
  /\ verified = Images
  /\ phase' = "completed"
  /\ UNCHANGED verified

Next == Ask \/ Stop \/ Reopen \/ Complete \/ \E i \in Images : Verify(i)

Spec == Init /\ [][Next]_vars
=============================================================================
