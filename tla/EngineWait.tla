----------------------------- MODULE EngineWait -----------------------------
(***************************************************************************)
(* The ComfyUI client of a job (comfy.js): it submits its one prompt       *)
(* through the bridge, polls the history until its deadline, and recovers  *)
(* a prompt whose recorded progress went quiet by an exact interrupt.      *)
(*                                                                         *)
(* pc[j] is the place of job j, its outcomes included.  A request to the   *)
(* bridge that only reads fails when the bridge is down or the engine      *)
(* behind it is; the two requests that act are served by j's thread.       *)
(***************************************************************************)
EXTENDS EngineBridge

VARIABLE pc

jobVars == <<pc, lease>>

Waiting == {"waiting", "watching", "recovering", "proving", "interrupting"}
Grace == {"grace", "looked"}
Outcomes == {"completed", "failed", "timeout", "unproven", "rejected", "recovered", "service"}

JobTypeOK ==
  pc \in [Jobs -> {"new", "leased", "ready", "submitting"} \cup Waiting \cup Grace \cup Outcomes]

JobInit ==
  /\ pc = [j \in Jobs |-> "new"]
  /\ lease = Nobody

GoesTo(j, place) == pc' = [pc EXCEPT ![j] = place] /\ UNCHANGED lease

\* Whatever ends the wait, the job gives its lease back.
Ends(j, outcome) ==
  /\ pc' = [pc EXCEPT ![j] = outcome]
  /\ lease' = IF lease = j THEN Nobody ELSE lease

ReadFails == ~bridge \/ Fails
Reads == bridge /\ Answers

-----------------------------------------------------------------------------
(* The lease, and the submission.                                          *)

\* An engine that does not answer the scheduler's probe counts as idle.
Acquire(j) ==
  /\ pc[j] = "new"
  /\ lease = Nobody
  /\ ReadFails \/ InEngine = {}
  /\ lease' = j
  /\ pc' = [pc EXCEPT ![j] = "leased"]
  /\ UNCHANGED <<bridgeVars, engineVars>>

Submit(j) ==
  /\ pc[j] = "ready"
  /\ \/ bridge /\ GoesTo(j, "submitting") /\ Thread(j, "forwarding")
     \/ ~bridge /\ Ends(j, "failed") /\ UNCHANGED thread
  /\ UNCHANGED <<binding, progress, seen, engineVars>>

SubmitAnswered(j) ==
  /\ pc[j] = "submitting"
  /\ \/ thread[j] = "bound" /\ GoesTo(j, "waiting")
     \/ thread[j] \in {"refused", "rejected"} /\ Ends(j, "failed")
  /\ Thread(j, "idle")
  /\ UNCHANGED <<binding, progress, seen, engineVars>>

\* The job waits 30 s for the answer, its thread 180 s for the engine.
SubmitTimesOut(j) ==
  /\ pc[j] = "submitting"
  /\ thread[j] \in Serving
  /\ Ends(j, "failed")
  /\ UNCHANGED <<bridgeVars, engineVars>>

-----------------------------------------------------------------------------
(* waitForImage.                                                           *)

\* Reading the history of its prompt: an image is imported or not, an error is thrown,
\* and without an entry the job goes on to the place "next".
ReadsHistory(j, next) ==
  \/ ReadFails /\ Ends(j, "failed")
  \/ Reads /\ prompt[j] = "image" /\ (Ends(j, "completed") \/ Ends(j, "failed"))
  \/ Reads /\ prompt[j] = "error" /\ Ends(j, "failed")
  \/ Reads /\ ~InHistory(j) /\ GoesTo(j, next)

PollHistory(j) ==
  /\ pc[j] = "waiting"
  /\ ReadsHistory(j, "watching")
  /\ UNCHANGED <<bridgeVars, engineVars>>

\* The 20 minutes are over; they may be at any turn of the loop.
WaitOver(j) ==
  /\ pc[j] = "waiting"
  /\ Ends(j, "timeout")
  /\ UNCHANGED <<bridgeVars, engineVars>>

\* A node has started and the last progress is older than the job's own threshold.
Actionable(j) == progress[j].event = "node" /\ progress[j].quiet

\* The progress is optional: whatever fails here is as if there were none.
WatchProgress(j) ==
  /\ pc[j] = "watching"
  /\ GoesTo(j, IF bridge /\ ProgressShown(j) /\ Actionable(j) THEN "recovering" ELSE "waiting")
  /\ UNCHANGED <<bridgeVars, engineVars>>

-----------------------------------------------------------------------------
(* exactPromptRecovery.                                                    *)

LookAgain(j) ==
  /\ pc[j] = "recovering"
  /\ ReadsHistory(j, "proving")
  /\ UNCHANGED <<bridgeVars, engineVars>>

ProveOwnership(j) ==
  /\ pc[j] = "proving"
  /\ \/ ReadFails /\ Ends(j, "failed") /\ UNCHANGED thread
     \/ Reads /\ Running # {j} /\ Ends(j, "unproven") /\ UNCHANGED thread
     \/ Reads /\ Running = {j} /\ GoesTo(j, "interrupting") /\ Thread(j, "asked")
  /\ UNCHANGED <<binding, progress, seen, engineVars>>

\* Variant: the answer to the interrupt is taken for its effect.
InterruptTakenForDone(j) ==
  /\ pc[j] = "interrupting"
  /\ \/ thread[j] = "accepted" /\ Ends(j, "recovered")
     \/ thread[j] = "withheld" /\ GoesTo(j, "waiting")
     \/ thread[j] = "rejected" /\ Ends(j, "rejected")
  /\ Thread(j, "idle")
  /\ UNCHANGED <<binding, progress, seen, engineVars>>

InterruptAnswered(j) ==
  /\ pc[j] = "interrupting"
  /\ \/ thread[j] = "accepted" /\ GoesTo(j, "grace")
     \/ thread[j] = "withheld" /\ GoesTo(j, "waiting")
     \/ thread[j] = "rejected" /\ Ends(j, "rejected")
  /\ Thread(j, "idle")
  /\ UNCHANGED <<binding, progress, seen, engineVars>>

InterruptTimesOut(j) ==
  /\ pc[j] = "interrupting"
  /\ thread[j] \in Serving
  /\ Ends(j, "rejected")
  /\ UNCHANGED <<bridgeVars, engineVars>>

\* Within the grace history and queue are read side by side; here the history first.
GraceHistory(j) ==
  /\ pc[j] = "grace"
  /\ \/ ReadFails /\ Ends(j, "failed")
     \/ Reads /\ prompt[j] = "image" /\ (Ends(j, "completed") \/ Ends(j, "failed"))
     \/ Reads /\ prompt[j] # "image" /\ GoesTo(j, "looked")
  /\ UNCHANGED <<bridgeVars, engineVars>>

GraceQueue(j) ==
  /\ pc[j] = "looked"
  /\ \/ ReadFails /\ Ends(j, "failed")
     \/ Reads /\ prompt[j] # "running" /\ Ends(j, "recovered")
     \/ Reads /\ prompt[j] = "running" /\ GoesTo(j, "grace")
  /\ UNCHANGED <<bridgeVars, engineVars>>

\* Variant: the deadline is computed in every turn of the loop.
GraceRenewed(j) ==
  /\ pc[j] = "grace"
  /\ UNCHANGED <<jobVars, bridgeVars, engineVars>>

\* The 45 s are over.
GraceOver(j) ==
  /\ pc[j] = "grace"
  /\ Ends(j, "service")
  /\ UNCHANGED <<bridgeVars, engineVars>>

-----------------------------------------------------------------------------

Submits(j) == Submit(j) \/ SubmitAnswered(j) \/ SubmitTimesOut(j)

Waits(j) == PollHistory(j) \/ WaitOver(j) \/ WatchProgress(j)

Recovers(j) ==
  \/ LookAgain(j) \/ ProveOwnership(j) \/ InterruptAnswered(j) \/ InterruptTimesOut(j)
  \/ GraceHistory(j) \/ GraceQueue(j) \/ GraceOver(j)
=============================================================================
