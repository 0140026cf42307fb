------------------------------ MODULE ImageTask ------------------------------
(***************************************************************************)
(* One image job that is not a batch: createTask and jobAction of          *)
(* image-system/src/runtime.js, and recovery.js, which finishes after a    *)
(* restart what a dead process had submitted.                              *)
(*                                                                         *)
(* All of it runs in one JavaScript process: from one await to the next    *)
(* nothing else of the process runs, but the process may die between any   *)
(* two writes.  So a step writes one record, and busy names the actor that *)
(* has not yet come to its next await.  The engine (a ComfyUI prompt or a  *)
(* request to the identity worker) outlives the process, and so do its     *)
(* results.                                                                *)
(*                                                                         *)
(* The record a run works with is kept in memory from the plan to the end, *)
(* and so is, from its first read, the one that the recovery works with.   *)
(***************************************************************************)
EXTENDS JobStore, Naturals

CONSTANTS
  MaxCount,     \* the largest number of images of a job
  Turns,        \* createTask calls with the same idempotency key
  Cancellers,   \* cancel actions of jobAction
  Reconciler,   \* the recovery pass of the image reconciler
  Nobody,
  Impatient,    \* turns whose planning, wait or READY check may fail
  MaxCrashes    \* bound: how often the process dies

Children == 1 .. MaxCount
Actors == Turns \cup Cancellers \cup {Reconciler}

ASSUME TaskAssumption ==
  /\ MaxCount \in Nat \ {0}
  /\ Turns \cap Cancellers = {}
  /\ Reconciler \notin Turns \cup Cancellers
  /\ Nobody \notin Actors
  /\ Impatient \subseteq Turns
  /\ MaxCrashes \in Nat

VARIABLES
  form,      \* the request: how many images, by the identity worker?, enhanced?
  parent,    \* the parent record: status and artifacts
  child,     \* child[i]: the status of the i-th child; COMPLETED goes with its artifact
  old,       \* the records nobody has written for longer than the stale bound
  claim,     \* the idempotency file
  fresh,     \* was the job made by the process that runs now?
  marker,    \* the cancel file
  engine,    \* the work of the child the job has come to
  prompt,    \* does the child record name that work?
  ack,       \* has the worker's response been acknowledged?
  pc, at, mine, copy, holder, busy, crashes

records == <<parent, child, old>>
outside == <<marker, engine, prompt, ack>>
vars == <<form, parent, child, old, claim, fresh, marker, engine, prompt, ack,
          pc, at, mine, copy, holder, busy, crashes>>

Parent == 0
Executing == {"starting", "working", "rejected", "enhancing", "verified", "committing", "finishing"}
Recovering == {"leasing", "fetching", "checking", "staging", "staged", "postprocessing",
               "recovered", "binding"}
Live == {"capturing", "planning", "waiting", "leased", "aborting", "sweeping"}
          \cup Executing \cup Recovering
Places == {"new", "answered", "unplanned", "done", "dead"} \cup Live

OnDisk == (Statuses \ {"VALIDATED"}) \cup {Missing}
ParentRecords == [status : OnDisk, artifacts : SUBSET Children]
NoParent == [status |-> Missing, artifacts |-> {}]

TaskTypeOK ==
  /\ form \in [count : Children, identity : BOOLEAN, enhanced : BOOLEAN]
  /\ parent \in ParentRecords /\ mine \in ParentRecords /\ copy \in ParentRecords
  /\ child \in [Children -> OnDisk \ {"CREATED"}]
  /\ old \in SUBSET (0 .. MaxCount)
  /\ engine \in {"none", "running", "completed", "failed"}
  /\ claim \in BOOLEAN /\ fresh \in BOOLEAN /\ marker \in BOOLEAN
  /\ prompt \in BOOLEAN /\ ack \in BOOLEAN
  /\ pc \in [Actors -> Places]
  /\ at \in [Actors -> 0 .. MaxCount]
  /\ holder \in Turns \cup {Reconciler, Nobody}
  /\ busy \in Actors \cup {Nobody}
  /\ crashes \in 0 .. MaxCrashes

\* The identity workflows make one image.
TaskInit ==
  /\ form \in [count : Children, identity : BOOLEAN, enhanced : BOOLEAN]
  /\ form.identity => form.count = 1
  /\ parent = NoParent /\ mine = NoParent /\ copy = NoParent
  /\ child = [i \in Children |-> Missing]
  /\ old = {}
  /\ claim = FALSE /\ fresh = FALSE /\ marker = FALSE /\ prompt = FALSE /\ ack = FALSE
  /\ engine = "none"
  /\ pc = [a \in Actors |-> "new"]
  /\ at = [a \in Actors |-> 0]
  /\ holder = Nobody
  /\ busy = Nobody
  /\ crashes = 0

-----------------------------------------------------------------------------

SaveParent(new) == parent' = new /\ old' = old \ {Parent}
SaveChild(i, status) == child' = [child EXCEPT ![i] = status] /\ old' = old \ {i}
KeepRecords == UNCHANGED records

\* a goes on at place, with the process to itself or by way of an await.
GoesOn(a, place) == pc' = [pc EXCEPT ![a] = place] /\ busy' = a
Awaits(a, place) == pc' = [pc EXCEPT ![a] = place] /\ busy' = Nobody
At(a, place) == pc[a] = place /\ busy \in {a, Nobody}

From(a, i) == at' = [at EXCEPT ![a] = i]
Free(a) == IF holder = a THEN Nobody ELSE holder

-----------------------------------------------------------------------------
(* createTask: the plan.                                                   *)

CheckPrior(t) ==
  /\ At(t, "new")
  /\ Awaits(t, IF claim THEN "answered" ELSE "capturing")
  /\ UNCHANGED <<form, records, claim, fresh, outside, at, mine, copy, holder, crashes>>

\* The loser cancels the record it made and answers with the winner's.
Claim(t) ==
  /\ At(t, "capturing")
  /\ IF claim
       THEN /\ Awaits(t, "answered")
            /\ UNCHANGED <<parent, old, claim, fresh>>
       ELSE /\ claim' = TRUE
            /\ fresh' = TRUE
            /\ SaveParent([NoParent EXCEPT !.status = "CREATED"])
            /\ GoesOn(t, "planning")
  /\ UNCHANGED <<form, child, outside, at, mine, copy, holder, crashes>>

\* Variant: the child is written as soon as it is validated.
PlanChildValidated(t) ==
  /\ At(t, "planning")
  /\ at[t] < form.count
  /\ SaveChild(at[t] + 1, "VALIDATED")
  /\ From(t, at[t] + 1)
  /\ GoesOn(t, "planning")
  /\ UNCHANGED <<form, parent, claim, fresh, outside, mine, copy, holder, crashes>>

PlanChild(t) ==
  /\ At(t, "planning")
  /\ at[t] < form.count
  /\ SaveChild(at[t] + 1, "QUEUED")
  /\ From(t, at[t] + 1)
  /\ GoesOn(t, "planning")
  /\ UNCHANGED <<form, parent, claim, fresh, outside, mine, copy, holder, crashes>>

PlanParent(t) ==
  /\ At(t, "planning")
  /\ at[t] = form.count
  /\ mine' = [parent EXCEPT !.status = "QUEUED"]
  /\ SaveParent(mine')
  /\ From(t, 0)
  /\ Awaits(t, "waiting")
  /\ UNCHANGED <<form, child, claim, fresh, outside, copy, holder, crashes>>

\* A child record could not be written.  Those that were stay as they are.
PlanFails(t) ==
  /\ At(t, "planning")
  /\ t \in Impatient
  /\ SaveParent([parent EXCEPT !.status = "FAILED"])
  /\ Awaits(t, "unplanned")
  /\ UNCHANGED <<form, child, claim, fresh, outside, at, mine, copy, holder, crashes>>

-----------------------------------------------------------------------------
(* createTask: the way to the end when something fails.                    *)

\* Variant: the children are left as they are.
AbortUnswept(t, status) ==
  /\ SaveParent([parent EXCEPT !.status = IF @ \in TERMINAL THEN @ ELSE status])
  /\ From(t, form.count)
  /\ GoesOn(t, "sweeping")
  /\ UNCHANGED <<form, child, claim, fresh, outside, mine, copy, holder, crashes>>

\* The catch clause reads the record again; what is terminal stays.
Abort(t, status) ==
  /\ SaveParent([parent EXCEPT !.status = IF @ \in TERMINAL THEN @ ELSE status])
  /\ From(t, 0)
  /\ GoesOn(t, "sweeping")
  /\ UNCHANGED <<form, child, claim, fresh, outside, mine, copy, holder, crashes>>

\* The poll of the queue saw the record cancelled, or the wait or the READY
\* check failed.
WaitStops(t) ==
  /\ \/ At(t, "waiting") /\ parent.status = "CANCELLED"
     \/ (At(t, "waiting") \/ At(t, "leased")) /\ t \in Impatient
  /\ \E status \in {"FAILED", "TIMED_OUT"} : Abort(t, status)

\* Variant: a verified child is cancelled with the others.
SweepAnyChild(a) ==
  /\ At(a, "sweeping")
  /\ at[a] < form.count
  /\ From(a, at[a] + 1)
  /\ SaveChild(at[a] + 1, "CANCELLED")
  /\ GoesOn(a, "sweeping")
  /\ UNCHANGED <<form, parent, claim, fresh, outside, mine, copy, holder, crashes>>

SweepChild(a) ==
  /\ At(a, "sweeping")
  /\ at[a] < form.count
  /\ From(a, at[a] + 1)
  /\ IF child[at[a] + 1] \in TERMINAL THEN UNCHANGED <<child, old>> ELSE SaveChild(at[a] + 1, "CANCELLED")
  /\ GoesOn(a, "sweeping")
  /\ UNCHANGED <<form, parent, claim, fresh, outside, mine, copy, holder, crashes>>

SweepDone(a) ==
  /\ At(a, "sweeping")
  /\ at[a] = form.count
  /\ holder' = Free(a)
  /\ Awaits(a, "done")
  /\ UNCHANGED <<form, records, claim, fresh, outside, at, mine, copy, crashes>>

-----------------------------------------------------------------------------
(* createTask: the children, one after the other.                          *)

Acquire(t) ==
  /\ At(t, "waiting")
  /\ parent.status # "CANCELLED"
  /\ holder = Nobody
  /\ holder' = t
  /\ Awaits(t, "leased")
  /\ UNCHANGED <<form, records, claim, fresh, outside, at, mine, copy, crashes>>

\* Variant: the record is not read again when the lease is there.
StartUnread(t) ==
  /\ At(t, "leased")
  /\ mine' = [mine EXCEPT !.status = "RUNNING"]
  /\ SaveParent(mine')
  /\ GoesOn(t, "starting")
  /\ UNCHANGED <<form, child, claim, fresh, outside, at, copy, holder, crashes>>

\* The record is read to see whether it was cancelled; what is written is the
\* record in memory.  (recoverStale, called in between, concerns other jobs: see
\* TaskRecovery.)
Start(t) ==
  /\ At(t, "leased")
  /\ parent.status # "CANCELLED"
  /\ mine' = [mine EXCEPT !.status = "RUNNING"]
  /\ SaveParent(mine')
  /\ GoesOn(t, "starting")
  /\ UNCHANGED <<form, child, claim, fresh, outside, at, copy, holder, crashes>>

StartCancelled(t) ==
  /\ At(t, "leased")
  /\ parent.status = "CANCELLED"
  /\ Abort(t, "CANCELLED")

StartChild(t) ==
  /\ At(t, "starting")
  /\ SaveChild(at[t] + 1, "RUNNING")
  /\ From(t, at[t] + 1)
  /\ engine' = "none" /\ prompt' = FALSE /\ ack' = FALSE
  /\ Awaits(t, "working")
  /\ UNCHANGED <<form, parent, claim, fresh, marker, mine, copy, holder, crashes>>

Submit(t) ==
  /\ At(t, "working")
  /\ engine = "none"
  /\ engine' = "running"
  /\ UNCHANGED <<form, records, claim, fresh, marker, prompt, ack, pc, at, mine, copy, holder,
                 busy, crashes>>

\* onEngineMetadata: after the submission to ComfyUI; after the worker's response.
RecordPrompt(t) ==
  /\ At(t, "working")
  /\ ~prompt
  /\ engine = "completed" \/ (engine = "running" /\ ~form.identity)
  /\ prompt' = TRUE
  /\ SaveChild(at[t], "RUNNING")
  /\ UNCHANGED <<form, parent, claim, fresh, marker, engine, ack, pc, at, mine, copy, holder,
                 busy, crashes>>

\* verifyArtifact acknowledges the worker's response, whatever it found.
Verify(t) ==
  /\ At(t, "working")
  /\ engine = "completed" /\ prompt
  /\ ack' = form.identity
  /\ \/ GoesOn(t, "rejected")
     \/ IF form.enhanced THEN Awaits(t, "enhancing") ELSE GoesOn(t, "verified")
  /\ UNCHANGED <<form, records, claim, fresh, marker, engine, prompt, at, mine, copy, holder, crashes>>

Enhance(t) ==
  /\ At(t, "enhancing")
  /\ GoesOn(t, "verified")
  /\ UNCHANGED <<form, records, claim, fresh, outside, at, mine, copy, holder, crashes>>

\* The engine failed, did not answer in time, or the result was refused; the
\* identity worker also answers that it was asked to stop.
FailedAs(t) ==
  IF pc[t] # "working" \/ engine = "completed" THEN {"FAILED"}
  ELSE {"FAILED", "TIMED_OUT"} \cup (IF marker THEN {"CANCELLED"} ELSE {})

\* Variant: the wait has no deadline and does not see that the engine failed.
ChildRefused(t) ==
  /\ \E place \in {"rejected", "enhancing"} : At(t, place)
  /\ SaveChild(at[t], "FAILED")
  /\ GoesOn(t, "aborting")
  /\ UNCHANGED <<form, parent, claim, fresh, outside, at, mine, copy, holder, crashes>>

ChildFails(t) ==
  /\ \E place \in {"working", "rejected", "enhancing"} : At(t, place)
  /\ \E status \in FailedAs(t) : SaveChild(at[t], status)
  /\ GoesOn(t, "aborting")
  /\ UNCHANGED <<form, parent, claim, fresh, outside, at, mine, copy, holder, crashes>>

\* The error of the child is the error of its parent.
AbortByChild(t) ==
  /\ At(t, "aborting")
  /\ Abort(t, child[at[t]])

CommitChild(t) ==
  /\ At(t, "verified")
  /\ SaveChild(at[t], "COMPLETED")
  /\ GoesOn(t, "committing")
  /\ UNCHANGED <<form, parent, claim, fresh, outside, at, mine, copy, holder, crashes>>

CommitParent(t) ==
  /\ At(t, "committing")
  /\ mine' = [mine EXCEPT !.artifacts = @ \cup {at[t]}]
  /\ SaveParent(mine')
  /\ GoesOn(t, IF at[t] < form.count THEN "starting" ELSE "finishing")
  /\ UNCHANGED <<form, child, claim, fresh, outside, at, copy, holder, crashes>>

\* The children are read again before the parent is called complete.
Whole ==
  /\ mine.artifacts = 1 .. form.count
  /\ \A i \in 1 .. form.count : child[i] = "COMPLETED"

Finish(t) ==
  /\ At(t, "finishing")
  /\ IF Whole
       THEN /\ mine' = [mine EXCEPT !.status = "COMPLETED"]
            /\ SaveParent(mine')
            /\ holder' = Free(t)
            /\ Awaits(t, "done")
            /\ UNCHANGED <<form, child, claim, fresh, outside, at, copy, crashes>>
       ELSE Abort(t, "FAILED")

-----------------------------------------------------------------------------
(* jobAction.                                                              *)

\* A queued job is cancelled on the spot; a running one only when the identity
\* worker does its work, which looks for the cancel file.  Else nothing changes.
Cancel(k) ==
  /\ At(k, "new")
  /\ \/ /\ parent.status = "QUEUED"
        /\ SaveParent([parent EXCEPT !.status = "CANCELLED"])
        /\ GoesOn(k, "sweeping")
        /\ UNCHANGED marker
     \/ /\ parent.status = "RUNNING" /\ form.identity
        /\ marker' = TRUE
        /\ Awaits(k, "answered")
        /\ UNCHANGED <<parent, old>>
  /\ UNCHANGED <<form, child, claim, fresh, engine, prompt, ack, at, mine, copy, holder, crashes>>

=============================================================================
