----------------------------- MODULE ImageBatch -----------------------------
(***************************************************************************)
(* One governed batch of images (image-system/src/batch.js): a parent      *)
(* record, one child record for every image of the plan, the marker file   *)
(* that asks a running batch to stop, and the idempotency file of the turn *)
(* that created it.  The invocations that work on them are                 *)
(*                                                                         *)
(*   Creators    createBatch calls of the same turn                        *)
(*   Resumers    resumeBatch calls of later turns                          *)
(*   Cancellers  cancel actions of jobAction                               *)
(*                                                                         *)
(* and the reconciler of aagImageProgress.js binds a finished batch to its *)
(* chat.  A step reads the records it needs and writes one record, so that *)
(* a crash, or another skill process, comes between any two writes.  The   *)
(* XPU lease is the first-come first-served lock that AgentLease shows it  *)
(* to be for clients that run in time.                                     *)
(***************************************************************************)
EXTENDS JobStore, Naturals, Sequences

CONSTANTS
  N,            \* the number of images of the plan
  Creators, Resumers, Cancellers,
  Nobody,       \* not an invocation: the holder of a free lease
  Impatient,    \* runs whose wait for the lease or READY check may fail
  MaxCrashes,   \* bound: how often the process dies
  Binds         \* does the reconciler bind finished batches?

Runs == Creators \cup Resumers
Actors == Runs \cup Cancellers
Children == 1 .. N

ASSUME BatchAssumption ==
  /\ N \in Nat \ {0}
  /\ Creators \cap Resumers = {}
  /\ Runs \cap Cancellers = {}
  /\ Nobody \notin Actors
  /\ Impatient \subseteq Runs
  /\ MaxCrashes \in Nat
  /\ Binds \in BOOLEAN

VARIABLES
  parent,    \* the parent record: status, artifacts, child_jobs written, presentation
  child,     \* child[i]: the status of the i-th child; COMPLETED goes with its artifact
  claim,     \* has a createBatch of this turn made the idempotency file?
  marker,    \* the cancel file
  pc,        \* where each invocation is
  at,        \* at[a]: the child that invocation has come to
  queue,     \* the runs that wait for the lease, in the order of their tickets
  holder,    \* the run that holds the lease
  clone,     \* the parent record as the reconciler read it, while it binds
  old,       \* the records nobody has written for longer than the stale bound
  crashes

records == <<parent, child, old>>
lane == <<queue, holder>>
vars == <<parent, child, claim, marker, pc, at, queue, holder, clone, old, crashes>>

Parent == 0
Working == {"looping", "working", "listing"}
Live == {"capturing", "planning", "reopening", "waiting", "leased", "sweeping"} \cup Working
Places == {"new", "done", "dead"} \cup Live

\* What the files may hold: a record leaves VALIDATED before it is written.
OnDisk == (Statuses \ {"VALIDATED"}) \cup {Missing}

ParentRecords ==
  [status : OnDisk, artifacts : SUBSET Children, planned : BOOLEAN, presented : BOOLEAN]
NoParent == [status |-> Missing, artifacts |-> {}, planned |-> FALSE, presented |-> FALSE]

TypeOK ==
  /\ parent \in ParentRecords
  /\ child \in [Children -> OnDisk \ {"CREATED"}]
  /\ claim \in BOOLEAN
  /\ marker \in BOOLEAN
  /\ pc \in [Actors -> Places]
  /\ at \in [Actors -> 0 .. N]
  /\ queue \in Seq(Runs)
  /\ holder \in Runs \cup {Nobody}
  /\ clone \in ParentRecords
  /\ old \in SUBSET (0 .. N)
  /\ crashes \in 0 .. MaxCrashes

Init ==
  /\ parent = NoParent
  /\ child = [i \in Children |-> Missing]
  /\ claim = FALSE
  /\ marker = FALSE
  /\ pc = [a \in Actors |-> "new"]
  /\ at = [a \in Actors |-> 0]
  /\ queue = <<>>
  /\ holder = Nobody
  /\ clone = NoParent
  /\ old = {}
  /\ crashes = 0

-----------------------------------------------------------------------------

\* store.write gives a record a new updated_at.
SaveParent(new) == parent' = new /\ old' = old \ {Parent}
SaveChild(i, status) == child' = [child EXCEPT ![i] = status] /\ old' = old \ {i}

Goto(a, place) == pc' = [pc EXCEPT ![a] = place]
From(a, i) == at' = [at EXCEPT ![a] = i]

\* countsFor: the children the parent record names that are done.
Verified == {i \in Children : parent.planned /\ child[i] = "COMPLETED"}

\* The child a walk over child_jobs comes to next; none when it is at the end.
ComesTo(a, i) == parent.planned /\ at[a] < N /\ i = at[a] + 1
AtEnd(a) == ~parent.planned \/ at[a] = N

\* The place of a run in the queue, and the queue when its ticket is gone.
PlaceOf(a) == CHOOSE n \in 1 .. Len(queue) : queue[n] = a
Without(a) ==
  IF \E n \in 1 .. Len(queue) : queue[n] = a
    THEN SubSeq(queue, 1, PlaceOf(a) - 1) \o SubSeq(queue, PlaceOf(a) + 1, Len(queue))
    ELSE queue

-----------------------------------------------------------------------------
(* createBatch.                                                            *)

\* The first look for a batch of the same turn; captureRequest is awaited next.
CheckPrior(c) ==
  /\ pc[c] = "new"
  /\ Goto(c, IF claim THEN "done" ELSE "capturing")
  /\ UNCHANGED <<records, claim, marker, at, lane, clone, crashes>>

\* claimIdempotency creates the file exclusively.  The loser cancels the record
\* it made, which nobody knows of, and answers with the winner's batch.
Claim(c) ==
  /\ pc[c] = "capturing"
  /\ IF claim
       THEN /\ Goto(c, "done")
            /\ UNCHANGED <<parent, old, claim, at>>
       ELSE /\ claim' = TRUE
            /\ SaveParent([NoParent EXCEPT !.status = "CREATED"])
            /\ Goto(c, "planning")
            /\ From(c, 0)
  /\ UNCHANGED <<child, marker, lane, clone, crashes>>

\* Variant: the child is written as soon as it is validated.
PlanChildValidated(c) ==
  /\ pc[c] = "planning"
  /\ \E i \in Children :
       /\ i = at[c] + 1
       /\ SaveChild(i, "VALIDATED")
       /\ From(c, i)
  /\ UNCHANGED <<parent, claim, marker, pc, lane, clone, crashes>>

\* A child record is made and queued without an await between.
PlanChild(c) ==
  /\ pc[c] = "planning"
  /\ \E i \in Children :
       /\ i = at[c] + 1
       /\ SaveChild(i, "QUEUED")
       /\ From(c, i)
  /\ UNCHANGED <<parent, claim, marker, pc, lane, clone, crashes>>

\* child_jobs reach the disk together with the status QUEUED.
PlanParent(c) ==
  /\ pc[c] = "planning"
  /\ at[c] = N
  /\ SaveParent([parent EXCEPT !.status = "QUEUED", !.planned = TRUE])
  /\ Goto(c, "waiting")
  /\ queue' = Append(queue, c)
  /\ UNCHANGED <<child, claim, marker, at, holder, clone, crashes>>

\* The outer catch: the prompt or a child record could not be written.
PlanFails(c) ==
  /\ pc[c] = "planning"
  /\ c \in Impatient
  /\ SaveParent([parent EXCEPT !.status = "FAILED"])
  /\ Goto(c, "done")
  /\ UNCHANGED <<child, claim, marker, at, lane, clone, crashes>>

-----------------------------------------------------------------------------
(* resumeBatch.                                                            *)

Resume(r) ==
  /\ pc[r] = "new"
  /\ parent.status # Missing
  /\ IF parent.status \in Reopenable
       THEN marker' = FALSE /\ Goto(r, "reopening")
       ELSE Goto(r, "done") /\ UNCHANGED marker
  /\ From(r, 0)
  /\ UNCHANGED <<records, claim, lane, clone, crashes>>

\* A verified child is skipped; one that is not terminal ends the resume with
\* RESUME_STATE_INVALID, and the children before it stay reopened.
ReopenChild(r) ==
  /\ pc[r] = "reopening"
  /\ \E i \in Children :
       /\ ComesTo(r, i)
       /\ From(r, i)
       /\ CASE child[i] = "COMPLETED" -> UNCHANGED <<child, old, pc>>
            [] child[i] \in Reopenable -> SaveChild(i, "QUEUED") /\ UNCHANGED pc
            [] child[i] \notin TERMINAL -> Goto(r, "done") /\ UNCHANGED <<child, old>>
  /\ UNCHANGED <<parent, claim, marker, lane, clone, crashes>>

ReopenParent(r) ==
  /\ pc[r] = "reopening"
  /\ AtEnd(r)
  /\ IF parent.status \in Reopenable
       THEN /\ SaveParent([parent EXCEPT !.status = "QUEUED"])
            /\ Goto(r, "waiting")
            /\ queue' = Append(queue, r)
       ELSE Goto(r, "done") /\ UNCHANGED <<parent, old, queue>>
  /\ UNCHANGED <<child, claim, marker, at, holder, clone, crashes>>

-----------------------------------------------------------------------------
(* executeParent.                                                          *)

Free(a) == IF holder = a THEN Nobody ELSE holder

\* The catch clause of executeParent.  A terminal parent keeps its status.  From
\* QUEUED there is no transition to PARTIAL: that throws out of the clause, to the
\* outer catch of createBatch or, in a resume, to the caller.
Abort(r, cancelled) ==
  LET next == IF cancelled THEN "CANCELLED" ELSE IF Verified # {} THEN "PARTIAL" ELSE "FAILED"
      kept == parent.status \in TERMINAL
      thrown == ~kept /\ ~Legal(parent.status, next)
  IN /\ Goto(r, IF thrown THEN "done" ELSE "sweeping")
     /\ holder' = IF thrown THEN Free(r) ELSE holder
     /\ IF thrown
          THEN IF r \in Creators /\ Legal(parent.status, "FAILED")
                 THEN SaveParent([parent EXCEPT !.status = "FAILED"])
                 ELSE UNCHANGED <<parent, old>>
          ELSE SaveParent([parent EXCEPT !.status = IF kept THEN @ ELSE next,
                                         !.artifacts = Verified])
     /\ queue' = Without(r)
     /\ From(r, 0)
     /\ UNCHANGED <<child, claim, marker, clone, crashes>>

\* isCancelled looks at the marker only, before every turn of the wait.
WaitCancelled(r) ==
  /\ pc[r] = "waiting"
  /\ marker
  /\ Abort(r, TRUE)

\* QUEUE_FULL, QUEUE_WAIT_TIMEOUT, a lost ticket; or, with the lease, not READY.
WaitFails(r) ==
  /\ r \in Impatient
  /\ pc[r] \in {"waiting", "leased"}
  /\ Abort(r, FALSE)

\* Variant: a lease somebody holds is taken.
AcquireBusyLease(r) ==
  /\ pc[r] = "waiting"
  /\ ~marker
  /\ Head(queue) = r
  /\ holder' = r
  /\ queue' = Tail(queue)
  /\ Goto(r, "leased")
  /\ UNCHANGED <<records, claim, marker, at, clone, crashes>>

AcquireLease(r) ==
  /\ pc[r] = "waiting"
  /\ ~marker
  /\ Head(queue) = r
  /\ holder = Nobody
  /\ holder' = r
  /\ queue' = Tail(queue)
  /\ Goto(r, "leased")
  /\ UNCHANGED <<records, claim, marker, at, clone, crashes>>

\* The parent is read again when the lease is there and the system READY.
StartRun(r) ==
  /\ pc[r] = "leased"
  /\ ~marker
  /\ Legal(parent.status, "RUNNING")
  /\ SaveParent([parent EXCEPT !.status = "RUNNING"])
  /\ Goto(r, "looping")
  /\ From(r, 0)
  /\ UNCHANGED <<child, claim, marker, lane, clone, crashes>>

StartRefused(r) ==
  /\ pc[r] = "leased"
  /\ marker \/ ~Legal(parent.status, "RUNNING")
  /\ Abort(r, marker)

Unverified(a) == {i \in Children : parent.planned /\ i > at[a] /\ child[i] # "COMPLETED"}

\* Variant: the marker is not looked at between two children.
StartChildAnyway(r) ==
  /\ pc[r] = "looping"
  /\ \E i \in Unverified(r) :
       /\ \A j \in Unverified(r) : i <= j
       /\ IF child[i] = "QUEUED"
            THEN /\ SaveChild(i, "RUNNING")
                 /\ Goto(r, "working")
                 /\ From(r, i)
                 /\ UNCHANGED <<parent, claim, marker, lane, clone, crashes>>
            ELSE Abort(r, FALSE)

\* Variant: a child that is not queued ends the run behind the catch clause.
StartChildOrThrow(r) ==
  /\ pc[r] = "looping"
  /\ ~marker
  /\ \E i \in Unverified(r) :
       /\ \A j \in Unverified(r) : i <= j
       /\ IF child[i] = "QUEUED"
            THEN SaveChild(i, "RUNNING") /\ Goto(r, "working") /\ From(r, i) /\ UNCHANGED holder
            ELSE Goto(r, "done") /\ holder' = Free(r) /\ UNCHANGED <<child, old, at>>
  /\ UNCHANGED <<parent, claim, marker, queue, clone, crashes>>

\* A child that is not QUEUED ends the run with ILLEGAL_STATE_TRANSITION.
StartChild(r) ==
  /\ pc[r] = "looping"
  /\ ~marker
  /\ \E i \in Unverified(r) :
       /\ \A j \in Unverified(r) : i <= j
       /\ IF child[i] = "QUEUED"
            THEN /\ SaveChild(i, "RUNNING")
                 /\ Goto(r, "working")
                 /\ From(r, i)
                 /\ UNCHANGED <<parent, claim, marker, lane, clone, crashes>>
            ELSE Abort(r, FALSE)

\* Every progress report writes the copy of the child record the run has in memory.
Progress(r) ==
  /\ pc[r] = "working"
  /\ SaveChild(at[r], "RUNNING")
  /\ UNCHANGED <<parent, claim, marker, pc, at, lane, clone, crashes>>

\* The engine's image was verified, or failed to be, collided with a sibling's, or
\* did not come in time.
ChildEnds(r) ==
  /\ pc[r] = "working"
  /\ \E status \in {"COMPLETED", "FAILED", "TIMED_OUT"} : SaveChild(at[r], status)
  /\ Goto(r, "listing")
  /\ UNCHANGED <<parent, claim, marker, at, lane, clone, crashes>>

ListArtifacts(r) ==
  /\ pc[r] = "listing"
  /\ SaveParent([parent EXCEPT !.artifacts = Verified])
  /\ Goto(r, "looping")
  /\ UNCHANGED <<child, claim, marker, at, lane, clone, crashes>>

\* Variant: the batch is complete when its last child is done.
VerdictOfLast ==
  IF marker THEN "CANCELLED"
  ELSE IF child[N] = "COMPLETED" THEN "COMPLETED"
  ELSE IF Verified # {} THEN "PARTIAL" ELSE "FAILED"

Verdict ==
  IF marker /\ Verified # Children THEN "CANCELLED"
  ELSE IF Verified = Children THEN "COMPLETED"
  ELSE IF Verified # {} THEN "PARTIAL" ELSE "FAILED"

\* Behind the loop: cancelled, or nothing left to run.
FinishRun(r) ==
  /\ pc[r] = "looping"
  /\ marker \/ Unverified(r) = {}
  /\ IF Legal(parent.status, Verdict)
       THEN /\ SaveParent([parent EXCEPT !.status = Verdict, !.artifacts = Verified])
            /\ IF Verdict = "CANCELLED"
                 THEN Goto(r, "sweeping") /\ UNCHANGED holder
                 ELSE Goto(r, "done") /\ holder' = Free(r)
            /\ From(r, 0)
            /\ UNCHANGED <<child, claim, marker, queue, clone, crashes>>
       ELSE Abort(r, FALSE)

-----------------------------------------------------------------------------
(* markUnfinishedCancelled, and the same loop in jobAction.                *)

\* Variant: a verified child is cancelled with the others.
SweepAnyChild(a) ==
  /\ pc[a] = "sweeping"
  /\ \E i \in Children :
       /\ ComesTo(a, i)
       /\ From(a, i)
       /\ SaveChild(i, "CANCELLED")
  /\ UNCHANGED <<parent, claim, marker, pc, lane, clone, crashes>>

SweepChild(a) ==
  /\ pc[a] = "sweeping"
  /\ \E i \in Children :
       /\ ComesTo(a, i)
       /\ From(a, i)
       /\ IF child[i] \in TERMINAL
            THEN UNCHANGED <<child, old>>
            ELSE SaveChild(i, "CANCELLED")
  /\ UNCHANGED <<parent, claim, marker, pc, lane, clone, crashes>>

\* Variant: the lease is released by a run that succeeds only.
SweepDoneHolding(a) ==
  /\ pc[a] = "sweeping"
  /\ AtEnd(a)
  /\ Goto(a, "done")
  /\ From(a, 0)
  /\ UNCHANGED <<records, claim, marker, lane, clone, crashes>>

\* The finally clause releases the lease.
SweepDone(a) ==
  /\ pc[a] = "sweeping"
  /\ AtEnd(a)
  /\ Goto(a, "done")
  /\ From(a, 0)
  /\ holder' = Free(a)
  /\ UNCHANGED <<records, claim, marker, queue, clone, crashes>>

\* A queued batch is cancelled on the spot, a running one asked to stop.
Cancel(k) ==
  /\ pc[k] = "new"
  /\ parent.status \in {"QUEUED", "RUNNING"}
  /\ IF parent.status = "QUEUED"
       THEN /\ SaveParent([parent EXCEPT !.status = "CANCELLED"])
            /\ Goto(k, "sweeping")
            /\ UNCHANGED marker
       ELSE /\ marker' = TRUE
            /\ Goto(k, "done")
            /\ UNCHANGED <<parent, old>>
  /\ UNCHANGED <<child, claim, at, lane, clone, crashes>>

-----------------------------------------------------------------------------
(* The reconciler, crashes and the recovery of stale records.              *)

BindRead ==
  /\ Binds
  /\ clone = NoParent
  /\ parent.status \in {"COMPLETED", "PARTIAL"}
  /\ parent.artifacts # {}
  /\ ~parent.presented
  /\ clone' = parent
  /\ UNCHANGED <<records, claim, marker, pc, at, lane, crashes>>

\* After the chat is written: the record as it was read, marked as presented.
BindWrite ==
  /\ clone # NoParent
  /\ SaveParent([clone EXCEPT !.presented = TRUE])
  /\ clone' = NoParent
  /\ UNCHANGED <<child, claim, marker, pc, at, lane, crashes>>

BindFails ==
  /\ clone # NoParent
  /\ clone' = NoParent
  /\ UNCHANGED <<records, claim, marker, pc, at, lane, crashes>>

\* The process dies; the lease and the tickets it leaves are removed as stale.
Crash ==
  /\ crashes < MaxCrashes
  /\ crashes' = crashes + 1
  /\ pc' = [a \in Actors |-> IF pc[a] \in Live THEN "dead" ELSE pc[a]]
  /\ at' = [a \in Actors |-> 0]
  /\ queue' = <<>>
  /\ holder' = Nobody
  /\ clone' = NoParent
  /\ UNCHANGED <<records, claim, marker>>

Quiet == \A a \in Actors : pc[a] \notin Live

\* Two hours pass: what was written before is old now.
Age ==
  /\ parent.status # Missing
  /\ old' = {Parent} \cup {i \in Children : child[i] # Missing}
  /\ UNCHANGED <<parent, child, claim, marker, pc, at, lane, clone, crashes>>

\* createTask of another job calls recoverStale when it has the lease.  Nobody waits
\* for the lease as long as it takes a record to become old.
RecoverStale ==
  LET stale(f, status) == f \in old /\ status \notin TERMINAL \cup {Missing}
  IN /\ Quiet
     /\ parent' = IF stale(Parent, parent.status) THEN [parent EXCEPT !.status = "FAILED"] ELSE parent
     /\ child' = [i \in Children |-> IF stale(i, child[i]) THEN "FAILED" ELSE child[i]]
     /\ old' = old \ ({i \in Children : stale(i, child[i])}
                      \cup {p \in {Parent} : stale(p, parent.status)})
     /\ UNCHANGED <<claim, marker, pc, at, lane, clone, crashes>>

-----------------------------------------------------------------------------

Creates(c) ==
  CheckPrior(c) \/ Claim(c) \/ PlanChild(c) \/ PlanParent(c)

Resumes(r) == Resume(r) \/ ReopenChild(r) \/ ReopenParent(r)

Waits(r) == WaitCancelled(r) \/ AcquireLease(r) \/ StartRun(r) \/ StartRefused(r)

Works(r) == StartChild(r) \/ ChildEnds(r) \/ ListArtifacts(r) \/ FinishRun(r)

Sweeps(a) == SweepChild(a) \/ SweepDone(a)

Next ==
  \/ \E c \in Creators : Creates(c) \/ PlanFails(c)
  \/ \E r \in Resumers : Resumes(r)
  \/ \E r \in Runs : Waits(r) \/ WaitFails(r) \/ Works(r) \/ Progress(r)
  \/ \E a \in Actors : Sweeps(a)
  \/ \E k \in Cancellers : Cancel(k)
  \/ BindRead \/ BindWrite \/ BindFails \/ Crash \/ Age \/ RecoverStale

Spec == Init /\ [][Next]_vars

-----------------------------------------------------------------------------
(* Safety.                                                                 *)

\* SECURITY.md: "Completion requires exactly one verified artifact for every
\* intended child", whatever cancelled, crashed or resumed the batch before.
CompletedIsWhole ==
  parent.status = "COMPLETED" => Verified = Children /\ parent.artifacts = Children

\* SECURITY.md: "Partial failure or cancellation preserves completed children, and
\* resume ... skips every verified child": no step of anyone undoes one.
VerifiedKept ==
  [][\A i \in Children : child[i] = "COMPLETED" => child'[i] = "COMPLETED"]_vars

\* SECURITY.md: "A single existing FIFO/XPU lease serializes children", over all the
\* runs of the batch and the records a crash has left behind.
ChildrenSerialized ==
  \A i, j \in Children : child[i] = "RUNNING" /\ child[j] = "RUNNING" => i = j

\* Once a running batch is asked to stop, no further child starts until a resume takes
\* the marker away.  One that is at work is written RUNNING again by its progress even
\* when it was cancelled and reopened meanwhile.
CancelHonoured ==
  [][marker /\ marker' =>
       \A i \in Children : child[i] = "QUEUED" /\ child'[i] = "RUNNING" =>
         \E r \in Runs : pc[r] = "working" /\ at[r] = i]_vars

\* A batch that runs is run: while no process dies, there is a run with the lease.
RunningIsRun ==
  parent.status = "RUNNING" => holder # Nobody /\ pc[holder] \in Working

\* store.js: a COMPLETED record has no transition, and cannot be reopened.
CompletedIsFinal ==
  [][parent.status = "COMPLETED" => parent'.status = "COMPLETED"]_vars

\* executeParent: when a run has stopped, "verified children remain resumable".
StoppedIsResumable ==
  Quiet /\ parent.status # Missing => parent.status \in TERMINAL

-----------------------------------------------------------------------------
(* Refinement.                                                             *)

Phase ==
  CASE parent.status = Missing -> "none"
    [] parent.status = "COMPLETED" -> "completed"
    [] parent.status \in Reopenable -> "stopped"
    [] parent.status \in Statuses \ TERMINAL -> "open"

Promise == INSTANCE BatchPromise WITH
  Images <- Children,
  verified <- {i \in Children : child[i] = "COMPLETED"},
  phase <- Phase

\* Every step of every invocation, of a crash and of the recovery that follows is
\* a step of the promised batch or none.  (Not with Binds: see CompletedIsFinal.)
PromiseKept == Promise!Spec

-----------------------------------------------------------------------------
(* Liveness.                                                               *)

\* The event loop goes on, and every await of executeParent is bounded by a timeout.
Fairness ==
  /\ \A c \in Creators : WF_vars(Creates(c))
  /\ \A r \in Resumers : WF_vars(ReopenChild(r) \/ ReopenParent(r))
  /\ \A r \in Runs : WF_vars(Waits(r)) /\ WF_vars(Works(r))
  /\ \A a \in Actors : WF_vars(Sweeps(a))

FairSpec == Spec /\ Fairness

\* Every run that waits comes to an end, so that the turn that called it is
\* answered and the lease goes to the next.
RunsEnd == \A r \in Runs : pc[r] \in Live ~> pc[r] = "done"

\* A batch that runs comes to a terminal status.
RunningEnds == parent.status = "RUNNING" ~> parent.status \in TERMINAL
=============================================================================
