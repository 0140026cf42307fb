---------------------------- MODULE TaskRecovery ----------------------------
(***************************************************************************)
(* Image jobs over restarts of the process: recovery.js, run by the        *)
(* reconciler, commits the result of a job whose process died while the    *)
(* engine worked; recoverStale of store.js, run by the createTask of any   *)
(* other job when it has the lease, fails what nobody has written for long.*)
(***************************************************************************)
EXTENDS ImageTask

R == Reconciler

-----------------------------------------------------------------------------
(* recoverIdentityResponses and recoverComfyJobs.                          *)

\* Variant: the job may have been made by the process that runs.
RunnableOfAnyone ==
  /\ parent.status = "RUNNING"
  /\ form.count = 1
  /\ child[1] = "RUNNING"

\* Variant: the job may have more than one child.
RunnableOfAnyCount ==
  /\ ~fresh
  /\ parent.status = "RUNNING"
  /\ child[1] = "RUNNING"

\* recoveryEligible and exactRunnableChild.
Runnable ==
  /\ ~fresh
  /\ parent.status = "RUNNING"
  /\ form.count = 1
  /\ child[1] = "RUNNING"

Evidence == IF form.identity THEN engine = "completed" /\ ~ack ELSE prompt

RecoverRead ==
  /\ At(R, "new")
  /\ Runnable /\ Evidence
  /\ copy' = parent
  /\ Awaits(R, IF form.identity THEN "checking" ELSE "leasing")
  /\ UNCHANGED <<form, records, claim, fresh, outside, at, mine, holder, crashes>>

\* A ComfyUI job needs the lease from the start, an identity job to be enhanced.
RecoverAcquires ==
  /\ At(R, "leasing")
  /\ holder = Nobody
  /\ holder' = R
  /\ IF form.identity THEN GoesOn(R, "staging") ELSE Awaits(R, "fetching")
  /\ UNCHANGED <<form, records, claim, fresh, outside, at, mine, copy, crashes>>

RecoverFetches ==
  /\ At(R, "fetching")
  /\ engine = "completed"
  /\ SaveChild(1, "RUNNING")
  /\ Awaits(R, "checking")
  /\ UNCHANGED <<form, parent, claim, fresh, outside, at, mine, copy, holder, crashes>>

\* The artifact is verified.  The identity worker is told at once.
RecoverChecks ==
  /\ At(R, "checking")
  /\ ack' = (ack \/ form.identity)
  /\ IF form.identity THEN SaveChild(1, "RUNNING") ELSE UNCHANGED <<child, old>>
  /\ CASE ~form.enhanced -> GoesOn(R, "recovered")
       [] form.enhanced /\ form.identity -> Awaits(R, "leasing")
       [] form.enhanced /\ ~form.identity -> GoesOn(R, "staging")
  /\ UNCHANGED <<form, parent, claim, fresh, marker, engine, prompt, at, mine, copy, holder, crashes>>

\* maybeEnhanceRecovered writes both records before the enhancement.
StageChild ==
  /\ At(R, "staging")
  /\ SaveChild(1, "RUNNING")
  /\ GoesOn(R, "staged")
  /\ UNCHANGED <<form, parent, claim, fresh, outside, at, mine, copy, holder, crashes>>

StageParent ==
  /\ At(R, "staged")
  /\ SaveParent(copy)
  /\ Awaits(R, "postprocessing")
  /\ UNCHANGED <<form, child, claim, fresh, outside, at, mine, copy, holder, crashes>>

RecoverEnhances ==
  /\ At(R, "postprocessing")
  /\ GoesOn(R, "recovered")
  /\ UNCHANGED <<form, records, claim, fresh, outside, at, mine, copy, holder, crashes>>

\* commitRecovered.
RecoverChild ==
  /\ At(R, "recovered")
  /\ copy.artifacts = {}
  /\ SaveChild(1, "COMPLETED")
  /\ GoesOn(R, "binding")
  /\ UNCHANGED <<form, parent, claim, fresh, outside, at, mine, copy, holder, crashes>>

RecoverParent ==
  /\ At(R, "binding")
  /\ SaveParent([copy EXCEPT !.status = "COMPLETED", !.artifacts = {1}])
  /\ holder' = Free(R)
  /\ Awaits(R, "new")
  /\ copy' = NoParent
  /\ UNCHANGED <<form, child, claim, fresh, outside, at, mine, crashes>>

\* Anything awaited failed, or the engine's work is not there: the pass skips the job.
RecoverSkips ==
  /\ \E place \in {"leasing", "fetching", "checking", "postprocessing"} : At(R, place)
  /\ holder' = Free(R)
  /\ Awaits(R, "new")
  /\ copy' = NoParent
  /\ UNCHANGED <<form, records, claim, fresh, outside, at, mine, crashes>>

Recovers ==
  \/ RecoverRead \/ RecoverAcquires \/ RecoverFetches \/ RecoverChecks
  \/ StageChild \/ StageParent \/ RecoverEnhances \/ RecoverChild \/ RecoverParent

-----------------------------------------------------------------------------
(* The engine, the death of the process, and time.                         *)

EngineEnds ==
  /\ engine = "running"
  /\ engine' \in {"completed", "failed"}
  /\ UNCHANGED <<form, records, claim, fresh, marker, prompt, ack, pc, at, mine, copy, holder,
                 busy, crashes>>

\* What the process kept in memory is gone, and so, after a while, is its lease.
Crash ==
  /\ crashes < MaxCrashes
  /\ crashes' = crashes + 1
  /\ pc' = [a \in Actors |-> IF pc[a] \notin Live THEN pc[a] ELSE IF a = R THEN "new" ELSE "dead"]
  /\ at' = [a \in Actors |-> 0]
  /\ fresh' = FALSE
  /\ mine' = NoParent /\ copy' = NoParent
  /\ holder' = Nobody
  /\ busy' = Nobody
  /\ UNCHANGED <<form, records, claim, outside>>

Open(status) == status \notin TERMINAL \cup {Missing}

\* Two hours pass: no call takes that long.  It matters to records that are not terminal.
Age ==
  /\ \A a \in Actors : pc[a] \notin Live
  /\ old' = {p \in {Parent} : Open(parent.status)} \cup {i \in Children : Open(child[i])}
  /\ UNCHANGED <<form, parent, child, claim, fresh, outside, pc, at, mine, copy, holder, busy, crashes>>

Stale(f, status) == f \in old /\ Open(status)

\* Another createTask acquires the lease, runs recoverStale and goes on to its own job.
RecoverStale ==
  /\ busy = Nobody
  /\ holder = Nobody
  /\ parent' = IF Stale(Parent, parent.status) THEN [parent EXCEPT !.status = "FAILED"] ELSE parent
  /\ child' = [i \in Children |-> IF Stale(i, child[i]) THEN "FAILED" ELSE child[i]]
  /\ old' = old \ ({i \in Children : Stale(i, child[i])}
                   \cup {p \in {Parent} : Stale(p, parent.status)})
  /\ UNCHANGED <<form, claim, fresh, outside, pc, at, mine, copy, holder, busy, crashes>>

-----------------------------------------------------------------------------

Plans(t) == CheckPrior(t) \/ Claim(t) \/ PlanChild(t) \/ PlanParent(t)

Works(t) ==
  \/ Acquire(t) \/ Start(t) \/ StartCancelled(t) \/ StartChild(t)
  \/ Submit(t) \/ RecordPrompt(t) \/ Verify(t) \/ Enhance(t)
  \/ CommitChild(t) \/ CommitParent(t) \/ Finish(t)

Stops(t) == WaitStops(t) \/ ChildFails(t) \/ AbortByChild(t)

Sweeps(a) == SweepChild(a) \/ SweepDone(a)

TaskNext ==
  \/ \E t \in Turns : Plans(t) \/ PlanFails(t) \/ Works(t) \/ Stops(t) \/ Sweeps(t)
  \/ \E k \in Cancellers : Cancel(k) \/ Sweeps(k)
  \/ Recovers \/ RecoverSkips
  \/ EngineEnds \/ RecoverStale

-----------------------------------------------------------------------------
(* Safety.                                                                 *)

\* A job is COMPLETED only with a verified artifact of every child, whoever completed
\* it, the run that began it or the recovery.
CompletedIsWhole ==
  parent.status = "COMPLETED" =>
    /\ parent.artifacts = 1 .. form.count
    /\ \A i \in 1 .. form.count : child[i] = "COMPLETED"

\* createTask writes the record it keeps in memory, recovery the one it read: no run
\* ever writes over what a cancellation, a recovery or recoverStale wrote meanwhile.
NothingOverwritten ==
  \A t \in Turns : pc[t] \in Executing => mine = parent

\* runtime.js: "Cancelled by the owning conversation before engine start".  A job
\* cancelled in the queue never starts a child, nor is it ever anything else.
CancelledStays ==
  [][parent.status = "CANCELLED" =>
       /\ parent'.status = "CANCELLED"
       /\ \A i \in Children : child'[i] = "RUNNING" => child[i] = "RUNNING"]_vars

\* "Do not race the original verification path of a job created by this server": a
\* verified child is never undone, and its engine's work is committed once.
VerifiedKept ==
  [][\A i \in Children : child[i] = "COMPLETED" => child'[i] = "COMPLETED"]_vars

\* A run that has ended leaves no record that still promises something.
EndedIsTerminal ==
  \A t \in Turns : pc[t] = "done" =>
    /\ parent.status \in TERMINAL
    /\ \A i \in 1 .. form.count : child[i] \in TERMINAL

\* store.js gives a terminal status no transition, and reopens batches only.
TerminalIsFinal ==
  [][parent.status \in TERMINAL => parent'.status = parent.status]_vars

-----------------------------------------------------------------------------
(* Liveness.                                                               *)

\* Timers and continuations of a live process run, each await of createTask has a
\* timeout, and the lease comes to a job that waits: others give it back.
Fairness ==
  /\ \A t \in Turns : WF_vars(Plans(t)) /\ WF_vars(Works(t) \/ Stops(t)) /\ WF_vars(Sweeps(t))
  /\ \A k \in Cancellers : WF_vars(Sweeps(k))
  /\ WF_vars(Recovers \/ RecoverSkips)
  /\ WF_vars(EngineEnds)

\* Every call of createTask that the process survives is answered, on whatever path it
\* ends: again and again there is no call under way, and none is made twice.
TurnsAnswered == []<>(\A t \in Turns : pc[t] \notin Live)
=============================================================================
