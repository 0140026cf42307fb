------------------------- MODULE PresentationProofs -------------------------
(***************************************************************************)
(* Theorems about a job, its recovery and its card, for every number of    *)
(* images, of calls, of cancellations and of restarts.  TaskProofs has the *)
(* invariant of the job and its steps; here the publication joins them.    *)
(***************************************************************************)
EXTENDS Presentation, TaskProofs

\* The publications take turns; a call is published when it has returned, and the
\* reconciler publishes what is complete and draws for a row that waits.
ShowAgrees ==
  /\ \A a \in Publishers : show[a] \notin {"idle", "queued"} => publisher = a
  /\ \A t \in Turns : show[t] # "idle" => pc[t] \in {"answered", "done"}
  /\ show[R] # "idle" => parent.status = "COMPLETED"
  /\ show[R] = "drawn" => chat = "pending"

IInv == JobInv /\ CardTypeOK /\ ShowAgrees

-----------------------------------------------------------------------------
(* What the publication relies on in the steps of the job.                 *)

\* A call that was answered or is done takes no further step.
LEMMA EndedStay ==
  ASSUME JobInv, TaskNext, NEW t \in Turns, pc[t] \in {"answered", "done"}
  PROVE  pc'[t] = pc[t]
<1> USE TaskAssumption
<1>1. t \in Actors /\ Turns \subseteq Actors /\ Cancellers \subseteq Actors /\ R \in Actors
      /\ t \notin Cancellers /\ t # R /\ pc \in [Actors -> Places]
  BY DEF Actors, R, JobInv, TaskTypeOK
<1>2. ASSUME NEW u \in Turns, Plans(u) \/ PlanFails(u) PROVE pc'[t] = pc[t]
  BY <1>1, <1>2 DEF Plans, CheckPrior, Claim, PlanChild, PlanParent, PlanFails, At, GoesOn, Awaits
<1>3. ASSUME NEW u \in Turns, Works(u) PROVE pc'[t] = pc[t]
  <2>1. CASE Acquire(u) \/ Start(u) \/ StartCancelled(u) \/ StartChild(u)
    BY <1>1, <2>1 DEF Acquire, Start, StartCancelled, StartChild, Abort, At, GoesOn, Awaits
  <2>2. CASE Submit(u) \/ RecordPrompt(u) \/ Verify(u) \/ Enhance(u)
    BY <1>1, <2>2 DEF Submit, RecordPrompt, Verify, Enhance, At, GoesOn, Awaits
  <2>3. CASE CommitChild(u) \/ CommitParent(u) \/ Finish(u)
    BY <1>1, <2>3 DEF CommitChild, CommitParent, Finish, Abort, At, GoesOn, Awaits
  <2> QED BY <1>3, <2>1, <2>2, <2>3 DEF Works
<1>4. ASSUME NEW u \in Turns, Stops(u) PROVE pc'[t] = pc[t]
  BY <1>1, <1>4 DEF Stops, WaitStops, ChildFails, AbortByChild, Abort, At, GoesOn, Awaits
<1>5. ASSUME NEW a \in Actors, Sweeps(a) PROVE pc'[t] = pc[t]
  BY <1>1, <1>5 DEF Sweeps, SweepChild, SweepDone, At, GoesOn, Awaits
<1>6. ASSUME NEW k \in Cancellers, Cancel(k) PROVE pc'[t] = pc[t]
  BY <1>1, <1>6 DEF Cancel, At, GoesOn, Awaits
<1>7. ASSUME Recovers \/ RecoverSkips PROVE pc'[t] = pc[t]
  <2>1. CASE RecoverChecks
    <3>1. \/ GoesOn(R, "recovered") \/ Awaits(R, "leasing") \/ GoesOn(R, "staging")
      BY <2>1, RecoverChecksPlaces
    <3> QED BY <1>1, <3>1 DEF GoesOn, Awaits
  <2>2. CASE ~RecoverChecks
    BY <1>1, <1>7, <2>2 DEF Recovers, RecoverSkips, RecoverRead, RecoverAcquires, RecoverFetches,
       StageChild, StageParent, RecoverEnhances, RecoverChild, RecoverParent, At, GoesOn, Awaits
  <2> QED BY <2>1, <2>2
<1>8. CASE EngineEnds \/ RecoverStale
  BY <1>8 DEF EngineEnds, RecoverStale
<1> QED BY <1>1, <1>2, <1>3, <1>4, <1>5, <1>6, <1>7, <1>8 DEF TaskNext

\* A recovery that has committed the child commits the parent next.
LEMMA RecoveryReturns ==
  ASSUME JobInv, TaskNext, pc[R] = "binding", pc'[R] = "new"
  PROVE  parent'.status = "COMPLETED"
<1> USE TaskAssumption
<1>1. R \in Actors /\ R \notin Turns /\ R \notin Cancellers /\ Turns \subseteq Actors
      /\ Cancellers \subseteq Actors /\ Nobody \notin Actors
  BY DEF Actors, R
<1>2. busy = R
  BY <1>1 DEF JobInv, BusyAgrees, Atomic
<1>3. \A a \in Actors : \A place : a # R => ~At(a, place)
  BY <1>1, <1>2 DEF At
<1>4. ASSUME NEW t \in Turns PROVE ~(Plans(t) \/ PlanFails(t) \/ Works(t) \/ Stops(t))
  <2>1. \A place : ~At(t, place)
    BY <1>1, <1>3
  <2> QED BY <2>1 DEF Plans, CheckPrior, Claim, PlanChild, PlanParent, PlanFails, Works, Acquire,
       Start, StartCancelled, StartChild, Submit, RecordPrompt, Verify, Enhance, CommitChild,
       CommitParent, Finish, Stops, WaitStops, ChildFails, AbortByChild
<1>5. ASSUME NEW a \in Actors \ {R} PROVE ~Sweeps(a) /\ ~Cancel(a)
  <2>1. \A place : ~At(a, place)
    BY <1>1, <1>3
  <2> QED BY <2>1 DEF Sweeps, SweepChild, SweepDone, Cancel
<1>6. CASE Recovers \/ RecoverSkips
  <2>1. RecoverParent
    BY <1>6 DEF Recovers, RecoverSkips, RecoverRead, RecoverAcquires, RecoverFetches, RecoverChecks,
       StageChild, StageParent, RecoverEnhances, RecoverChild, At
  <2>2. parent' = [copy EXCEPT !.status = "COMPLETED", !.artifacts = {1}] /\ copy \in ParentRecords
    BY <2>1 DEF RecoverParent, SaveParent, JobInv, TaskTypeOK
  <2> QED BY <2>2 DEF ParentRecords
<1>7. ~EngineEnds /\ ~RecoverStale
  BY <1>2, <1>1 DEF EngineEnds, RecoverStale
<1> QED BY <1>1, <1>4, <1>5, <1>6, <1>7 DEF TaskNext

-----------------------------------------------------------------------------
(* The steps of the publication.                                           *)

LEMMA PublicationInit == Init => IInv
<1> SUFFICES ASSUME Init PROVE IInv
  OBVIOUS
<1>1. JobInv
  BY JobInit DEF Init
<1>2. R \in Publishers /\ Turns \subseteq Publishers
  BY DEF Publishers
<1>3. CardTypeOK
  BY <1>2 DEF Init, CardInit, CardTypeOK
<1>4. ShowAgrees
  BY <1>2 DEF Init, CardInit, ShowAgrees
<1> QED BY <1>1, <1>3, <1>4 DEF IInv

LEMMA TaskStepKeeps ==
  ASSUME IInv, TaskStep
  PROVE  IInv'
<1> USE TaskAssumption
<1>1. JobInv /\ CardTypeOK /\ ShowAgrees /\ TaskNext
  BY DEF IInv, TaskStep
<1>2. JobInv'
  BY <1>1, JobStep
<1>3. /\ pc'[R] # pc[R] => show[R] = "idle"
      /\ show' = [a \in Publishers |-> IF GoesPublic(a) THEN "queued" ELSE show[a]]
      /\ index' \in {index, "changed"}
      /\ strange' \in BOOLEAN \cup {strange}
      /\ UNCHANGED <<chat, picture, invocation, stamped, retry, letGo, over, publisher>>
  BY DEF TaskStep, Completes
<1>4. R \in Publishers /\ Turns \subseteq Publishers /\ R \notin Turns
  BY DEF Publishers, R
<1>5. CardTypeOK'
  <2>1. strange' \in BOOLEAN /\ index' \in {"none", "changed", "pending"}
    BY <1>1, <1>3 DEF CardTypeOK
  <2>2. /\ show' \in [Publishers -> {"idle", "queued", "binding", "drawn", "committed", "shown"}]
        /\ \A t \in Turns : show'[t] \notin {"committed", "shown"}
    BY <1>1, <1>3, <1>4 DEF CardTypeOK
  <2> QED BY <1>1, <1>3, <2>1, <2>2 DEF CardTypeOK
<1>6. \A a \in Publishers : show'[a] \notin {"idle", "queued"} => show'[a] = show[a] /\ publisher' = a
  BY <1>1, <1>3 DEF ShowAgrees
<1>7. \A t \in Turns : show'[t] # "idle" => pc'[t] \in {"answered", "done"}
  <2> SUFFICES ASSUME NEW t \in Turns, show'[t] # "idle" PROVE pc'[t] \in {"answered", "done"}
    OBVIOUS
  <2>1. CASE GoesPublic(t)
    BY <1>4, <2>1 DEF GoesPublic, Returns
  <2>2. CASE ~GoesPublic(t)
    BY <1>1, <1>3, <1>4, <2>2, EndedStay DEF ShowAgrees
  <2> QED BY <2>1, <2>2
<1>8. show'[R] # "idle" => parent'.status = "COMPLETED"
  <2>1. CASE GoesPublic(R)
    BY <1>1, <2>1, RecoveryReturns DEF GoesPublic
  <2>2. CASE ~GoesPublic(R)
    <3>1. show'[R] = show[R]
      BY <1>3, <1>4, <2>2
    <3> QED BY <1>1, <3>1, JobKeeps DEF ShowAgrees, StatusKept, TERMINAL
  <2> QED BY <2>1, <2>2
<1>9. show'[R] = "drawn" => chat' = "pending"
  <2>1. show'[R] = "drawn" => show[R] = "drawn"
    BY <1>3, <1>4
  <2> QED BY <1>1, <1>3, <2>1 DEF ShowAgrees
<1> QED BY <1>2, <1>5, <1>6, <1>7, <1>8, <1>9 DEF IInv, ShowAgrees

LEMMA RestartKeeps ==
  ASSUME IInv, Restart
  PROVE  IInv'
<1>1. JobInv /\ CardTypeOK /\ JobInv'
  BY JobStep DEF IInv, Restart
<1>2. /\ show' = [a \in Publishers |-> "idle"] /\ publisher' = Nobody /\ retry' = "no"
      /\ letGo' = FALSE /\ over' \in SUBSET Turns
      /\ index' \in {"pending", "none"} /\ UNCHANGED <<chat, strange, picture, invocation, stamped>>
  BY DEF Restart
<1>3. R \in Publishers /\ Turns \subseteq Publishers
  BY DEF Publishers
<1>4. CardTypeOK'
  BY <1>1, <1>2, <1>3 DEF CardTypeOK
<1>5. ShowAgrees'
  BY <1>2, <1>3 DEF ShowAgrees
<1> QED BY <1>1, <1>4, <1>5 DEF IInv

LEMMA HoursPassKeeps ==
  ASSUME IInv, HoursPass
  PROVE  IInv'
<1>1. JobInv'
  BY JobStep DEF IInv, HoursPass
<1>2. UNCHANGED <<chat, strange, picture, invocation, stamped, index, retry, letGo, over, show,
                  publisher, pc, parent>>
  BY DEF HoursPass, cardVars, Age
<1>3. CardTypeOK' /\ ShowAgrees'
  BY <1>2 DEF IInv, CardTypeOK, ShowAgrees
<1> QED BY <1>1, <1>3 DEF IInv

\* The reconciler stamps the record of a job that is complete: nothing of it changes.
LEMMA StampsWrites ==
  ASSUME IInv, Stamps
  PROVE  /\ parent' = parent /\ old' \in SUBSET old
         /\ UNCHANGED <<form, child, claim, fresh, marker, engine, prompt, ack, pc, at, mine, copy,
                        holder, busy, crashes>>
<1>1. parent.status = "COMPLETED" /\ parent.artifacts = 1 .. form.count /\ parent \in ParentRecords
  BY DEF IInv, ShowAgrees, Stamps, JobInv, TaskTypeOK, CompletedIsWhole
<1>2. parent' = [status |-> "COMPLETED", artifacts |-> 1 .. form.count] /\ old' \in SUBSET old
  BY DEF Stamps, SaveParent
<1>3. parent' = parent
  BY <1>1, <1>2 DEF ParentRecords
<1> QED BY <1>2, <1>3 DEF Stamps, outside

LEMMA JobKept ==
  ASSUME JobInv, old' \in SUBSET old,
         UNCHANGED <<form, parent, child, claim, fresh, marker, engine, prompt, ack, pc, at, mine, copy,
                     holder, busy, crashes>>
  PROVE  JobInv'
<1>1. TaskTypeOK'
  BY DEF JobInv, TaskTypeOK
<1>2. BusyAgrees' /\ RolesAgree' /\ ClaimAgrees' /\ LeaseAgrees'
  BY DEF JobInv, BusyAgrees, RolesAgree, ClaimAgrees, LeaseAgrees
<1>3. TurnAgrees'
  <2> SUFFICES ASSUME NEW t \in Turns PROVE TurnAgreesAt(t)'
    BY DEF TurnAgrees
  <2>1. TurnAgreesAt(t)
    BY DEF JobInv, TurnAgrees
  <2> QED BY <2>1 DEF TurnAgreesAt, PlanningAgrees, WaitingAgrees, StartingAgrees,
       WorkingAgrees, CommittingAgrees, FinishingAgrees, AbortingAgrees, Reached
<1>4. SweepsAgree' /\ RecoveryAgrees' /\ CompletedIsWhole' /\ EndedIsTerminal'
  BY DEF JobInv, SweepsAgree, SweepingAgrees, RecoveryAgrees, CompletedIsWhole, EndedIsTerminal
<1> QED BY <1>1, <1>2, <1>3, <1>4 DEF JobInv

LEMMA PublishesKeeps ==
  ASSUME IInv, NEW a \in Publishers, Publishes(a)
  PROVE  CardTypeOK' /\ ShowAgrees'
<1> USE TaskAssumption
<1>1. CardTypeOK /\ ShowAgrees /\ R \in Publishers /\ Turns \subseteq Publishers /\ R \notin Turns
  BY DEF IInv, Publishers, R
<1>2. pc' = pc /\ parent' = parent /\ UNCHANGED <<strange, letGo, over>>
  BY DEF Publishes, Enter, Draws, Commits, Fails, vars, rest
<1>3. CASE Enter(a)
  <2>1. /\ show' = [show EXCEPT ![a] = "binding"] /\ publisher' = a /\ publisher = Nobody
        /\ show[a] = "queued" /\ UNCHANGED <<chat, picture, invocation, stamped, index, retry>>
    BY <1>3 DEF Enter
  <2>2. \A b \in Publishers : b # Nobody
    BY DEF Publishers, Actors, R
  <2> QED BY <1>1, <1>2, <2>1, <2>2 DEF CardTypeOK, ShowAgrees
<1>4. CASE Draws(a)
  <2>1. /\ show' = [show EXCEPT ![a] = "drawn"] /\ publisher' = publisher /\ show[a] = "binding"
        /\ a = R => chat = "pending"
        /\ picture' \in {picture, "fresh"} /\ UNCHANGED <<chat, invocation, stamped, index, retry>>
    BY <1>4 DEF Draws, Moves
  <2> QED BY <1>1, <1>2, <2>1 DEF CardTypeOK, ShowAgrees
<1>5. CASE Commits(a)
  <2>1. /\ chat' \in {"live", "recovered"} /\ show[a] = "drawn"
        /\ \/ a = R /\ show' = [show EXCEPT ![R] = "committed"] /\ publisher' = publisher
           \/ a # R /\ show' = [show EXCEPT ![a] = "idle"] /\ publisher' = Nobody
        /\ UNCHANGED <<picture, invocation, stamped, index, retry>>
    BY <1>5 DEF Commits, Moves, Leaves
  <2>2. publisher = a
    BY <1>1, <2>1 DEF ShowAgrees
  <2>3. \A b \in Publishers \ {a} : show[b] \in {"idle", "queued"}
    BY <1>1, <2>2 DEF ShowAgrees
  <2> QED BY <1>1, <1>2, <2>1, <2>2, <2>3 DEF CardTypeOK, ShowAgrees
<1>6. CASE Fails(a)
  <2>1. /\ show' = [show EXCEPT ![a] = "idle"] /\ publisher' = Nobody /\ retry' \in {retry, "error"}
        /\ show[a] \notin {"idle", "queued"}
        /\ UNCHANGED <<chat, picture, invocation, stamped, index>>
    BY <1>6 DEF Fails, Leaves
  <2>2. \A b \in Publishers \ {a} : show[b] \in {"idle", "queued"}
    BY <1>1, <2>1 DEF ShowAgrees
  <2> QED BY <1>1, <1>2, <2>1, <2>2 DEF CardTypeOK, ShowAgrees
<1> QED BY <1>3, <1>4, <1>5, <1>6 DEF Publishes

LEMMA ReconcilesKeeps ==
  ASSUME IInv, Reconciles
  PROVE  CardTypeOK' /\ ShowAgrees'
<1> USE TaskAssumption
<1>1. CardTypeOK /\ ShowAgrees /\ R \in Publishers /\ Turns \subseteq Publishers /\ R \notin Turns
  BY DEF IInv, Publishers, R
<1>2. /\ pc' = pc /\ parent' = parent /\ chat' = chat /\ picture' = picture
      /\ UNCHANGED <<strange, over>> /\ letGo' \in BOOLEAN
  BY <1>1, StampsWrites
  DEF CardTypeOK, Reconciles, TakePending, FindsCard, FindsNoRow, Closes, Stamps, vars, rest
<1>3. CASE TakePending
  <2>1. /\ show' = [show EXCEPT ![R] = "queued"] /\ parent.status = "COMPLETED"
        /\ index' \in {index, "none"} /\ UNCHANGED <<invocation, stamped, retry, publisher>>
    BY <1>3 DEF TakePending, Moves
  <2> QED BY <1>1, <1>2, <2>1 DEF CardTypeOK, ShowAgrees
<1>4. CASE FindsCard \/ Closes
  <2>1. /\ show' = [show EXCEPT ![R] = "shown"] /\ show[R] \notin {"idle", "queued"}
        /\ invocation' \in {invocation, FALSE} /\ UNCHANGED <<stamped, index, retry, publisher>>
    BY <1>4 DEF FindsCard, Closes, Moves
  <2>2. invocation' \in BOOLEAN
    BY <1>1, <2>1 DEF CardTypeOK
  <2> QED BY <1>1, <1>2, <2>1, <2>2 DEF CardTypeOK, ShowAgrees
<1>5. CASE FindsNoRow \/ Stamps
  <2>1. /\ show' = [show EXCEPT ![R] = "idle"] /\ show[R] \notin {"idle", "queued"}
        /\ publisher' = Nobody /\ stamped' \in {stamped, TRUE} /\ retry' \in {"no", "grace"}
        /\ UNCHANGED <<invocation, index>>
    BY <1>5 DEF FindsNoRow, Stamps, Leaves
  <2>2. stamped' \in BOOLEAN
    BY <1>1, <2>1 DEF CardTypeOK
  <2>3. \A b \in Publishers \ {R} : show[b] \in {"idle", "queued"}
    BY <1>1, <2>1 DEF ShowAgrees
  <2> QED BY <1>1, <1>2, <2>1, <2>2, <2>3 DEF CardTypeOK, ShowAgrees
<1> QED BY <1>3, <1>4, <1>5 DEF Reconciles

LEMMA OutsideKeeps ==
  ASSUME IInv, IndexSees \/ Cleanup \/ PictureAges \/ InvocationCloses
  PROVE  CardTypeOK' /\ ShowAgrees'
<1>1. /\ UNCHANGED <<pc, parent, chat, strange, stamped, retry, letGo, over, show, publisher>>
      /\ index' \in {index, "none", "pending"} /\ picture' \in {picture, "deleted", "aged"}
      /\ invocation' = invocation \/ invocation' = FALSE
  BY DEF IndexSees, Cleanup, PictureAges, InvocationCloses, vars, rest
<1>2. invocation' \in BOOLEAN
  BY <1>1 DEF IInv, CardTypeOK
<1> QED BY <1>1, <1>2 DEF IInv, CardTypeOK, ShowAgrees

LEMMA FailureKeeps ==
  ASSUME IInv, NEW t \in Turns, TurnFails(t)
  PROVE  CardTypeOK' /\ ShowAgrees'
<1>1. /\ UNCHANGED <<pc, parent, strange, picture, invocation, stamped, index, retry, letGo, show, publisher>>
      /\ chat' = "pending" /\ over' = over \cup {t}
  BY DEF TurnFails, vars
<1> QED BY <1>1 DEF IInv, CardTypeOK, ShowAgrees

-----------------------------------------------------------------------------

\* The steps that are not the job's leave it as it is.
LEMMA JobApart ==
  ASSUME IInv, [Next]_allVars, ~TaskStep, ~Restart, ~HoursPass
  PROVE  /\ old' \in SUBSET old
         /\ UNCHANGED <<form, parent, child, claim, fresh, marker, engine, prompt, ack, pc, at, mine,
                        copy, holder, busy, crashes>>
<1>1. CASE Stamps
  BY <1>1, StampsWrites
<1>2. CASE UNCHANGED vars
  BY <1>2 DEF vars
<1>3. Stamps \/ UNCHANGED vars
  BY DEF Next, allVars, Publishes, Enter, Draws, Commits, Fails, IndexSees, Reconciles, TakePending,
     FindsCard, FindsNoRow, Closes, Cleanup, PictureAges, InvocationCloses, TurnFails
<1> QED BY <1>1, <1>2, <1>3

LEMMA Inductive == IInv /\ [Next]_allVars => IInv'
<1> SUFFICES ASSUME IInv, [Next]_allVars PROVE IInv'
  OBVIOUS
<1>1. CASE TaskStep \/ Restart \/ HoursPass
  BY <1>1, TaskStepKeeps, RestartKeeps, HoursPassKeeps
<1>2. CASE ~(TaskStep \/ Restart \/ HoursPass)
  <2>1. JobInv'
    BY <1>2, JobApart, JobKept DEF IInv
  <2>2. CardTypeOK' /\ ShowAgrees'
    <3>1. CASE UNCHANGED allVars
      BY <3>1 DEF allVars, vars, cardVars, IInv, CardTypeOK, ShowAgrees
    <3> QED BY <1>2, <3>1, PublishesKeeps, ReconcilesKeeps, OutsideKeeps, FailureKeeps DEF Next
  <2> QED BY <2>1, <2>2 DEF IInv
<1> QED BY <1>1, <1>2

LEMMA Invariant == Spec => []IInv
BY PublicationInit, Inductive, PTL DEF Spec

-----------------------------------------------------------------------------
(* The theorems.                                                           *)

\* The state of a job and of its card has its types, restarts and recoveries included.
THEOREM TypesCorrect == Spec => []TypeOK
<1>1. IInv => TypeOK
  BY DEF IInv, JobInv, TypeOK
<1> QED BY <1>1, Invariant, PTL

\* Whoever completes a job, its run or a recovery, every child is COMPLETED and listed.
THEOREM CompletedWhole == Spec => []CompletedIsWhole
<1>1. IInv => CompletedIsWhole
  BY DEF IInv, JobInv
<1> QED BY <1>1, Invariant, PTL

\* The record createTask keeps in memory while it executes is the one on the disk: no
\* cancellation, recovery or recoverStale has written it in between.
THEOREM MemoryCurrent == Spec => []NothingOverwritten
<1>1. IInv => NothingOverwritten
  <2> SUFFICES ASSUME IInv, NEW t \in Turns, pc[t] \in Executing PROVE mine = parent
    BY DEF NothingOverwritten
  <2>1. TurnAgreesAt(t)
    BY DEF IInv, JobInv, TurnAgrees
  <2> QED BY <2>1 DEF TurnAgreesAt, StartingAgrees, WorkingAgrees, CommittingAgrees,
       FinishingAgrees, Reached, Executing
<1> QED BY <1>1, Invariant, PTL

\* A call that is done leaves parent and children terminal.
THEOREM EndedTerminal == Spec => []EndedIsTerminal
<1>1. IInv => EndedIsTerminal
  BY DEF IInv, JobInv
<1> QED BY <1>1, Invariant, PTL

LEMMA StepKeeps ==
  ASSUME IInv, [Next]_allVars
  PROVE  StatusKept /\ ChildrenKept
<1>1. CASE TaskStep \/ Restart \/ HoursPass
  BY <1>1, JobKeeps DEF IInv, TaskStep, Restart, HoursPass
<1>2. CASE ~(TaskStep \/ Restart \/ HoursPass)
  BY <1>2, JobApart, UnchangedKept
<1> QED BY <1>1, <1>2

\* A job cancelled in the queue stays CANCELLED and no child of it is started any more.
THEOREM CancelledForGood == Spec => CancelledStays
<1>1. IInv /\ [Next]_allVars =>
        [parent.status = "CANCELLED" =>
           /\ parent'.status = "CANCELLED"
           /\ \A i \in Children : child'[i] = "RUNNING" => child[i] = "RUNNING"]_vars
  <2>1. ASSUME StatusKept, ChildrenKept, parent.status = "CANCELLED"
        PROVE  /\ parent'.status = "CANCELLED"
               /\ \A i \in Children : child'[i] = "RUNNING" => child[i] = "RUNNING"
    BY <2>1 DEF StatusKept, ChildrenKept, TERMINAL
  <2> QED BY <2>1, StepKeeps
<1> QED BY <1>1, Invariant, PTL DEF Spec, CancelledStays

\* A verified child is never undone, whoever writes its record.
THEOREM VerifiedStays == Spec => VerifiedKept
<1>1. IInv /\ [Next]_allVars =>
        [\A i \in Children : child[i] = "COMPLETED" => child'[i] = "COMPLETED"]_vars
  <2>1. ChildrenKept => \A i \in Children : child[i] = "COMPLETED" => child'[i] = "COMPLETED"
    BY DEF ChildrenKept
  <2> QED BY <2>1, StepKeeps
<1> QED BY <1>1, Invariant, PTL DEF Spec, VerifiedKept

\* Of the terminal statuses only FAILED is ever left, and only by a recovery of a job that
\* another process had made: what a run sees of TerminalIsFinal when it finds it violated.
THEOREM TerminalButForRecovery ==
  Spec => [][parent.status \in TERMINAL =>
               \/ parent'.status = parent.status
               \/ parent.status = "FAILED" /\ ~fresh /\ pc[R] \in Recovering]_vars
<1>1. IInv /\ [Next]_allVars =>
        [parent.status \in TERMINAL =>
           \/ parent'.status = parent.status
           \/ parent.status = "FAILED" /\ ~fresh /\ pc[R] \in Recovering]_vars
  BY StepKeeps DEF StatusKept
<1> QED BY <1>1, Invariant, PTL DEF Spec

\* The reconciler draws only for a row that waits, so only the failure of an agent takes a
\* card away; and the cleanup takes no picture that a card shows.
THEOREM CardsStay == Spec => CardKept
<1> DEFINE Kept == /\ chat = "live" => chat' = "live" \/ AgentFailed
                   /\ Shown => Shown' \/ AgentFailed
                   /\ Shown /\ picture # "deleted" => picture' # "deleted"
<1>1. IInv /\ [Next]_allVars => [Kept]_allVars
  <2> SUFFICES ASSUME IInv, Next PROVE Kept
    OBVIOUS
  <2>1. CASE TaskStep \/ Restart \/ HoursPass
    BY <2>1 DEF TaskStep, Restart, HoursPass, cardVars, Shown
  <2>2. CASE IndexSees \/ Cleanup \/ PictureAges \/ InvocationCloses
    BY <2>2 DEF IndexSees, Cleanup, PictureAges, InvocationCloses, Shown
  <2>3. CASE Reconciles
    BY <2>3 DEF Reconciles, TakePending, FindsCard, FindsNoRow, Closes, Stamps, Shown
  <2>4. ASSUME NEW a \in Publishers, Publishes(a) PROVE Kept
    <3>1. a = R /\ show[a] = "drawn" => chat = "pending"
      BY DEF IInv, ShowAgrees
    <3> QED BY <2>4, <3>1 DEF Publishes, Enter, Draws, Commits, Fails, Shown
  <2>5. ASSUME NEW t \in Turns, TurnFails(t) PROVE Kept
    BY <2>5 DEF TurnFails, AgentFailed, vars
  <2> QED BY <2>1, <2>2, <2>3, <2>4, <2>5 DEF Next
<1> QED BY <1>1, Invariant, PTL DEF Spec, CardKept
=============================================================================
