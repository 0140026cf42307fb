----------------------------- MODULE Remediation -----------------------------
(***************************************************************************)
(* Governed remediation of the Ubuntu agent (aag_agent/remediation): plans *)
(* for the one executable operation of the registry, their approvals,      *)
(* their execution and the proposal of a rollback.                         *)
(*                                                                         *)
(* Each call is a process of its own (tools/context_memory.py).  It checks *)
(* what it reads, and later writes in a transaction of the SQLite store    *)
(* (BEGIN IMMEDIATE: one at a time, all or nothing) that looks again at    *)
(* the plan's state only.  The target's lock file is held over an          *)
(* execution and is free when its holder is dead.                          *)
(*                                                                         *)
(* A plan has at most one approval and one attempt (the UNIQUE constraints *)
(* of store.py and attempt_number = 1), so both are functions of the plan. *)
(***************************************************************************)
CONSTANTS
  Plans,
  Deciders,    \* calls of record_approval
  Executors,   \* calls of execute
  Proposers,   \* calls of rollback_proposal
  Nobody,
  Mortal       \* calls whose process may die, or fail where nothing catches it

Calls == Deciders \cup Executors \cup Proposers

ASSUME RemediationAssumption ==
  /\ Deciders \cap Executors = {}
  /\ Deciders \cap Proposers = {}
  /\ Executors \cap Proposers = {}
  /\ Nobody \notin Calls \cup Plans
  /\ Mortal \subseteq Calls

VARIABLES
  plan,       \* plan[p]: the state of p
  approval,   \* approval[p]: the state of the approval requested for p
  lapsed,     \* the plans whose approval is past its expires_at
  attempt,    \* attempt[p]: the outcome column of the attempt
  proposal,   \* proposal[p]: the stored rollback proposal
  resolved,   \* the plans whose incident was closed
  lock,       \* who holds the lock file of the target
  running,    \* the plans whose command is at work on the target
  commanded,  \* history: the plans whose command was started
  pc, about, says

ledger == <<plan, approval, attempt>>
target == <<lock, running, commanded>>
aside == <<proposal, resolved>>
vars == <<plan, approval, lapsed, attempt, proposal, resolved, lock, running, commanded,
          pc, about, says>>

None == "NONE"

PLAN_STATES ==
  {"PROPOSED", "VALIDATED", "AWAITING_APPROVAL", "APPROVED", "PRECONDITION_VERIFIED",
   "BACKUP_VERIFIED", "EXECUTING", "VERIFYING", "SUCCEEDED_VERIFIED", "FAILED_EXECUTION",
   "FAILED_VERIFICATION", "INDETERMINATE", "ABORTED_STALE_STATE", "ABORTED_APPROVAL",
   "ABORTED_AUDIT", "ROLLBACK_PROPOSED", "ROLLED_BACK_VERIFIED", "ROLLBACK_FAILED"}

\* From a state to a state.
ALLOWED_TRANSITIONS ==
  {<<"PROPOSED", "VALIDATED">>, <<"VALIDATED", "AWAITING_APPROVAL">>}
  \cup ({"AWAITING_APPROVAL"} \X {"APPROVED", "ABORTED_APPROVAL"})
  \cup ({"APPROVED"} \X
        {"PRECONDITION_VERIFIED", "ABORTED_STALE_STATE", "ABORTED_APPROVAL", "ABORTED_AUDIT"})
  \cup ({"PRECONDITION_VERIFIED"} \X {"BACKUP_VERIFIED", "ABORTED_STALE_STATE"})
  \cup ({"BACKUP_VERIFIED"} \X {"EXECUTING", "ABORTED_AUDIT"})
  \cup ({"EXECUTING"} \X {"VERIFYING", "FAILED_EXECUTION", "INDETERMINATE"})
  \cup ({"VERIFYING"} \X {"SUCCEEDED_VERIFIED", "FAILED_VERIFICATION", "INDETERMINATE"})
  \cup ({"FAILED_EXECUTION", "FAILED_VERIFICATION", "INDETERMINATE"} \X {"ROLLBACK_PROPOSED"})
  \cup ({"ROLLBACK_PROPOSED"} \X {"ROLLED_BACK_VERIFIED", "ROLLBACK_FAILED"})

Failures == {"FAILED_EXECUTION", "FAILED_VERIFICATION", "INDETERMINATE"}
Outcomes == Failures \cup {"SUCCEEDED_VERIFIED"}
Decisions == {"APPROVED", "REJECTED", "EXPIRED"}
Proposals == {"NOT_REQUIRED", "UNAVAILABLE"}

AttemptStates == {None, "PENDING", "ABORTED_AUDIT"} \cup Outcomes
ApprovalStates == {None, "PENDING", "APPROVED", "REJECTED", "CONSUMED", "EXPIRED", "INVALIDATED"}

\* Where execute is while it has the lock.
Locked == {"checking", "auditing", "executing", "awaiting", "executed", "verifying",
           "finishing", "reconciling"}
Places == {"new", "done", "dead", "deciding", "aborting", "locking", "proposing"} \cup Locked

TypeOK ==
  /\ plan \in [Plans -> PLAN_STATES \cup {None}]
  /\ approval \in [Plans -> ApprovalStates]
  /\ attempt \in [Plans -> AttemptStates]
  /\ proposal \in [Plans -> Proposals \cup {None}]
  /\ lapsed \subseteq Plans /\ resolved \subseteq Plans
  /\ running \subseteq Plans /\ commanded \subseteq Plans
  /\ lock \in Executors \cup {Nobody}
  /\ pc \in [Calls -> Places]
  /\ about \in [Calls -> Plans \cup {Nobody}]
  /\ says \in [Calls -> Decisions \cup Outcomes \cup Proposals \cup {"INVALIDATED", None}]

Init ==
  /\ plan = [p \in Plans |-> None]
  /\ approval = [p \in Plans |-> None]
  /\ attempt = [p \in Plans |-> None]
  /\ proposal = [p \in Plans |-> None]
  /\ lapsed = {} /\ resolved = {} /\ running = {} /\ commanded = {}
  /\ lock = Nobody
  /\ pc = [c \in Calls |-> "new"]
  /\ about = [c \in Calls |-> Nobody]
  /\ says = [c \in Calls |-> None]

-----------------------------------------------------------------------------
(* The store.                                                              *)

\* Variant: the index does not count a plan whose command is at work.
UnfinishedBeforeWork == {"APPROVED", "PRECONDITION_VERIFIED", "BACKUP_VERIFIED"}

Unfinished == {"APPROVED", "PRECONDITION_VERIFIED", "BACKUP_VERIFIED", "EXECUTING", "VERIFYING"}

\* validate_transition, and the unique index one_unfinished_attempt_per_target.
Commits(p, state) ==
  /\ <<plan[p], state>> \in ALLOWED_TRANSITIONS
  /\ state \in Unfinished => \A q \in Plans \ {p} : plan[q] \notin Unfinished

Writes(p, state) == plan' = [plan EXCEPT ![p] = state]

Reads(c, p, place, what) ==
  /\ pc[c] = "new"
  /\ pc' = [pc EXCEPT ![c] = place]
  /\ about' = [about EXCEPT ![c] = p]
  /\ says' = [says EXCEPT ![c] = what]

GoesTo(c, place) == pc' = [pc EXCEPT ![c] = place] /\ UNCHANGED <<about, says>>
Ends(c) == GoesTo(c, "done")
Unlocks(c) == lock' = IF lock = c THEN Nobody ELSE lock

-----------------------------------------------------------------------------
(* Plans and approvals.                                                    *)

\* prepare_plan: the plan is inserted and validated in one transaction.
Prepare(p) ==
  /\ plan[p] = None
  /\ Writes(p, "VALIDATED")
  /\ UNCHANGED <<approval, lapsed, attempt, aside, target, pc, about, says>>

\* request_approval.  What it checks before its transaction, the transition checks again.
Request(p) ==
  /\ Commits(p, "AWAITING_APPROVAL")
  /\ approval[p] = None
  /\ Writes(p, "AWAITING_APPROVAL")
  /\ approval' = [approval EXCEPT ![p] = "PENDING"]
  /\ UNCHANGED <<lapsed, attempt, aside, target, pc, about, says>>

\* record_approval, up to its transaction.  It reads the approval first and the plan then;
\* by ApprovalBacksPlan the approval is still what it was when the plan is read.
DecideRead(c, p) ==
  /\ approval[p] = "PENDING"
  /\ plan[p] = "AWAITING_APPROVAL"
  /\ \E decision \in (IF p \in lapsed THEN {"EXPIRED"} ELSE {"APPROVED", "REJECTED"}) :
       Reads(c, p, "deciding", decision)
  /\ UNCHANGED <<ledger, lapsed, aside, target>>

StateAfter(decision) == IF decision = "APPROVED" THEN "APPROVED" ELSE "ABORTED_APPROVAL"

\* Variant: the approval is updated outside the transaction of the transition.
DecideWriteApart(c) ==
  LET p == about[c] IN
    /\ pc[c] = "deciding"
    /\ approval' = [approval EXCEPT ![p] = says[c]]
    /\ IF Commits(p, StateAfter(says[c])) THEN Writes(p, StateAfter(says[c])) ELSE UNCHANGED plan
    /\ Ends(c)
    /\ UNCHANGED <<lapsed, attempt, aside, target>>

\* The transaction.  It does not look at the approval again: another call may have
\* decided, and an approval may be taken back as long as it is not consumed.
DecideWrite(c) ==
  LET p == about[c] IN
    /\ pc[c] = "deciding"
    /\ IF Commits(p, StateAfter(says[c]))
         THEN /\ Writes(p, StateAfter(says[c]))
              /\ approval' = [approval EXCEPT ![p] = says[c]]
         ELSE UNCHANGED <<plan, approval>>
    /\ Ends(c)
    /\ UNCHANGED <<lapsed, attempt, aside, target>>

-----------------------------------------------------------------------------
(* execute.                                                                *)

\* The checks, of which only the plan's state is looked at again.  An approval that is
\* over, or that was bound to another registry than the one now installed, is aborted.
ExecuteRead(c, p) ==
  /\ approval[p] = "APPROVED"
  /\ plan[p] = "APPROVED"
  /\ \/ p \in lapsed /\ Reads(c, p, "aborting", "EXPIRED")
     \/ p \notin lapsed /\ Reads(c, p, "aborting", "INVALIDATED")
     \/ p \notin lapsed /\ Reads(c, p, "locking", None)
  /\ UNCHANGED <<ledger, lapsed, aside, target>>

AbortApproval(c) ==
  LET p == about[c] IN
    /\ pc[c] = "aborting"
    /\ IF Commits(p, "ABORTED_APPROVAL")
         THEN Writes(p, "ABORTED_APPROVAL") /\ approval' = [approval EXCEPT ![p] = says[c]]
         ELSE UNCHANGED <<plan, approval>>
    /\ Ends(c)
    /\ UNCHANGED <<lapsed, attempt, aside, target>>

\* Nobody waits for the lock: the call is answered "blocked".
Lock(c) ==
  /\ pc[c] = "locking"
  /\ IF lock = Nobody THEN lock' = c /\ GoesTo(c, "checking") ELSE Ends(c) /\ UNCHANGED lock
  /\ UNCHANGED <<ledger, lapsed, aside, running, commanded>>

\* _abort_stale: the live state or the backup is not what the plan was made for.
AbortStale(c) ==
  LET p == about[c] IN
    /\ pc[c] = "checking"
    /\ IF Commits(p, "ABORTED_STALE_STATE")
         THEN Writes(p, "ABORTED_STALE_STATE") /\ approval' = [approval EXCEPT ![p] = "INVALIDATED"]
         ELSE UNCHANGED <<plan, approval>>
    /\ Unlocks(c)
    /\ Ends(c)
    /\ UNCHANGED <<lapsed, attempt, aside, running, commanded>>

\* Variant: the transition relies on the check made before the lock.
ConsumeUnchecked(c) ==
  LET p == about[c] IN
    /\ pc[c] = "checking"
    /\ Writes(p, "BACKUP_VERIFIED")
    /\ approval' = [approval EXCEPT ![p] = "CONSUMED"]
    /\ attempt' = [attempt EXCEPT ![p] = "PENDING"]
    /\ GoesTo(c, "auditing")
    /\ UNCHANGED <<lock, lapsed, aside, running, commanded>>

\* Both transitions, the approval and the attempt in one transaction.
Consume(c) ==
  LET p == about[c] IN
    /\ pc[c] = "checking"
    /\ IF Commits(p, "PRECONDITION_VERIFIED") /\ attempt[p] = None
         THEN /\ Writes(p, "BACKUP_VERIFIED")
              /\ approval' = [approval EXCEPT ![p] = "CONSUMED"]
              /\ attempt' = [attempt EXCEPT ![p] = "PENDING"]
              /\ GoesTo(c, "auditing")
              /\ UNCHANGED lock
         ELSE /\ Unlocks(c)
              /\ Ends(c)
              /\ UNCHANGED ledger
    /\ UNCHANGED <<lapsed, aside, running, commanded>>

\* Variant: the failed audit is answered and nothing is written.
AbortAuditUnwritten(c) ==
  /\ pc[c] = "auditing"
  /\ Unlocks(c)
  /\ Ends(c)
  /\ UNCHANGED <<ledger, lapsed, aside, running, commanded>>

AbortAudit(c) ==
  LET p == about[c] IN
    /\ pc[c] = "auditing"
    /\ IF Commits(p, "ABORTED_AUDIT")
         THEN Writes(p, "ABORTED_AUDIT") /\ attempt' = [attempt EXCEPT ![p] = "ABORTED_AUDIT"]
         ELSE UNCHANGED <<plan, attempt>>
    /\ Unlocks(c)
    /\ Ends(c)
    /\ UNCHANGED <<approval, lapsed, aside, running, commanded>>

\* A transition the store refuses is an exception: the call ends without the lock.
Advances(c, state, place) ==
  /\ IF Commits(about[c], state)
       THEN Writes(about[c], state) /\ GoesTo(c, place) /\ UNCHANGED lock
       ELSE Unlocks(c) /\ Ends(c) /\ UNCHANGED plan
  /\ UNCHANGED <<approval, attempt, lapsed, aside, running, commanded>>

StartExecution(c) == pc[c] = "auditing" /\ Advances(c, "EXECUTING", "executing")

Command(c) ==
  /\ pc[c] = "executing"
  /\ running' = running \cup {about[c]}
  /\ commanded' = commanded \cup {about[c]}
  /\ GoesTo(c, "awaiting")
  /\ UNCHANGED <<ledger, lapsed, aside, lock>>

Concludes(c, outcome) ==
  /\ says' = [says EXCEPT ![c] = outcome]
  /\ pc' = [pc EXCEPT ![c] = "finishing"]
  /\ UNCHANGED about

\* The command could not be started.
CommandRefused(c) ==
  /\ pc[c] = "executing"
  /\ \E outcome \in {"FAILED_EXECUTION", "INDETERMINATE"} : Concludes(c, outcome)
  /\ UNCHANGED <<ledger, lapsed, aside, target>>

\* It ended, or was killed because it took too long.
CommandReturns(c) ==
  /\ pc[c] = "awaiting"
  /\ running' = running \ {about[c]}
  /\ \/ GoesTo(c, "executed")
     \/ \E outcome \in {"FAILED_EXECUTION", "INDETERMINATE"} : Concludes(c, outcome)
  /\ UNCHANGED <<ledger, lapsed, aside, lock, commanded>>

StartVerification(c) == pc[c] = "executed" /\ Advances(c, "VERIFYING", "verifying")

\* Variant: what the observer answers is taken for the outcome.
VerifyUnmapped(c) ==
  /\ pc[c] = "verifying"
  /\ \E outcome \in {"PASS", "FAILED", "INDETERMINATE"} : Concludes(c, outcome)
  /\ UNCHANGED <<ledger, lapsed, aside, target>>

Verify(c) ==
  /\ pc[c] = "verifying"
  /\ \E outcome \in Outcomes \ {"FAILED_EXECUTION"} : Concludes(c, outcome)
  /\ UNCHANGED <<ledger, lapsed, aside, target>>

\* Variant: the outcome is written to the attempt alone.
FinalizeAttempt(c) ==
  LET p == about[c] IN
    /\ pc[c] = "finishing"
    /\ attempt' = [attempt EXCEPT ![p] = says[c]]
    /\ Unlocks(c)
    /\ Ends(c)
    /\ UNCHANGED <<plan, approval, lapsed, aside, running, commanded>>

\* The last transaction.  Without its audit record the outcome goes no further.
Finalize(c) ==
  LET p == about[c] IN
    /\ pc[c] = "finishing"
    /\ IF \/ plan[p] = "EXECUTING" /\ says[c] \in {"FAILED_EXECUTION", "INDETERMINATE"}
          \/ plan[p] = "VERIFYING" /\ says[c] \in Outcomes \ {"FAILED_EXECUTION"}
         THEN Writes(p, says[c])
         ELSE UNCHANGED plan
    /\ attempt' = [attempt EXCEPT ![p] = says[c]]
    /\ \/ GoesTo(c, "reconciling") /\ UNCHANGED lock
       \/ Ends(c) /\ Unlocks(c)
    /\ UNCHANGED <<approval, lapsed, aside, running, commanded>>

\* record_outcome closes the incident of a verified success, or fails.
Reconcile(c) ==
  /\ pc[c] = "reconciling"
  /\ \/ UNCHANGED resolved
     \/ says[c] = "SUCCEEDED_VERIFIED" /\ resolved' = resolved \cup {about[c]}
  /\ Unlocks(c)
  /\ Ends(c)
  /\ UNCHANGED <<ledger, lapsed, proposal, running, commanded>>

-----------------------------------------------------------------------------
(* rollback_proposal.                                                      *)

ProposeRead(c, p) ==
  /\ attempt[p] # None
  /\ Reads(c, p, "proposing",
           IF attempt[p] = "SUCCEEDED_VERIFIED" THEN "NOT_REQUIRED" ELSE "UNAVAILABLE")
  /\ UNCHANGED <<ledger, lapsed, aside, target>>

\* INSERT OR IGNORE: the first proposal stays.
ProposeWrite(c) ==
  LET p == about[c] IN
    /\ pc[c] = "proposing"
    /\ proposal' = [proposal EXCEPT ![p] = IF @ = None THEN says[c] ELSE @]
    /\ IF says[c] # "NOT_REQUIRED" /\ plan[p] \in Failures
         THEN Writes(p, "ROLLBACK_PROPOSED")
         ELSE UNCHANGED plan
    /\ Ends(c)
    /\ UNCHANGED <<approval, attempt, lapsed, resolved, target>>

-----------------------------------------------------------------------------
(* Time, death, and a command whose caller is dead.                        *)

Lapse(p) ==
  /\ approval[p] # None
  /\ lapsed' = lapsed \cup {p}
  /\ UNCHANGED <<ledger, aside, target, pc, about, says>>

Die(c) ==
  /\ c \in Mortal
  /\ pc[c] \notin {"new", "done", "dead"}
  /\ GoesTo(c, "dead")
  /\ Unlocks(c)
  /\ UNCHANGED <<ledger, lapsed, aside, running, commanded>>

CommandEnds(p) ==
  /\ p \in running
  /\ \A c \in Executors : ~(pc[c] = "awaiting" /\ about[c] = p)
  /\ running' = running \ {p}
  /\ UNCHANGED <<ledger, lapsed, aside, lock, commanded, pc, about, says>>

-----------------------------------------------------------------------------

Decides(c) == (\E p \in Plans : DecideRead(c, p)) \/ DecideWrite(c)

Executes(c) ==
  \/ AbortApproval(c) \/ Lock(c) \/ AbortStale(c) \/ Consume(c) \/ AbortAudit(c)
  \/ StartExecution(c) \/ Command(c) \/ CommandRefused(c) \/ CommandReturns(c)
  \/ StartVerification(c) \/ Verify(c) \/ Finalize(c) \/ Reconcile(c)

Proposes(c) == (\E p \in Plans : ProposeRead(c, p)) \/ ProposeWrite(c)

Next ==
  \/ \E p \in Plans : Prepare(p) \/ Request(p) \/ Lapse(p) \/ CommandEnds(p)
  \/ \E c \in Deciders : Decides(c)
  \/ \E c \in Executors : (\E p \in Plans : ExecuteRead(c, p)) \/ Executes(c)
  \/ \E c \in Proposers : Proposes(c)
  \/ \E c \in Calls : Die(c)

Spec == Init /\ [][Next]_vars

-----------------------------------------------------------------------------
(* Safety.                                                                 *)

WithoutApproval == {None, "VALIDATED"}
Consumed == PLAN_STATES \ {"PROPOSED", "VALIDATED", "AWAITING_APPROVAL", "APPROVED",
                           "ABORTED_APPROVAL", "ABORTED_STALE_STATE"}

\* The two tables tell one story, although calls decide on what they read before: what is
\* APPROVED, refused, invalidated or consumed in one is so in the other.
ApprovalBacksPlan ==
  \A p \in Plans :
    /\ plan[p] \in WithoutApproval <=> approval[p] = None
    /\ plan[p] = "AWAITING_APPROVAL" <=> approval[p] = "PENDING"
    /\ plan[p] = "APPROVED" <=> approval[p] = "APPROVED"
    /\ plan[p] = "ABORTED_APPROVAL" => approval[p] \in {"REJECTED", "EXPIRED", "INVALIDATED"}
    /\ plan[p] = "ABORTED_STALE_STATE" => approval[p] = "INVALIDATED"
    /\ approval[p] \in {"REJECTED", "EXPIRED"} => plan[p] = "ABORTED_APPROVAL"
    /\ approval[p] = "INVALIDATED" => plan[p] \in {"ABORTED_APPROVAL", "ABORTED_STALE_STATE"}
    /\ plan[p] \in Consumed <=> approval[p] = "CONSUMED"

\* What the attempt says is what became of the plan, and only a verified success closes
\* the incident.
OutcomeAgrees ==
  \A p \in Plans :
    /\ attempt[p] = None <=> approval[p] # "CONSUMED"
    /\ attempt[p] = "PENDING" <=> plan[p] \in {"BACKUP_VERIFIED", "EXECUTING", "VERIFYING"}
    /\ attempt[p] \in Outcomes \cup {"ABORTED_AUDIT"} =>
         plan[p] \in {attempt[p]} \cup (IF attempt[p] \in Failures THEN {"ROLLBACK_PROPOSED"} ELSE {})
    /\ p \in resolved => plan[p] = "SUCCEEDED_VERIFIED"

\* No two commands work on the target together, that of a dead call included.
OneCommandAtATime == \A p, q \in running : p = q

\* What the approvals come to for RemediationPromise.
Grant(p) ==
  IF approval[p] \in {None, "PENDING"} THEN "none"
  ELSE IF approval[p] = "APPROVED" THEN "granted"
  ELSE IF approval[p] = "CONSUMED" THEN "used" ELSE "refused"

Promise == INSTANCE RemediationPromise WITH grant <- [p \in Plans |-> Grant(p)]

\* Remediation implements RemediationPromise: a refused approval starts nothing, a granted
\* one is used up before its command, which starts once, and refusal and use are final.
PromiseKept == Promise!Spec

-----------------------------------------------------------------------------
(* Liveness.                                                               *)

\* Processes that do not die go on; the command and every observation have a timeout.
Fairness == \A c \in Executors : WF_vars(Executes(c))

FairSpec == Spec /\ Fairness

\* An execution that has used its approval comes to an outcome and gives the lock back,
\* unless its process dies.
ExecutionSettles ==
  \A c \in Executors, p \in Plans :
    pc[c] \in Locked \ {"checking"} /\ about[c] = p ~>
      pc[c] = "dead" \/ (lock # c /\ attempt[p] # "PENDING")
=============================================================================
