-------------------------- MODULE RemediationProofs --------------------------
(***************************************************************************)
(* Theorems about Remediation, for every set of plans and of calls.        *)
(***************************************************************************)
EXTENDS Remediation, TLAPS

(* What a call relies on after its transaction, although it looks at the store no more: *)
(* where it is in execute says what state its plan is in.                               *)
WorkAgrees(c) ==
  /\ pc[c] \in Locked => lock = c
  /\ pc[c] \notin {"new", "done", "dead"} => about[c] \in Plans
  /\ pc[c] = "aborting" => says[c] \in {"EXPIRED", "INVALIDATED"}
  /\ pc[c] = "auditing" => plan[about[c]] = "BACKUP_VERIFIED"
  /\ pc[c] \in {"executing", "awaiting", "executed"} => plan[about[c]] = "EXECUTING"
  /\ pc[c] = "executing" => about[c] \notin commanded
  /\ pc[c] \in {"executed", "finishing"} => about[c] \notin running
  /\ pc[c] = "verifying" => plan[about[c]] = "VERIFYING"
  /\ pc[c] = "finishing" =>
       \/ plan[about[c]] = "EXECUTING" /\ says[c] \in {"FAILED_EXECUTION", "INDETERMINATE"}
       \/ plan[about[c]] = "VERIFYING" /\ says[c] \in Outcomes \ {"FAILED_EXECUTION"}
  /\ pc[c] = "reconciling" => says[c] \in Outcomes /\ attempt[about[c]] = says[c]

DecisionAgrees(c) ==
  /\ pc[c] \in {"new", "deciding", "done", "dead"}
  /\ pc[c] = "deciding" => about[c] \in Plans /\ says[c] \in Decisions

ProposalAgrees(c) ==
  /\ pc[c] \in {"new", "proposing", "done", "dead"}
  /\ pc[c] = "proposing" =>
       about[c] \in Plans /\ says[c] \in Proposals /\ attempt[about[c]] # None

CallsAgree ==
  /\ \A c \in Executors : WorkAgrees(c) /\ pc[c] \notin {"deciding", "proposing"}
  /\ \A c \in Deciders : DecisionAgrees(c)
  /\ \A c \in Proposers : ProposalAgrees(c)

After == {"EXECUTING", "VERIFYING", "ROLLBACK_PROPOSED"} \cup Outcomes

CommandsAgree ==
  /\ running \subseteq commanded
  /\ \A p \in running : plan[p] = "EXECUTING"
  /\ \A p \in commanded : plan[p] \in After

IndexHolds == \A p, q \in Plans : plan[p] \in Unfinished /\ plan[q] \in Unfinished => p = q

Inv ==
  /\ TypeOK /\ ApprovalBacksPlan /\ OutcomeAgrees
  /\ CallsAgree /\ CommandsAgree /\ IndexHolds

-----------------------------------------------------------------------------
(* The state machine of models.py.                                         *)

\* Which states a plan can come from, for every state a call asks for.
LEMMA Sources ==
  ASSUME NEW p \in Plans, NEW state, TypeOK, Commits(p, state)
  PROVE  /\ plan[p] \in PLAN_STATES
         /\ state = "AWAITING_APPROVAL" => plan[p] = "VALIDATED"
         /\ state = "APPROVED" => plan[p] = "AWAITING_APPROVAL"
         /\ state = "ABORTED_APPROVAL" => plan[p] \in {"AWAITING_APPROVAL", "APPROVED"}
         /\ state = "PRECONDITION_VERIFIED" => plan[p] = "APPROVED"
         /\ state = "ABORTED_STALE_STATE" => plan[p] \in {"APPROVED", "PRECONDITION_VERIFIED"}
         /\ state = "ABORTED_AUDIT" => plan[p] \in {"APPROVED", "BACKUP_VERIFIED"}
         /\ state = "EXECUTING" => plan[p] = "BACKUP_VERIFIED"
         /\ state = "VERIFYING" => plan[p] = "EXECUTING"
         /\ state \in Unfinished => \A q \in Plans \ {p} : plan[q] \notin Unfinished
<1>1. <<plan[p], state>> \in ALLOWED_TRANSITIONS
  BY DEF Commits
<1>2. state \in Unfinished => \A q \in Plans \ {p} : plan[q] \notin Unfinished
  BY DEF Commits
<1>3. QED
  BY <1>1, <1>2, SMT DEF PLAN_STATES, ALLOWED_TRANSITIONS

-----------------------------------------------------------------------------
(* Types, and what calls rely on.                                          *)

LEMMA InitInv == ASSUME Init PROVE Inv
  BY DEF Init, Inv, TypeOK, ApprovalBacksPlan, OutcomeAgrees, CallsAgree, CommandsAgree,
      IndexHolds,
         WorkAgrees, DecisionAgrees, ProposalAgrees, Calls, Places, Locked, AttemptStates,
         ApprovalStates, WithoutApproval, Consumed, PLAN_STATES, Unfinished, After, Outcomes,
         Failures, Decisions, Proposals, None

LEMMA StepKeepsType == ASSUME TypeOK, CallsAgree, Next PROVE TypeOK'
<1> USE RemediationAssumption DEF TypeOK, Calls, Places, Locked, AttemptStates, ApprovalStates,
    Outcomes,
      Failures, Decisions, Proposals, PLAN_STATES, ledger, target, aside, Writes,
      GoesTo, Ends, Unlocks
<1>1. ASSUME NEW p \in Plans, Prepare(p) PROVE TypeOK'
  BY <1>1 DEF Prepare
<1>2. ASSUME NEW p \in Plans, Request(p) PROVE TypeOK'
  BY <1>2 DEF Request
<1>3. ASSUME NEW p \in Plans, Lapse(p) PROVE TypeOK'
  BY <1>3 DEF Lapse
<1>4. ASSUME NEW p \in Plans, CommandEnds(p) PROVE TypeOK'
  BY <1>4 DEF CommandEnds
<1>5. ASSUME NEW c \in Deciders, NEW p \in Plans, DecideRead(c, p) PROVE TypeOK'
  BY <1>5 DEF DecideRead, Reads
<1>6. ASSUME NEW c \in Deciders, DecideWrite(c) PROVE TypeOK'
  BY <1>6 DEF DecideWrite, StateAfter, CallsAgree, DecisionAgrees
<1>7. ASSUME NEW c \in Executors, NEW p \in Plans, ExecuteRead(c, p) PROVE TypeOK'
  BY <1>7 DEF ExecuteRead, Reads
<1>8. ASSUME NEW c \in Executors, AbortApproval(c) PROVE TypeOK'
  BY <1>8 DEF AbortApproval, CallsAgree, WorkAgrees
<1>9. ASSUME NEW c \in Executors, Lock(c) PROVE TypeOK'
  BY <1>9 DEF Lock
<1>10. ASSUME NEW c \in Executors, AbortStale(c) PROVE TypeOK'
  BY <1>10 DEF AbortStale
<1>11. ASSUME NEW c \in Executors, Consume(c) PROVE TypeOK'
  BY <1>11 DEF Consume
<1>12. ASSUME NEW c \in Executors, AbortAudit(c) PROVE TypeOK'
  BY <1>12 DEF AbortAudit
<1>13. ASSUME NEW c \in Executors, StartExecution(c) PROVE TypeOK'
  BY <1>13 DEF StartExecution, Advances
<1>14. ASSUME NEW c \in Executors, Command(c) PROVE TypeOK'
  BY <1>14 DEF Command, CallsAgree, WorkAgrees
<1>15. ASSUME NEW c \in Executors, CommandRefused(c) PROVE TypeOK'
  BY <1>15 DEF CommandRefused, Concludes
<1>16. ASSUME NEW c \in Executors, CommandReturns(c) PROVE TypeOK'
  BY <1>16 DEF CommandReturns, Concludes
<1>17. ASSUME NEW c \in Executors, StartVerification(c) PROVE TypeOK'
  BY <1>17 DEF StartVerification, Advances
<1>18. ASSUME NEW c \in Executors, Verify(c) PROVE TypeOK'
  BY <1>18 DEF Verify, Concludes
<1>19. ASSUME NEW c \in Executors, Finalize(c) PROVE TypeOK'
  BY <1>19 DEF Finalize, CallsAgree, WorkAgrees
<1>20. ASSUME NEW c \in Executors, Reconcile(c) PROVE TypeOK'
  BY <1>20 DEF Reconcile, CallsAgree, WorkAgrees
<1>21. ASSUME NEW c \in Proposers, NEW p \in Plans, ProposeRead(c, p) PROVE TypeOK'
  BY <1>21 DEF ProposeRead, Reads
<1>22. ASSUME NEW c \in Proposers, ProposeWrite(c) PROVE TypeOK'
  BY <1>22 DEF ProposeWrite, CallsAgree, ProposalAgrees
<1>23. ASSUME NEW c \in Calls, Die(c) PROVE TypeOK'
  BY <1>23 DEF Die
<1> QED
  BY <1>1, <1>2, <1>3, <1>4, <1>5, <1>6, <1>7, <1>8, <1>9, <1>10, <1>11, <1>12, <1>13, <1>14,
      <1>15, <1>16, <1>17, <1>18, <1>19, <1>20, <1>21, <1>22, <1>23
  DEF Next, Decides, Executes, Proposes

LEMMA StepKeepsWork ==
  ASSUME TypeOK, CallsAgree, CommandsAgree, Next
  PROVE  CallsAgree' /\ CommandsAgree'
<1> USE RemediationAssumption DEF CallsAgree, CommandsAgree, WorkAgrees, DecisionAgrees,
    ProposalAgrees,
      Calls, TypeOK, Locked, Outcomes, Failures, After, ledger, target, aside, Writes,
      GoesTo, Ends, Unlocks
<1>1. ASSUME NEW p \in Plans, Prepare(p) PROVE CallsAgree' /\ CommandsAgree'
  BY <1>1 DEF Prepare, None
<1>2. ASSUME NEW p \in Plans, Request(p) PROVE CallsAgree' /\ CommandsAgree'
  BY <1>2, Sources DEF Request
<1>3. ASSUME NEW p \in Plans, Lapse(p) PROVE CallsAgree' /\ CommandsAgree'
  BY <1>3 DEF Lapse
<1>4. ASSUME NEW p \in Plans, CommandEnds(p) PROVE CallsAgree' /\ CommandsAgree'
  BY <1>4 DEF CommandEnds
<1>5. ASSUME NEW c \in Deciders, NEW p \in Plans, DecideRead(c, p)
      PROVE  CallsAgree' /\ CommandsAgree'
  BY <1>5 DEF DecideRead, Reads, Decisions
<1>6. ASSUME NEW c \in Deciders, DecideWrite(c) PROVE CallsAgree' /\ CommandsAgree'
  BY <1>6, Sources DEF DecideWrite, StateAfter, Decisions
<1>7. ASSUME NEW c \in Executors, NEW p \in Plans, ExecuteRead(c, p)
      PROVE  CallsAgree' /\ CommandsAgree'
  BY <1>7 DEF ExecuteRead, Reads
<1>8. ASSUME NEW c \in Executors, AbortApproval(c) PROVE CallsAgree' /\ CommandsAgree'
  BY <1>8, Sources DEF AbortApproval
<1>9. ASSUME NEW c \in Executors, Lock(c) PROVE CallsAgree' /\ CommandsAgree'
  BY <1>9 DEF Lock
<1>10. ASSUME NEW c \in Executors, AbortStale(c) PROVE CallsAgree' /\ CommandsAgree'
  BY <1>10, Sources DEF AbortStale
<1>11. ASSUME NEW c \in Executors, Consume(c) PROVE CallsAgree' /\ CommandsAgree'
  BY <1>11, Sources DEF Consume
<1>12. ASSUME NEW c \in Executors, AbortAudit(c) PROVE CallsAgree' /\ CommandsAgree'
  <2>1. about[c] \in Plans /\ plan[about[c]] = "BACKUP_VERIFIED" /\ about[c] \notin commanded
    BY <1>12 DEF AbortAudit
  <2>2. CommandsAgree'
    BY <1>12, <2>1 DEF AbortAudit
  <2>3. \A d \in Executors : (WorkAgrees(d) /\ pc[d] \notin {"deciding", "proposing"})'
    BY <1>12, <2>1 DEF AbortAudit
  <2>4. CallsAgree'
    BY <1>12, <2>1, <2>3 DEF AbortAudit, None
  <2> QED BY <2>2, <2>4
<1>13. ASSUME NEW c \in Executors, StartExecution(c) PROVE CallsAgree' /\ CommandsAgree'
  BY <1>13, Sources DEF StartExecution, Advances
<1>14. ASSUME NEW c \in Executors, Command(c) PROVE CallsAgree' /\ CommandsAgree'
  BY <1>14 DEF Command
<1>15. ASSUME NEW c \in Executors, CommandRefused(c) PROVE CallsAgree' /\ CommandsAgree'
  BY <1>15 DEF CommandRefused, Concludes
<1>16. ASSUME NEW c \in Executors, CommandReturns(c) PROVE CallsAgree' /\ CommandsAgree'
  BY <1>16 DEF CommandReturns, Concludes
<1>17. ASSUME NEW c \in Executors, StartVerification(c) PROVE CallsAgree' /\ CommandsAgree'
  BY <1>17, Sources DEF StartVerification, Advances
<1>18. ASSUME NEW c \in Executors, Verify(c) PROVE CallsAgree' /\ CommandsAgree'
  BY <1>18 DEF Verify, Concludes
<1>19. ASSUME NEW c \in Executors, Finalize(c) PROVE CallsAgree' /\ CommandsAgree'
  <2>1. about[c] \in Plans /\ about[c] \notin running /\ says[c] \in Outcomes
    BY <1>19 DEF Finalize
  <2>2. CommandsAgree'
    BY <1>19, <2>1 DEF Finalize
  <2>3. \A d \in Executors : (WorkAgrees(d) /\ pc[d] \notin {"deciding", "proposing"})'
    BY <1>19, <2>1 DEF Finalize
  <2>4. CallsAgree'
    BY <1>19, <2>1, <2>3 DEF Finalize, None
  <2> QED BY <2>2, <2>4
<1>20. ASSUME NEW c \in Executors, Reconcile(c) PROVE CallsAgree' /\ CommandsAgree'
  BY <1>20 DEF Reconcile
<1>21. ASSUME NEW c \in Proposers, NEW p \in Plans, ProposeRead(c, p)
      PROVE  CallsAgree' /\ CommandsAgree'
  BY <1>21 DEF ProposeRead, Reads, Proposals
<1>22. ASSUME NEW c \in Proposers, ProposeWrite(c) PROVE CallsAgree' /\ CommandsAgree'
  BY <1>22 DEF ProposeWrite, Proposals
<1>23. ASSUME NEW c \in Calls, Die(c) PROVE CallsAgree' /\ CommandsAgree'
  BY <1>23 DEF Die
<1> QED
  BY <1>1, <1>2, <1>3, <1>4, <1>5, <1>6, <1>7, <1>8, <1>9, <1>10, <1>11, <1>12, <1>13, <1>14,
      <1>15, <1>16, <1>17, <1>18, <1>19, <1>20, <1>21, <1>22, <1>23
  DEF Next, Decides, Executes, Proposes

-----------------------------------------------------------------------------
(* The tables.                                                             *)

\* Every transition into an unfinished state is checked by the index.
LEMMA StepKeepsIndex == ASSUME TypeOK, CallsAgree, IndexHolds, Next PROVE IndexHolds'
<1> USE DEF IndexHolds, TypeOK, Unfinished, ledger, Writes
<1>1. ASSUME NEW p \in Plans, Prepare(p) PROVE IndexHolds'
  BY <1>1 DEF Prepare
<1>2. ASSUME NEW p \in Plans, Request(p) PROVE IndexHolds'
  BY <1>2, Sources DEF Request
<1>3. ASSUME NEW p \in Plans, Lapse(p) PROVE IndexHolds'
  BY <1>3 DEF Lapse
<1>4. ASSUME NEW p \in Plans, CommandEnds(p) PROVE IndexHolds'
  BY <1>4 DEF CommandEnds
<1>5. ASSUME NEW c \in Deciders, NEW p \in Plans, DecideRead(c, p) PROVE IndexHolds'
  BY <1>5 DEF DecideRead, Reads
<1>6. ASSUME NEW c \in Deciders, DecideWrite(c) PROVE IndexHolds'
  BY <1>6, Sources DEF DecideWrite, StateAfter
<1>7. ASSUME NEW c \in Executors, NEW p \in Plans, ExecuteRead(c, p) PROVE IndexHolds'
  BY <1>7 DEF ExecuteRead, Reads
<1>8. ASSUME NEW c \in Executors, AbortApproval(c) PROVE IndexHolds'
  BY <1>8, Sources DEF AbortApproval
<1>9. ASSUME NEW c \in Executors, Lock(c) PROVE IndexHolds'
  BY <1>9 DEF Lock
<1>10. ASSUME NEW c \in Executors, AbortStale(c) PROVE IndexHolds'
  BY <1>10, Sources DEF AbortStale
<1>11. ASSUME NEW c \in Executors, Consume(c) PROVE IndexHolds'
  BY <1>11, Sources DEF Consume
<1>12. ASSUME NEW c \in Executors, AbortAudit(c) PROVE IndexHolds'
  BY <1>12, Sources DEF AbortAudit
<1>13. ASSUME NEW c \in Executors, StartExecution(c) PROVE IndexHolds'
  BY <1>13, Sources DEF StartExecution, Advances
<1>14. ASSUME NEW c \in Executors, Command(c) PROVE IndexHolds'
  BY <1>14 DEF Command
<1>15. ASSUME NEW c \in Executors, CommandRefused(c) PROVE IndexHolds'
  BY <1>15 DEF CommandRefused, Concludes
<1>16. ASSUME NEW c \in Executors, CommandReturns(c) PROVE IndexHolds'
  BY <1>16 DEF CommandReturns, Concludes
<1>17. ASSUME NEW c \in Executors, StartVerification(c) PROVE IndexHolds'
  BY <1>17, Sources DEF StartVerification, Advances
<1>18. ASSUME NEW c \in Executors, Verify(c) PROVE IndexHolds'
  BY <1>18 DEF Verify, Concludes
<1>19. ASSUME NEW c \in Executors, Finalize(c) PROVE IndexHolds'
  BY <1>19 DEF Finalize, CallsAgree, WorkAgrees, Outcomes, Failures
<1>20. ASSUME NEW c \in Executors, Reconcile(c) PROVE IndexHolds'
  BY <1>20 DEF Reconcile
<1>21. ASSUME NEW c \in Proposers, NEW p \in Plans, ProposeRead(c, p) PROVE IndexHolds'
  BY <1>21 DEF ProposeRead, Reads
<1>22. ASSUME NEW c \in Proposers, ProposeWrite(c) PROVE IndexHolds'
  BY <1>22 DEF ProposeWrite
<1>23. ASSUME NEW c \in Calls, Die(c) PROVE IndexHolds'
  BY <1>23 DEF Die
<1> QED
  BY <1>1, <1>2, <1>3, <1>4, <1>5, <1>6, <1>7, <1>8, <1>9, <1>10, <1>11, <1>12, <1>13, <1>14,
     <1>15, <1>16, <1>17, <1>18, <1>19, <1>20, <1>21, <1>22, <1>23
  DEF Next, Decides, Executes, Proposes

\* A transition and the write of the approval that goes with it are one step.
LEMMA StepKeepsApproval ==
  ASSUME TypeOK, CallsAgree, ApprovalBacksPlan, Next
  PROVE  ApprovalBacksPlan'
<1> USE DEF ApprovalBacksPlan, TypeOK, WithoutApproval, Consumed, PLAN_STATES, None,
      ledger, Writes
<1>1. ASSUME NEW p \in Plans, Prepare(p) PROVE ApprovalBacksPlan'
  BY <1>1 DEF Prepare
<1>2. ASSUME NEW p \in Plans, Request(p) PROVE ApprovalBacksPlan'
  BY <1>2, Sources DEF Request
<1>3. ASSUME NEW p \in Plans, Lapse(p) PROVE ApprovalBacksPlan'
  BY <1>3 DEF Lapse
<1>4. ASSUME NEW p \in Plans, CommandEnds(p) PROVE ApprovalBacksPlan'
  BY <1>4 DEF CommandEnds
<1>5. ASSUME NEW c \in Deciders, NEW p \in Plans, DecideRead(c, p) PROVE ApprovalBacksPlan'
  BY <1>5 DEF DecideRead, Reads
<1>6. ASSUME NEW c \in Deciders, DecideWrite(c) PROVE ApprovalBacksPlan'
  BY <1>6, Sources DEF DecideWrite, StateAfter, CallsAgree, DecisionAgrees, Decisions
<1>7. ASSUME NEW c \in Executors, NEW p \in Plans, ExecuteRead(c, p) PROVE ApprovalBacksPlan'
  BY <1>7 DEF ExecuteRead, Reads
<1>8. ASSUME NEW c \in Executors, AbortApproval(c) PROVE ApprovalBacksPlan'
  BY <1>8, Sources DEF AbortApproval, CallsAgree, WorkAgrees
<1>9. ASSUME NEW c \in Executors, Lock(c) PROVE ApprovalBacksPlan'
  BY <1>9 DEF Lock
<1>10. ASSUME NEW c \in Executors, AbortStale(c) PROVE ApprovalBacksPlan'
  BY <1>10, Sources DEF AbortStale
<1>11. ASSUME NEW c \in Executors, Consume(c) PROVE ApprovalBacksPlan'
  BY <1>11, Sources DEF Consume
<1>12. ASSUME NEW c \in Executors, AbortAudit(c) PROVE ApprovalBacksPlan'
  BY <1>12 DEF AbortAudit, CallsAgree, WorkAgrees, Locked
<1>13. ASSUME NEW c \in Executors, StartExecution(c) PROVE ApprovalBacksPlan'
  BY <1>13, Sources DEF StartExecution, Advances
<1>14. ASSUME NEW c \in Executors, Command(c) PROVE ApprovalBacksPlan'
  BY <1>14 DEF Command
<1>15. ASSUME NEW c \in Executors, CommandRefused(c) PROVE ApprovalBacksPlan'
  BY <1>15 DEF CommandRefused, Concludes
<1>16. ASSUME NEW c \in Executors, CommandReturns(c) PROVE ApprovalBacksPlan'
  BY <1>16 DEF CommandReturns, Concludes
<1>17. ASSUME NEW c \in Executors, StartVerification(c) PROVE ApprovalBacksPlan'
  BY <1>17, Sources DEF StartVerification, Advances
<1>18. ASSUME NEW c \in Executors, Verify(c) PROVE ApprovalBacksPlan'
  BY <1>18 DEF Verify, Concludes
<1>19. ASSUME NEW c \in Executors, Finalize(c) PROVE ApprovalBacksPlan'
  BY <1>19 DEF Finalize, CallsAgree, WorkAgrees, Outcomes, Failures
<1>20. ASSUME NEW c \in Executors, Reconcile(c) PROVE ApprovalBacksPlan'
  BY <1>20 DEF Reconcile
<1>21. ASSUME NEW c \in Proposers, NEW p \in Plans, ProposeRead(c, p) PROVE ApprovalBacksPlan'
  BY <1>21 DEF ProposeRead, Reads
<1>22. ASSUME NEW c \in Proposers, ProposeWrite(c) PROVE ApprovalBacksPlan'
  BY <1>22 DEF ProposeWrite, Failures
<1>23. ASSUME NEW c \in Calls, Die(c) PROVE ApprovalBacksPlan'
  BY <1>23 DEF Die
<1> QED
  BY <1>1, <1>2, <1>3, <1>4, <1>5, <1>6, <1>7, <1>8, <1>9, <1>10, <1>11, <1>12, <1>13, <1>14,
     <1>15, <1>16, <1>17, <1>18, <1>19, <1>20, <1>21, <1>22, <1>23
  DEF Next, Decides, Executes, Proposes

\* The outcome is written to both tables in one step, and only by the call that has the lock.
LEMMA StepKeepsOutcome ==
  ASSUME TypeOK, CallsAgree, ApprovalBacksPlan, OutcomeAgrees, Next
  PROVE  OutcomeAgrees'
<1> USE DEF OutcomeAgrees, ApprovalBacksPlan, TypeOK, WithoutApproval, Consumed, PLAN_STATES,
    None,
      Outcomes, Failures, AttemptStates, ledger, aside, Writes
<1>1. ASSUME NEW p \in Plans, Prepare(p) PROVE OutcomeAgrees'
  BY <1>1 DEF Prepare
<1>2. ASSUME NEW p \in Plans, Request(p) PROVE OutcomeAgrees'
  BY <1>2, Sources DEF Request
<1>3. ASSUME NEW p \in Plans, Lapse(p) PROVE OutcomeAgrees'
  BY <1>3 DEF Lapse
<1>4. ASSUME NEW p \in Plans, CommandEnds(p) PROVE OutcomeAgrees'
  BY <1>4 DEF CommandEnds
<1>5. ASSUME NEW c \in Deciders, NEW p \in Plans, DecideRead(c, p) PROVE OutcomeAgrees'
  BY <1>5 DEF DecideRead, Reads
<1>6. ASSUME NEW c \in Deciders, DecideWrite(c) PROVE OutcomeAgrees'
  BY <1>6, Sources DEF DecideWrite, StateAfter, CallsAgree, DecisionAgrees, Decisions
<1>7. ASSUME NEW c \in Executors, NEW p \in Plans, ExecuteRead(c, p) PROVE OutcomeAgrees'
  BY <1>7 DEF ExecuteRead, Reads
<1>8. ASSUME NEW c \in Executors, AbortApproval(c) PROVE OutcomeAgrees'
  BY <1>8, Sources DEF AbortApproval, CallsAgree, WorkAgrees
<1>9. ASSUME NEW c \in Executors, Lock(c) PROVE OutcomeAgrees'
  BY <1>9 DEF Lock
<1>10. ASSUME NEW c \in Executors, AbortStale(c) PROVE OutcomeAgrees'
  BY <1>10, Sources DEF AbortStale
<1>11. ASSUME NEW c \in Executors, Consume(c) PROVE OutcomeAgrees'
  BY <1>11, Sources DEF Consume
<1>12. ASSUME NEW c \in Executors, AbortAudit(c) PROVE OutcomeAgrees'
  BY <1>12 DEF AbortAudit, CallsAgree, WorkAgrees, Locked
<1>13. ASSUME NEW c \in Executors, StartExecution(c) PROVE OutcomeAgrees'
  BY <1>13, Sources DEF StartExecution, Advances
<1>14. ASSUME NEW c \in Executors, Command(c) PROVE OutcomeAgrees'
  BY <1>14 DEF Command
<1>15. ASSUME NEW c \in Executors, CommandRefused(c) PROVE OutcomeAgrees'
  BY <1>15 DEF CommandRefused, Concludes
<1>16. ASSUME NEW c \in Executors, CommandReturns(c) PROVE OutcomeAgrees'
  BY <1>16 DEF CommandReturns, Concludes
<1>17. ASSUME NEW c \in Executors, StartVerification(c) PROVE OutcomeAgrees'
  BY <1>17, Sources DEF StartVerification, Advances
<1>18. ASSUME NEW c \in Executors, Verify(c) PROVE OutcomeAgrees'
  BY <1>18 DEF Verify, Concludes
<1>19. ASSUME NEW c \in Executors, Finalize(c) PROVE OutcomeAgrees'
  BY <1>19 DEF Finalize, CallsAgree, WorkAgrees, Locked
<1>20. ASSUME NEW c \in Executors, Reconcile(c) PROVE OutcomeAgrees'
  BY <1>20 DEF Reconcile, CallsAgree, WorkAgrees, Locked
<1>21. ASSUME NEW c \in Proposers, NEW p \in Plans, ProposeRead(c, p) PROVE OutcomeAgrees'
  BY <1>21 DEF ProposeRead, Reads
<1>22. ASSUME NEW c \in Proposers, ProposeWrite(c) PROVE OutcomeAgrees'
  BY <1>22 DEF ProposeWrite
<1>23. ASSUME NEW c \in Calls, Die(c) PROVE OutcomeAgrees'
  BY <1>23 DEF Die
<1> QED
  BY <1>1, <1>2, <1>3, <1>4, <1>5, <1>6, <1>7, <1>8, <1>9, <1>10, <1>11, <1>12, <1>13, <1>14,
     <1>15, <1>16, <1>17, <1>18, <1>19, <1>20, <1>21, <1>22, <1>23
  DEF Next, Decides, Executes, Proposes

LEMMA NextInv == ASSUME Inv, [Next]_vars PROVE Inv'
<1>1. CASE Next
  BY <1>1, StepKeepsType, StepKeepsWork, StepKeepsIndex, StepKeepsApproval, StepKeepsOutcome DEF
      Inv
<1>2. CASE UNCHANGED vars
  BY <1>2 DEF vars, Inv, TypeOK, ApprovalBacksPlan, OutcomeAgrees, CallsAgree, CommandsAgree,
      IndexHolds,
      WorkAgrees, DecisionAgrees, ProposalAgrees
<1> QED
  BY <1>1, <1>2

LEMMA AlwaysInv == Spec => []Inv
<1>1. Init => Inv
  BY InitInv
<1>2. Inv /\ [Next]_vars => Inv'
  BY NextInv
<1> QED
  BY <1>1, <1>2, PTL DEF Spec

-----------------------------------------------------------------------------
(* The theorems.                                                           *)

\* Plans, approvals, attempts and calls are only ever in states the schema and the state
\* machine of models.py know, however many calls there are and wherever they die.
THEOREM TypesCorrect == Spec => []TypeOK
  BY AlwaysInv, PTL DEF Inv

\* Calls that read before the transaction of another and write after it never make the
\* plans and the approvals tell two stories.
THEOREM LedgersAgree == Spec => []ApprovalBacksPlan
  BY AlwaysInv, PTL DEF Inv

\* The attempt says what became of the plan, and an incident is closed only by a plan
\* that succeeded and stays so.
THEOREM OutcomesAgree == Spec => []OutcomeAgrees
  BY AlwaysInv, PTL DEF Inv

\* No two commands work on the target together, although a dead call's lock is free while
\* its command is still at work: its plan stays EXECUTING, and the index lets no other pass.
THEOREM CommandsDoNotMeet == Spec => []OneCommandAtATime
<1>1. Inv => OneCommandAtATime
  BY DEF Inv, TypeOK, CommandsAgree, IndexHolds, Unfinished, OneCommandAtATime
<1> QED
  BY <1>1, AlwaysInv, PTL

-----------------------------------------------------------------------------
(* Remediation implements RemediationPromise.                              *)

Grants == [p \in Plans |-> Grant(p)]

LEMMA InitPromise == Init => Promise!Init
  BY DEF Init, Promise!Init, Grant

\* A step is a decision, a use, a start or an end of RemediationPromise, or changes
\* nothing of it.
LEMMA StepPromise ==
  ASSUME Inv, Inv', Next
  PROVE  Promise!Next \/ UNCHANGED <<Grants, running, commanded>>
<1> DEFINE Goal == Promise!Next \/ UNCHANGED <<Grants, running, commanded>>
<1> USE DEF Inv, TypeOK, CallsAgree, WorkAgrees, DecisionAgrees, CommandsAgree, Locked,
      ApprovalStates, ledger, target, aside
<1>1. ASSUME NEW p \in Plans, Prepare(p) PROVE Goal
  BY <1>1 DEF Prepare, Grants, Grant
<1>2. ASSUME NEW p \in Plans, Request(p) PROVE Goal
  <2>1. Grants' = Grants
    BY <1>2 DEF Request, Grants, Grant
  <2> QED
    BY <1>2, <2>1 DEF Request
<1>3. ASSUME NEW p \in Plans, Lapse(p) PROVE Goal
  BY <1>3 DEF Lapse, Grants, Grant
<1>4. ASSUME NEW p \in Plans, CommandEnds(p) PROVE Goal
  <2>1. Promise!End(p)
    BY <1>4 DEF CommandEnds, Promise!End, Grant
  <2> QED
    BY <2>1 DEF Promise!Next
<1>5. ASSUME NEW c \in Deciders, NEW p \in Plans, DecideRead(c, p) PROVE Goal
  BY <1>5 DEF DecideRead, Reads, Grants, Grant
<1>6. ASSUME NEW c \in Deciders, DecideWrite(c) PROVE Goal
  <2>1. CASE UNCHANGED approval
    BY <1>6, <2>1 DEF DecideWrite, Grants, Grant
  <2>2. CASE approval' # approval
    <3>1. /\ about[c] \in Plans
          /\ approval' = [approval EXCEPT ![about[c]] = says[c]]
          /\ UNCHANGED <<running, commanded>>
      BY <1>6, <2>2 DEF DecideWrite, Unlocks
    <3>2. /\ says[c] \in Decisions
          /\ \/ approval[about[c]] = "PENDING"
             \/ approval[about[c]] = "APPROVED" /\ says[c] # "APPROVED"
      BY <1>6, <2>2, <3>1, Sources DEF DecideWrite, ApprovalBacksPlan, OutcomeAgrees, Consumed,
          PLAN_STATES,
          AttemptStates, Outcomes, Failures, StateAfter, Decisions, None
    <3>3. Grant(about[c]) \in (IF says[c] = "APPROVED" THEN {"none"} ELSE {"none", "granted"})
      BY <3>2 DEF Grant, None
    <3>4. Grants' = [Grants EXCEPT ![about[c]] =
                       IF says[c] = "APPROVED" THEN "granted" ELSE "refused"]
      BY <3>1, <3>2 DEF Grants, Grant, None, Decisions
    <3>5. Promise!Decide(about[c], IF says[c] = "APPROVED" THEN "granted" ELSE "refused")
      BY <3>1, <3>2, <3>3, <3>4 DEF Promise!Decide, Grants
    <3> QED
      BY <3>1, <3>5 DEF Promise!Next
  <2> QED
    BY <2>1, <2>2
<1>7. ASSUME NEW c \in Executors, NEW p \in Plans, ExecuteRead(c, p) PROVE Goal
  BY <1>7 DEF ExecuteRead, Reads, Grants, Grant
<1>8. ASSUME NEW c \in Executors, AbortApproval(c) PROVE Goal
  <2>1. CASE UNCHANGED approval
    BY <1>8, <2>1 DEF AbortApproval, Grants, Grant
  <2>2. CASE approval' # approval
    <3>1. /\ about[c] \in Plans
          /\ approval' = [approval EXCEPT ![about[c]] = says[c]]
          /\ says[c] \in {"EXPIRED", "INVALIDATED"}
          /\ UNCHANGED <<running, commanded>>
      BY <1>8, <2>2 DEF AbortApproval, Unlocks
    <3>2. approval[about[c]] \in {"PENDING", "APPROVED"}
      BY <1>8, <2>2, <3>1, Sources DEF AbortApproval, ApprovalBacksPlan, OutcomeAgrees,
          Consumed, PLAN_STATES,
          AttemptStates, Outcomes, Failures, StateAfter, Decisions, None
    <3>3. Grant(about[c]) \in {"none", "granted"}
      BY <3>2 DEF Grant, None
    <3>4. Grants' = [Grants EXCEPT ![about[c]] = "refused"]
      BY <3>1 DEF Grants, Grant, None
    <3>5. Promise!Decide(about[c], "refused")
      BY <3>1, <3>2, <3>3, <3>4 DEF Promise!Decide, Grants
    <3> QED
      BY <3>1, <3>5 DEF Promise!Next
  <2> QED
    BY <2>1, <2>2
<1>9. ASSUME NEW c \in Executors, Lock(c) PROVE Goal
  BY <1>9 DEF Lock, Grants, Grant
<1>10. ASSUME NEW c \in Executors, AbortStale(c) PROVE Goal
  <2>1. CASE UNCHANGED approval
    BY <1>10, <2>1 DEF AbortStale, Grants, Grant
  <2>2. CASE approval' # approval
    <3>1. /\ about[c] \in Plans
          /\ approval' = [approval EXCEPT ![about[c]] = "INVALIDATED"]
          /\ UNCHANGED <<running, commanded>>
      BY <1>10, <2>2 DEF AbortStale, Unlocks
    <3>2. approval[about[c]] = "APPROVED"
      BY <1>10, <2>2, <3>1, Sources DEF AbortStale, ApprovalBacksPlan, OutcomeAgrees, Consumed,
          PLAN_STATES,
          AttemptStates, Outcomes, Failures, StateAfter, Decisions, None
    <3>3. Grant(about[c]) \in {"granted"}
      BY <3>2 DEF Grant, None
    <3>4. Grants' = [Grants EXCEPT ![about[c]] = "refused"]
      BY <3>1 DEF Grants, Grant, None
    <3>5. Promise!Decide(about[c], "refused")
      BY <3>1, <3>2, <3>3, <3>4 DEF Promise!Decide, Grants
    <3> QED
      BY <3>1, <3>5 DEF Promise!Next
  <2> QED
    BY <2>1, <2>2
<1>11. ASSUME NEW c \in Executors, Consume(c) PROVE Goal
  <2>1. CASE UNCHANGED approval
    BY <1>11, <2>1 DEF Consume, Grants, Grant
  <2>2. CASE approval' # approval
    <3>1. /\ about[c] \in Plans
          /\ approval' = [approval EXCEPT ![about[c]] = "CONSUMED"]
          /\ UNCHANGED <<running, commanded>>
      BY <1>11, <2>2 DEF Consume, Unlocks
    <3>2. approval[about[c]] = "APPROVED"
      BY <1>11, <2>2, <3>1, Sources DEF Consume, ApprovalBacksPlan, OutcomeAgrees, Consumed,
          PLAN_STATES,
          AttemptStates, Outcomes, Failures, StateAfter, Decisions, None
    <3>3. Grant(about[c]) \in {"granted"}
      BY <3>2 DEF Grant, None
    <3>4. Grants' = [Grants EXCEPT ![about[c]] = "used"]
      BY <3>1 DEF Grants, Grant, None
    <3>5. Promise!Use(about[c])
      BY <3>1, <3>2, <3>3, <3>4 DEF Promise!Use, Grants
    <3> QED
      BY <3>1, <3>5 DEF Promise!Next
  <2> QED
    BY <2>1, <2>2
<1>12. ASSUME NEW c \in Executors, AbortAudit(c) PROVE Goal
  BY <1>12 DEF AbortAudit, Grants, Grant
<1>13. ASSUME NEW c \in Executors, StartExecution(c) PROVE Goal
  BY <1>13 DEF StartExecution, Advances, Grants, Grant
<1>14. ASSUME NEW c \in Executors, Command(c) PROVE Goal
  <2>1. about[c] \in Plans /\ plan[about[c]] = "EXECUTING" /\ about[c] \notin commanded
    BY <1>14 DEF Command
  <2>2. running = {}
    BY <2>1 DEF IndexHolds, Unfinished
  <2>3. Grant(about[c]) = "used"
    BY <2>1 DEF Grant, ApprovalBacksPlan, Consumed, PLAN_STATES, None
  <2>4. Grants' = Grants
    BY <1>14 DEF Command, Grants, Grant
  <2>5. Promise!Start(about[c])
    BY <1>14, <2>1, <2>2, <2>3, <2>4 DEF Command, Promise!Start, Grants
  <2> QED
    BY <2>1, <2>5 DEF Promise!Next
<1>15. ASSUME NEW c \in Executors, CommandRefused(c) PROVE Goal
  BY <1>15 DEF CommandRefused, Grants, Grant
<1>16. ASSUME NEW c \in Executors, CommandReturns(c) PROVE Goal
  <2>1. about[c] \in Plans /\ Grants' = Grants
    BY <1>16 DEF CommandReturns, Grants, Grant
  <2>2. CASE about[c] \in running
    BY <1>16, <2>1, <2>2 DEF CommandReturns, Promise!Next, Promise!End, Grants
  <2>3. CASE about[c] \notin running
    BY <1>16, <2>1, <2>3 DEF CommandReturns
  <2> QED
    BY <2>2, <2>3
<1>17. ASSUME NEW c \in Executors, StartVerification(c) PROVE Goal
  BY <1>17 DEF StartVerification, Advances, Grants, Grant
<1>18. ASSUME NEW c \in Executors, Verify(c) PROVE Goal
  BY <1>18 DEF Verify, Grants, Grant
<1>19. ASSUME NEW c \in Executors, Finalize(c) PROVE Goal
  BY <1>19 DEF Finalize, Grants, Grant
<1>20. ASSUME NEW c \in Executors, Reconcile(c) PROVE Goal
  BY <1>20 DEF Reconcile, Grants, Grant
<1>21. ASSUME NEW c \in Proposers, NEW p \in Plans, ProposeRead(c, p) PROVE Goal
  BY <1>21 DEF ProposeRead, Reads, Grants, Grant
<1>22. ASSUME NEW c \in Proposers, ProposeWrite(c) PROVE Goal
  BY <1>22 DEF ProposeWrite, Grants, Grant
<1>23. ASSUME NEW c \in Calls, Die(c) PROVE Goal
  BY <1>23 DEF Die, Grants, Grant
<1> QED
  BY <1>1, <1>2, <1>3, <1>4, <1>5, <1>6, <1>7, <1>8, <1>9, <1>10, <1>11, <1>12, <1>13, <1>14,
     <1>15, <1>16, <1>17, <1>18, <1>19, <1>20, <1>21, <1>22, <1>23
  DEF Next, Decides, Executes, Proposes

LEMMA StutterPromise == UNCHANGED vars => UNCHANGED <<Grants, running, commanded>>
  BY DEF vars, Grants, Grant

\* For all plans and calls, a command starts once at most, after an approval that was
\* granted and then used up for it, and while no other command is at work; a refusal and a
\* use are final.
THEOREM PromiseIsKept == Spec => PromiseKept
<1>1. Init => Promise!Init
  BY InitPromise
<1>2. Inv /\ Inv' /\ [Next]_vars => [Promise!Next]_<<Grants, running, commanded>>
  BY StepPromise, StutterPromise
<1> QED
  BY <1>1, <1>2, AlwaysInv, PTL DEF Spec, PromiseKept, Promise!Spec, Grants
=============================================================================
