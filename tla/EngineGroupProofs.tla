-------------------------- MODULE EngineGroupProofs --------------------------
(***************************************************************************)
(* Theorems about EngineGroup, for every set of jobs and of operations and *)
(* whichever of them meet.                                                 *)
(***************************************************************************)
EXTENDS EngineGroup, TLAPS

-----------------------------------------------------------------------------
(* The operations of the lifecycle.                                        *)

\* Who has the lock has it from the answer of flock to the report, and the record names
\* nobody but an operation at work or one that died at work.
LockAgrees ==
  /\ \A w \in Callers : op[w].at \in {"locked", "reporting"} => lock = w
  /\ file.by \in Callers => op[file.by].at \in Working \cup {"dead"}

Asked == \A w \in Callers : op[w].at # "new" => op[w].action \in Actions

LifeInv == LifecycleTypeOK /\ OneOperation /\ LockAgrees /\ Asked

LEMMA LifeInit == Init => LifeInv
<1>. SUFFICES ASSUME LifecycleInit
              PROVE  LifeInv
  BY DEF Init
<1>. USE DEF LifecycleInit
<1>1. blind \in BOOLEAN /\ file.by = Nobody
  OBVIOUS
<1>2. LifecycleTypeOK
  BY <1>1 DEF LifecycleTypeOK
<1>3. OneOperation /\ Asked
  BY DEF OneOperation, Asked, Working
<1>4. LockAgrees
  BY <1>1, LifecycleAssumption DEF LockAgrees
<1>. QED
  BY <1>2, <1>3, <1>4 DEF LifeInv

LEMMA LifeUnchanged == LifeInv /\ UNCHANGED lifecycleVars => LifeInv'
BY DEF LifeInv, lifecycleVars, LifecycleTypeOK, OneOperation, LockAgrees, Asked

\* A step from one place of work to another touches neither the lock nor the record.
LEMMA LifeKeeps ==
  ASSUME LifeInv, NEW w \in Callers, op[w].at \in Working, NEW place \in Working, Moves(w, place),
         blind' \in BOOLEAN
  PROVE  LifeInv'
BY DEF LifeInv, Moves, At, LifecycleTypeOK, OneOperation, LockAgrees, Asked, Working

\* Where one writes the outcome, no other is at work.
LEMMA LifeRecords ==
  ASSUME LifeInv, NEW w \in Callers, op[w].at \in Working \cup {"locked"},
         NEW state \in {"READY", "OFF", "ERROR"}, Records(state), At(w, "reporting"),
         UNCHANGED <<lock, worker, blind>>, held' \subseteq Jobs
  PROVE  LifeInv'
BY LifecycleAssumption DEF LifeInv, Records, At, LifecycleTypeOK, OneOperation, LockAgrees, Asked, Working

LEMMA LifeLaunch ==
  ASSUME LifeInv, NEW w \in Callers, Starts(w)
  PROVE  LifeInv'
<1>1. PICK action \in Actions : Begins(w, action) /\ worker' \in Callers \cup {Nobody}
  BY DEF Starts, Launch, PanelLaunches, LifeInv, LifecycleTypeOK
<1>. QED
  BY <1>1 DEF Begins, LifeInv, LifecycleTypeOK, OneOperation, LockAgrees, Asked, Working, Actions

LEMMA LifeOperates ==
  ASSUME LifeInv, NEW w \in Callers, Operates(w) \/ StopBridge(w)
  PROVE  LifeInv'
<1>1. CASE TakeLock(w)
  BY <1>1, LifecycleAssumption DEF TakeLock, At, LifeInv, LifecycleTypeOK, OneOperation, LockAgrees, Asked, Working
<1>2. CASE NothingToDo(w)
  BY <1>2, LifeRecords DEF NothingToDo, Target
<1>3. CASE Begin(w)
  <2>1. op[w].action \in Actions /\ lock = w
    BY <1>3 DEF Begin, LifeInv, LockAgrees, Asked
  <2>2. /\ Phase[op[w].action] \in {"STARTING", "STOPPING", "RELEASING"}
        /\ FirstPlace[op[w].action] \in {"verifying", "checking", "interrupting"}
        /\ held' \subseteq Jobs
    BY <2>1, <1>3 DEF Begin, Phase, FirstPlace, Actions, InEngine
  <2>3. PICK place \in {"verifying", "checking", "interrupting"} :
          op' = [op EXCEPT ![w].at = place]
    BY <2>2, <1>3 DEF Begin, At
  <2>. QED
    BY <1>3, <2>1, <2>2, <2>3, LifecycleAssumption
       DEF Begin, LifeInv, LifecycleTypeOK, OneOperation, LockAgrees, Asked, Working, Busy
<1>4. CASE Fail(w)
  BY <1>4, LifeRecords DEF Fail, LifeInv, LifecycleTypeOK
<1>5. CASE Finish(w)
  BY <1>5, LifeRecords DEF Finish, LifeInv, LifecycleTypeOK, Target, Working
<1>6. CASE Report(w)
  BY <1>6, LifecycleAssumption DEF Report, At, LifeInv, LifecycleTypeOK, OneOperation, LockAgrees, Asked, Working
<1>7. CASE Check(w) \/ Interrupts(w) \/ Clear(w) \/ Drain(w) \/ Halt(w) \/ Halted(w)
             \/ StopBridge(w) \/ Verify(w) \/ StartBridge(w) \/ StartEngine(w)
  <2>1. op[w].at \in Working /\ \E place \in Working : Moves(w, place) /\ blind' \in BOOLEAN
    BY <1>7 DEF Check, Interrupts, Clear, Drain, Halt, Halted, StopBridge, Verify, StartBridge,
                StartEngine, Working, Keeps, LifeInv, LifecycleTypeOK
  <2>. QED
    BY <2>1, LifeKeeps
<1>. QED
  BY <1>1, <1>2, <1>3, <1>4, <1>5, <1>6, <1>7 DEF Operates

LEMMA LifeMishaps ==
  ASSUME LifeInv, Mishaps \/ TimePasses \/ PanelRefuses
  PROVE  LifeInv'
<1>1. CASE PidReused
  BY <1>1, LifecycleAssumption
     DEF PidReused, KeepsPid, Alive, LifeInv, LifecycleTypeOK, OneOperation, LockAgrees, Asked, Working
<1>2. CASE OperationOverdue
  BY <1>2 DEF OperationOverdue, LifeInv, LifecycleTypeOK, OneOperation, LockAgrees, Asked
<1>3. ASSUME NEW w \in Callers, Die(w)
      PROVE  LifeInv'
  BY <1>3, LifecycleAssumption
     DEF Die, Alive, At, LifeInv, LifecycleTypeOK, OneOperation, LockAgrees, Asked, Working
<1>4. CASE PanelReaps
  BY <1>4 DEF PanelReaps, LifeInv, LifecycleTypeOK, OneOperation, LockAgrees, Asked
<1>. QED
  BY <1>1, <1>2, <1>3, <1>4 DEF Mishaps, TimePasses, PanelRefuses

LEMMA LifeStep == LifeInv /\ [Next]_vars => LifeInv'
<1>. SUFFICES ASSUME LifeInv, [Next]_vars
              PROVE  LifeInv'
  OBVIOUS
<1>1. CASE \/ \E j \in Jobs : Acquires(j) \/ JobSteps(j) \/ BridgeServes(j) \/ BridgeObserves(j)
           \/ EngineRuns \/ UNCHANGED vars
  <2>1. UNCHANGED lifecycleVars
    BY <1>1 DEF Acquires, JobSteps, BridgeServes, BridgeObserves, EngineRuns, vars
  <2>. QED
    BY <2>1, LifeUnchanged
<1>2. CASE Launches
  BY <1>2, LifeLaunch DEF Launches
<1>3. CASE \E w \in Callers : OperationSteps(w)
  BY <1>3, LifeOperates DEF OperationSteps
<1>4. CASE Mishaps \/ TimePasses \/ PanelRefuses
  BY <1>4, LifeMishaps
<1>. QED
  BY <1>1, <1>2, <1>3, <1>4 DEF Next

LEMMA LifeAlways == Spec => []LifeInv
BY LifeInit, LifeStep, PTL DEF Spec

\* At most one operation works on the units, and it is the one on record, for every number
\* of them and wherever they die (Manager.operate).
THEOREM OneWorks == Spec => []OneOperation
BY LifeAlways, PTL DEF LifeInv

\* What is shown to be under way is an operation that holds the lock, or a child of the
\* panel's server that died at work and is still to be reaped (Manager.observation).
THEOREM NoGhosts == Spec => []NoGhostOperation
<1>1. LifeInv => NoGhostOperation
  BY DEF LifeInv, LifecycleTypeOK, LockAgrees, OneOperation, NoGhostOperation, Observed, AtWork,
         KeepsPid, Alive, Busy, Working
<1>. QED
  BY <1>1, LifeAlways, PTL

-----------------------------------------------------------------------------
(* Types of the engine, the bridge and the jobs.                           *)

\* An observer writes progress it has a binding for, and one event more at the most.
WatchAgrees ==
  \A j \in Jobs : progress[j].watched =>
    binding[j] # Nobody /\ progress[j].sequence <= MaxEvents[j] + 1

Types == EngineTypeOK /\ BridgeTypeOK /\ JobTypeOK /\ WatchAgrees

LEMMA TypesInit == Init => Types
BY EngineAssumption, BridgeAssumption
   DEF Init, EngineInit, BridgeInit, JobInit, Types, EngineTypeOK, BridgeTypeOK, JobTypeOK,
       WatchAgrees, NoProgress

LEMMA TypesUnchanged == Types /\ UNCHANGED <<engineVars, bridgeVars, jobVars>> => Types'
BY DEF Types, EngineTypeOK, BridgeTypeOK, JobTypeOK, WatchAgrees, engineVars, bridgeVars, jobVars

\* The job's steps touch its place, the lease and its thread.
LEMMA TypesJob ==
  ASSUME Types, NEW j \in Jobs, Acquire(j) \/ JobSteps(j)
  PROVE  Types'
<1>1. /\ pc' \in [Jobs -> {"new", "leased", "ready", "submitting"} \cup Waiting \cup Grace \cup Outcomes]
      /\ lease' \in Jobs \cup {Nobody}
  BY DEF Types, JobTypeOK, BridgeTypeOK, Waiting, Grace, Outcomes, GoesTo, Ends, Acquire, JobSteps,
         CheckReady, Submits, Waits, Recovers, Submit, SubmitAnswered, SubmitTimesOut, ReadsHistory,
         PollHistory, WaitOver, WatchProgress, LookAgain, ProveOwnership, InterruptAnswered,
         InterruptTimesOut, GraceHistory, GraceQueue, GraceOver
<1>2. /\ UNCHANGED <<engineVars, binding, progress, seen>>
      /\ thread' \in [Jobs -> {"idle"} \cup Serving \cup Answered]
  BY DEF Types, BridgeTypeOK, Serving, Thread, bridgeVars, Acquire, JobSteps,
         CheckReady, Submits, Waits, Recovers, Submit, SubmitAnswered, SubmitTimesOut,
         PollHistory, WaitOver, WatchProgress, LookAgain, ProveOwnership, InterruptAnswered,
         InterruptTimesOut, GraceHistory, GraceQueue, GraceOver
<1>. QED
  BY <1>1, <1>2 DEF Types, EngineTypeOK, BridgeTypeOK, JobTypeOK, WatchAgrees, engineVars

ProgressFiles ==
  [event : {"none", "submitted", "node", "terminal"}, sequence : Nat, quiet : BOOLEAN,
   watched : BOOLEAN]

\* A progress file is written within the bounds, and where a binding is.
LEMMA TypesProgress ==
  ASSUME Types, NEW j \in Jobs, NEW fields \in ProgressFiles, Updates(j, fields),
         fields.sequence <= MaxEvents[j] + 2, fields.event # "none",
         binding' \in [Jobs -> Jobs \cup {Nobody}], binding'[j] # Nobody,
         \A i \in Jobs \ {j} : binding'[i] = binding[i],
         fields.watched => fields.sequence <= MaxEvents[j] + 1,
         thread' \in [Jobs -> {"idle"} \cup Serving \cup Answered],
         UNCHANGED <<engineVars, pc, lease, seen>>
  PROVE  Types'
<1>1. EngineTypeOK' /\ JobTypeOK'
  BY DEF Types, EngineTypeOK, JobTypeOK, engineVars
<1>2. /\ progress' \in [Jobs -> ProgressFiles] /\ progress'[j] = fields
      /\ \A i \in Jobs \ {j} : progress'[i] = progress[i]
  BY DEF Types, BridgeTypeOK, Updates, ProgressFiles
<1>3. BridgeTypeOK'
  BY <1>2 DEF Types, BridgeTypeOK, ProgressFiles
<1>4. WatchAgrees'
  BY <1>2 DEF Types, WatchAgrees
<1>. QED
  BY <1>1, <1>3, <1>4 DEF Types

\* What the bridge does.
LEMMA TypesBridge ==
  ASSUME Types, NEW j \in Jobs, Serves(j) \/ Observes(j), pc' = pc
  PROVE  Types'
<1>. USE EngineAssumption, BridgeAssumption
<1>1. CASE Forward(j) \/ FindEvidence(j) \/ ProveExclusive(j) \/ Confirm(j) \/ Interrupt(j)
  <2>1. EngineTypeOK'
    BY <1>1 DEF Types, EngineTypeOK, Forward, FindEvidence, ProveExclusive, Confirm, Interrupt,
                Interrupted, engineVars
  <2>2. thread' \in [Jobs -> {"idle"} \cup Serving \cup Answered] /\ seen' \in [Jobs -> Nat]
    BY <1>1 DEF Types, BridgeTypeOK, Forward, FindEvidence, ProveExclusive, Confirm, Interrupt,
                Thread, Serving, Answered
  <2>3. UNCHANGED <<binding, progress, lease>>
    BY <1>1 DEF Forward, FindEvidence, ProveExclusive, Confirm, Interrupt
  <2>. QED
    BY <2>1, <2>2, <2>3 DEF Types, BridgeTypeOK, JobTypeOK, WatchAgrees
<1>2. CASE Bind(j)
  <2>1. EngineTypeOK'
    BY <1>2 DEF Types, EngineTypeOK, Bind, Interrupted
  <2>2. thread' \in [Jobs -> {"idle"} \cup Serving \cup Answered]
    BY <1>2 DEF Types, BridgeTypeOK, Bind, Thread, Serving, Answered
  <2>3. CASE lease = Nobody
    BY <1>2, <2>1, <2>2, <2>3 DEF Bind, Types, BridgeTypeOK, JobTypeOK, WatchAgrees
  <2>4. CASE lease # Nobody
    <3>1. Updates(j, Submitted) /\ UNCHANGED <<engineVars, pc, lease, seen>>
      BY <1>2, <2>4 DEF Bind, engineVars
    <3>2. /\ Submitted \in ProgressFiles /\ Submitted.event # "none"
          /\ Submitted.sequence <= MaxEvents[j] + 1 /\ Submitted.sequence <= MaxEvents[j] + 2
      BY DEF Submitted, ProgressFiles
    <3>3. /\ binding' \in [Jobs -> Jobs \cup {Nobody}] /\ binding'[j] # Nobody
          /\ \A i \in Jobs \ {j} : binding'[i] = binding[i]
      BY <1>2, <2>4 DEF Bind, Types, BridgeTypeOK
    <3>. QED
      BY <2>2, <3>1, <3>2, <3>3, TypesProgress
  <2>. QED
    BY <2>3, <2>4
<1>3. CASE Observes(j)
  <2>1. /\ progress[j] \in ProgressFiles /\ MaxEvents[j] \in Nat
        /\ progress[j].sequence <= MaxEvents[j] + 2
        /\ progress[j].event = "none" <=> binding[j] = Nobody
        /\ progress[j].watched => binding[j] # Nobody /\ progress[j].sequence <= MaxEvents[j] + 1
    BY DEF Types, BridgeTypeOK, WatchAgrees, ProgressFiles
  <2>2. UNCHANGED <<engineVars, pc, lease, seen, binding, thread>>
    BY <1>3 DEF Observes, ObserverSees, ObserverEnds, ObserverStops, Silence
  <2>3. ASSUME NEW fields \in ProgressFiles, Updates(j, fields), fields.event # "none",
               binding[j] # Nobody, fields.sequence <= MaxEvents[j] + 2,
               fields.watched => fields.sequence <= MaxEvents[j] + 1
        PROVE  Types'
    <3>1. /\ binding' \in [Jobs -> Jobs \cup {Nobody}]
          /\ thread' \in [Jobs -> {"idle"} \cup Serving \cup Answered]
      BY <2>2 DEF Types, BridgeTypeOK
    <3>. QED
      BY <2>2, <2>3, <3>1, TypesProgress
  <2> DEFINE node == [event |-> "node", sequence |-> progress[j].sequence + 1,
                      quiet |-> FALSE, watched |-> TRUE]
             ended == [event |-> "terminal", sequence |-> progress[j].sequence + 1,
                       quiet |-> FALSE, watched |-> FALSE]
             alone == [progress[j] EXCEPT !.watched = FALSE]
             quiet == [progress[j] EXCEPT !.quiet = TRUE]
  <2>4. /\ alone.event = progress[j].event /\ alone.sequence = progress[j].sequence
        /\ alone.watched = FALSE
        /\ quiet.event = progress[j].event /\ quiet.sequence = progress[j].sequence
        /\ quiet.watched = progress[j].watched
    BY <2>1 DEF ProgressFiles
  <2>5. /\ node \in ProgressFiles /\ ended \in ProgressFiles
        /\ alone \in ProgressFiles /\ quiet \in ProgressFiles
    <3>1. node \in ProgressFiles /\ ended \in ProgressFiles
      BY <2>1 DEF ProgressFiles
    <3>2. alone \in ProgressFiles
      BY <2>1 DEF ProgressFiles
    <3>3. quiet \in ProgressFiles
      BY <2>1 DEF ProgressFiles
    <3>. QED
      BY <3>1, <3>2, <3>3
  <2>6. CASE ObserverSees(j)
    <3>1. Updates(j, node) /\ progress[j].watched /\ progress[j].sequence <= MaxEvents[j]
      BY <2>6 DEF ObserverSees
    <3>2. node.sequence <= MaxEvents[j] + 1 /\ node.sequence <= MaxEvents[j] + 2
      BY <2>1, <3>1 DEF ProgressFiles
    <3>. QED
      BY <2>1, <2>3, <2>5, <3>1, <3>2
  <2>7. CASE ObserverEnds(j)
    <3>1. Updates(j, ended) /\ progress[j].watched
      BY <2>7 DEF ObserverEnds
    <3>2. ended.sequence <= MaxEvents[j] + 2
      BY <2>1, <3>1 DEF ProgressFiles
    <3>. QED
      BY <2>1, <2>3, <2>5, <3>1, <3>2
  <2>8. CASE ObserverStops(j)
    <3>1. Updates(j, alone) /\ progress[j].watched
      BY <2>8 DEF ObserverStops
    <3>. QED
      BY <2>1, <2>3, <2>4, <2>5, <3>1
  <2>9. CASE Silence(j)
    <3>1. Updates(j, quiet) /\ progress[j].event = "node"
      BY <2>9 DEF Silence
    <3>. QED
      BY <2>1, <2>3, <2>4, <2>5, <3>1
  <2>. QED
    BY <1>3, <2>6, <2>7, <2>8, <2>9 DEF Observes
<1>. QED
  BY <1>1, <1>2, <1>3 DEF Serves

LEMMA TypesEngine ==
  ASSUME Types, EngineRuns
  PROVE  Types'
BY DEF Types, EngineTypeOK, BridgeTypeOK, JobTypeOK, WatchAgrees, EngineRuns, EngineStops,
       EngineStarts, EngineEnds, bridgeVars, jobVars

LEMMA TypesOperation ==
  ASSUME Types, NEW w \in Callers, OperationSteps(w)
  PROVE  Types'
<1>. USE DEF Types, EngineTypeOK, BridgeTypeOK, JobTypeOK, WatchAgrees
<1>1. CASE StopBridge(w) /\ BridgeEnds /\ UNCHANGED jobVars
  BY <1>1 DEF StopBridge, BridgeEnds, jobVars, Serving, Answered
<1>2. CASE Operates(w) /\ UNCHANGED <<bridgeVars, jobVars>>
  <2>1. EngineTypeOK'
    BY <1>2 DEF Operates, TakeLock, NothingToDo, Begin, Fail, Finish, Report, Check, Interrupts,
                Clear, Drain, Halt, Halted, Verify, StartBridge, StartEngine, engineVars
  <2>. QED
    BY <1>2, <2>1 DEF bridgeVars, jobVars
<1>. QED
  BY <1>1, <1>2 DEF OperationSteps

LEMMA TypesStep == Types /\ [Next]_vars => Types'
<1>. SUFFICES ASSUME Types, [Next]_vars
              PROVE  Types'
  OBVIOUS
<1>1. ASSUME NEW j \in Jobs, Acquires(j) \/ JobSteps(j) \/ BridgeServes(j) \/ BridgeObserves(j)
      PROVE  Types'
  BY <1>1, TypesJob, TypesBridge DEF Acquires, BridgeServes, BridgeObserves
<1>2. CASE UNCHANGED <<engineVars, bridgeVars, jobVars>>
  BY <1>2, TypesUnchanged
<1>3. Launches \/ PanelRefuses \/ TimePasses \/ Mishaps \/ UNCHANGED vars
      => UNCHANGED <<engineVars, bridgeVars, jobVars>>
  BY DEF Launches, Starts, Launch, PanelLaunches, Begins, PanelRefuses, PanelReaps, TimePasses,
         OperationOverdue, Mishaps, PidReused, Die, vars
<1>. QED
  BY <1>1, <1>2, <1>3, TypesEngine, TypesOperation DEF Next

\* Every variable keeps its type, the sequence numbers of the progress within their bound
\* and a progress file beside every binding.
THEOREM TypesCorrect == Spec => []TypeOK
<1>1. Types /\ LifeInv => TypeOK
  BY DEF Types, LifeInv, TypeOK
<1>. QED
  BY <1>1, TypesInit, TypesStep, LifeAlways, PTL DEF Spec

-----------------------------------------------------------------------------
(* What a job tells of its end.                                            *)

Fresh == {"new", "leased", "ready"}
Asking == {"waiting", "watching", "recovering", "proving", "unproven"}

Struck(j) == j \in interrupts

\* Nobody acts for a job that has not submitted or that only reads, and nothing of its
\* was interrupted; a prompt is submitted once.
BeforeStrike(j) ==
  /\ pc[j] \in Fresh \cup Asking => thread[j] = "idle" /\ ~Struck(j)
  /\ pc[j] \in Fresh \/ thread[j] = "forwarding" => prompt[j] = "none"

\* What the thread of a request that acts has come to, and whether it has struck.
AtStrike(j) ==
  /\ pc[j] = "submitting" =>
       /\ thread[j] \in {"forwarding", "binding", "bound", "refused", "rejected"}
       /\ Struck(j) => thread[j] = "refused"
  /\ pc[j] = "interrupting" =>
       /\ thread[j] \in {"asked", "evidence", "exclusive", "confirmed"} \cup Answered
       /\ thread[j] \notin {"bound", "refused"}
       /\ Struck(j) => thread[j] \in {"accepted", "rejected"}

\* A prompt a job has seen to run is not in the queue again.
AfterStrike(j) ==
  /\ pc[j] \in Grace \cup {"recovered", "completed"} => thread[j] = "idle"
  /\ pc[j] \in Grace \cup {"interrupting"} => prompt[j] \notin {"none", "queued"}
  /\ pc[j] = "recovered" => prompt[j] \in {"image", "error", "lost"}
  /\ pc[j] = "completed" => prompt[j] \in {"image", "lost"}

Flow(j) == BeforeStrike(j) /\ AtStrike(j) /\ AfterStrike(j)

FlowInv == \A j \in Jobs : Flow(j)

LEMMA FlowInit == Init => FlowInv
BY DEF Init, EngineInit, BridgeInit, JobInit, FlowInv, Flow, BeforeStrike, AtStrike,
       AfterStrike, Fresh, Asking, Grace, Struck

\* Steps of others leave a job's flow as it is.
LEMMA FlowFrame ==
  ASSUME NEW j \in Jobs, Flow(j), pc'[j] = pc[j], thread'[j] = thread[j], prompt'[j] = prompt[j],
         Struck(j)' <=> Struck(j)
  PROVE  Flow(j)'
BY DEF Flow, BeforeStrike, AtStrike, AfterStrike

LEMMA FlowJob ==
  ASSUME Types, FlowInv, NEW j \in Jobs, Acquire(j) \/ JobSteps(j)
  PROVE  FlowInv'
<1>. USE DEF Flow, BeforeStrike, AtStrike, AfterStrike, Fresh, Asking, Grace
<1>1. UNCHANGED <<prompt, interrupts>>
  BY DEF Acquire, JobSteps, CheckReady, Submits, Waits, Recovers, Submit, SubmitAnswered,
         SubmitTimesOut, PollHistory, WaitOver, WatchProgress, LookAgain, ProveOwnership,
         InterruptAnswered, InterruptTimesOut, GraceHistory, GraceQueue, GraceOver, engineVars
<1>2. \A k \in Jobs : Struck(k)' <=> Struck(k)
  BY <1>1 DEF Struck
<1>3. ASSUME NEW k \in Jobs, k # j
      PROVE  Flow(k)'
  <2>1. pc'[k] = pc[k] /\ thread'[k] = thread[k]
    BY <1>3 DEF Types, JobTypeOK, BridgeTypeOK, GoesTo, Ends, Thread, Acquire, JobSteps,
         CheckReady, Submits, Waits, Recovers, Submit, SubmitAnswered, SubmitTimesOut,
         ReadsHistory, PollHistory, WaitOver, WatchProgress, LookAgain, ProveOwnership,
         InterruptAnswered, InterruptTimesOut, GraceHistory, GraceQueue, GraceOver, bridgeVars
  <2>. QED
    BY <1>1, <1>2, <2>1, FlowFrame DEF FlowInv
<1>4. Flow(j) /\ (Struck(j)' <=> Struck(j)) /\ prompt'[j] = prompt[j]
  BY <1>1, <1>2 DEF FlowInv
<1>5. pc \in [Jobs -> {"new", "leased", "ready", "submitting"} \cup Waiting \cup Grace \cup Outcomes]
      /\ thread \in [Jobs -> {"idle"} \cup Serving \cup Answered]
  BY DEF Types, JobTypeOK, BridgeTypeOK
<1>6. Flow(j)'
  <2>1. CASE Acquire(j) \/ CheckReady(j)
    BY <1>4, <1>5, <2>1 DEF Acquire, CheckReady, GoesTo, Ends, bridgeVars
  <2>2. CASE Submit(j)
    BY <1>4, <1>5, <2>2 DEF Submit, GoesTo, Ends, Thread
  <2>3. CASE SubmitAnswered(j) \/ SubmitTimesOut(j)
    BY <1>4, <1>5, <2>3 DEF SubmitAnswered, SubmitTimesOut, GoesTo, Ends, Thread, bridgeVars
  <2>4. CASE PollHistory(j) \/ LookAgain(j)
    BY <1>4, <1>5, <2>4 DEF PollHistory, LookAgain, ReadsHistory, GoesTo, Ends, bridgeVars
  <2>5. CASE WaitOver(j) \/ WatchProgress(j)
    BY <1>4, <1>5, <2>5 DEF WaitOver, WatchProgress, GoesTo, Ends, bridgeVars
  <2>6. CASE ProveOwnership(j)
    <3>1. Running = {j} => prompt[j] = "running"
      BY DEF Running
    <3>. QED
      BY <1>4, <1>5, <2>6, <3>1 DEF ProveOwnership, GoesTo, Ends, Thread
  <2>7. CASE InterruptAnswered(j) \/ InterruptTimesOut(j)
    BY <1>4, <1>5, <2>7
       DEF InterruptAnswered, InterruptTimesOut, GoesTo, Ends, Thread, Answered, bridgeVars
  <2>8. CASE GraceHistory(j) \/ GraceOver(j)
    BY <1>4, <1>5, <2>8 DEF GraceHistory, GraceOver, GoesTo, Ends, bridgeVars
  <2>9. CASE GraceQueue(j)
    BY <1>4, <1>5, <2>9 DEF GraceQueue, GoesTo, Ends, bridgeVars, Types, EngineTypeOK
  <2>. QED
    BY <2>1, <2>2, <2>3, <2>4, <2>5, <2>6, <2>7, <2>8, <2>9
       DEF JobSteps, Submits, Waits, Recovers
<1>. QED
  BY <1>1, <1>3, <1>6 DEF FlowInv

LEMMA FlowBridge ==
  ASSUME Types, FlowInv, NEW j \in Jobs, Serves(j) \/ Observes(j), pc' = pc
  PROVE  FlowInv'
<1>1. interrupts' = interrupts \/ interrupts' = interrupts \cup {j}
  BY DEF Serves, Observes, Forward, Bind, FindEvidence, ProveExclusive, Confirm, Interrupt,
         ObserverSees, ObserverEnds, ObserverStops, Silence, Interrupted, engineVars
<1>2. ASSUME NEW k \in Jobs, k # j
      PROVE  Flow(k)'
  <2>1. thread'[k] = thread[k] /\ prompt'[k] = prompt[k]
    BY <1>2 DEF Types, BridgeTypeOK, EngineTypeOK, Thread, Serves, Observes, Forward, Bind,
         FindEvidence, ProveExclusive, Confirm, Interrupt, ObserverSees, ObserverEnds,
         ObserverStops, Silence, engineVars
  <2>2. Struck(k)' <=> Struck(k)
    BY <1>1, <1>2 DEF Struck
  <2>. QED
    BY <2>1, <2>2, FlowFrame DEF FlowInv
<1>3. Flow(j)'
  <2>. USE DEF Flow, BeforeStrike, AtStrike, AfterStrike, Fresh, Asking, Grace, Types, BridgeTypeOK, Struck
  <2>1. Flow(j)
    BY DEF FlowInv
  <2>2. CASE Forward(j)
    BY <2>1, <2>2 DEF Forward, Thread, EngineTypeOK
  <2>3. CASE Bind(j)
    <3>1. /\ thread[j] = "binding" /\ prompt' = prompt
          /\ \/ thread'[j] = "refused"
             \/ thread'[j] = "bound" /\ interrupts' = interrupts
      BY <2>3 DEF Bind, Thread
    <3>. QED
      BY <2>1, <3>1 DEF Answered
  <2>4. CASE FindEvidence(j) \/ ProveExclusive(j) \/ Confirm(j)
    BY <2>1, <2>4 DEF FindEvidence, ProveExclusive, Confirm, Thread, engineVars, Answered
  <2>5. CASE Interrupt(j)
    BY <1>1, <2>1, <2>5 DEF Interrupt, Thread, Answered
  <2>6. CASE Observes(j)
    BY <2>1, <2>6 DEF Observes, ObserverSees, ObserverEnds, ObserverStops, Silence, engineVars
  <2>. QED
    BY <2>2, <2>3, <2>4, <2>5, <2>6 DEF Serves
<1>. QED
  BY <1>2, <1>3 DEF FlowInv

LEMMA FlowEngine ==
  ASSUME Types, FlowInv, EngineRuns
  PROVE  FlowInv'
<1>1. UNCHANGED <<pc, thread, interrupts>>
  BY DEF EngineRuns, EngineStops, EngineStarts, EngineEnds, bridgeVars, jobVars
<1>2. ASSUME NEW j \in Jobs
      PROVE  \/ prompt'[j] = prompt[j]
             \/ prompt[j] \in {"queued", "running"} /\ prompt'[j] \in {"running", "image", "error"}
             \/ prompt[j] # "none" /\ prompt'[j] = "lost"
  BY DEF EngineRuns, EngineStops, EngineStarts, EngineEnds, Types, EngineTypeOK
<1>3. ASSUME NEW j \in Jobs
      PROVE  Flow(j)'
  BY <1>1, <1>2 DEF FlowInv, Flow, BeforeStrike, AtStrike, AfterStrike, Grace, Struck
<1>. QED
  BY <1>1, <1>3 DEF FlowInv

LEMMA FlowOperation ==
  ASSUME Types, FlowInv, NEW w \in Callers, OperationSteps(w)
  PROVE  FlowInv'
<1>1. UNCHANGED <<pc, interrupts>>
  BY DEF OperationSteps, Operates, StopBridge, TakeLock, NothingToDo, Begin, Fail, Finish, Report,
         Check, Interrupts, Clear, Drain, Halt, Halted, Verify, StartBridge, StartEngine,
         engineVars, jobVars
<1>2. ASSUME NEW j \in Jobs
      PROVE  prompt'[j] = prompt[j] \/ (prompt[j] = "queued" /\ prompt'[j] = "lost")
  <2>1. CASE Clear(w)
    BY <2>1 DEF Clear
  <2>2. CASE ~Clear(w)
    <3>1. prompt' = prompt
      BY <2>2 DEF OperationSteps, Operates, StopBridge, TakeLock, NothingToDo, Begin, Fail, Finish,
             Report, Check, Interrupts, Drain, Halt, Halted, Verify, StartBridge, StartEngine,
             engineVars
    <3>. QED
      BY <3>1
  <2>. QED
    BY <2>1, <2>2
<1>3. ASSUME NEW j \in Jobs
      PROVE  thread'[j] = thread[j] \/ (thread[j] \in Serving /\ thread'[j] = "rejected")
  <2>1. CASE BridgeEnds
    BY <2>1 DEF BridgeEnds
  <2>2. CASE UNCHANGED bridgeVars
    BY <2>2 DEF bridgeVars
  <2>. QED
    BY <2>1, <2>2 DEF OperationSteps
<1>4. ASSUME NEW j \in Jobs
      PROVE  Flow(j)'
  BY <1>1, <1>2, <1>3
     DEF FlowInv, Flow, BeforeStrike, AtStrike, AfterStrike, Grace, Struck, Serving, Answered
<1>. QED
  BY <1>1, <1>4 DEF FlowInv

LEMMA FlowStep == Types /\ FlowInv /\ [Next]_vars => FlowInv'
<1>. SUFFICES ASSUME Types, FlowInv, [Next]_vars
              PROVE  FlowInv'
  OBVIOUS
<1>1. ASSUME NEW j \in Jobs, Acquires(j) \/ JobSteps(j) \/ BridgeServes(j) \/ BridgeObserves(j)
      PROVE  FlowInv'
  BY <1>1, FlowJob, FlowBridge DEF Acquires, BridgeServes, BridgeObserves, Observes,
     ObserverSees, ObserverEnds, ObserverStops, Silence
<1>2. CASE Launches \/ PanelRefuses \/ TimePasses \/ Mishaps \/ UNCHANGED vars
  <2>1. UNCHANGED <<pc, thread, prompt, interrupts>>
    BY <1>2 DEF Launches, Starts, Launch, PanelLaunches, Begins, PanelRefuses, PanelReaps,
                TimePasses, OperationOverdue, Mishaps, PidReused, Die, vars, engineVars,
                bridgeVars, jobVars
  <2>. QED
    BY <2>1 DEF FlowInv, Flow, BeforeStrike, AtStrike, AfterStrike, Struck
<1>. QED
  BY <1>1, <1>2, FlowEngine, FlowOperation DEF Next

LEMMA FlowAlways == Spec => []FlowInv
BY TypesInit, TypesStep, FlowInit, FlowStep, PTL DEF Spec

\* What a job reports of its end is true of the engine: it never says that the lane is
\* free while its prompt is there, nor that nothing was interrupted where it was
\* (exactPromptRecovery).
THEOREM OutcomesTrue == Spec => []OutcomeIsTrue
<1>1. FlowInv => OutcomeIsTrue
  BY DEF FlowInv, Flow, BeforeStrike, AfterStrike, Asking, Struck, InEngine, OutcomeIsTrue
<1>. QED
  BY <1>1, FlowAlways, PTL

-----------------------------------------------------------------------------
(* What a release leaves.                                                  *)

\* Queue and history are memory of the engine, and what a release remembers was submitted.
MemoryAgrees ==
  /\ engine = "off" => InEngine = {}
  /\ \A j \in held : prompt[j] # "none"

\* Past the point where it has made sure of it, an operation leaves none of what it
\* remembers unless it did not see, and only a release remembers any.
FreedAfter == {"verifying", "unbridging", "bridging", "starting", "finishing"}

OperationFrees ==
  \A w \in Callers :
    /\ op[w].at \in Working /\ op[w].action # "release" => held = {}
    /\ op[w].at \in FreedAfter /\ ~blind => held \cap InEngine = {}

FreeInv == MemoryAgrees /\ OperationFrees /\ ReleaseFreesSeen

LEMMA FreeInit == Init => FreeInv
BY DEF Init, EngineInit, LifecycleInit, FreeInv, MemoryAgrees, OperationFrees, ReleaseFreesSeen,
       InEngine, Working, FreedAfter

\* What no operation does keeps it, unless a prompt a release remembers comes back.
LEMMA FreeKept ==
  ASSUME FreeInv, UNCHANGED <<op, held, blind>>, file' = file \/ file'.state = file.state,
         held \cap InEngine' \subseteq InEngine, engine' = "off" => InEngine' = {},
         \A j \in held : prompt'[j] # "none"
  PROVE  FreeInv'
BY DEF FreeInv, MemoryAgrees, OperationFrees, ReleaseFreesSeen

LEMMA FreeJobs ==
  ASSUME Types, FlowInv, LifeInv, FreeInv,
         NEW j \in Jobs, Acquires(j) \/ JobSteps(j) \/ BridgeServes(j) \/ BridgeObserves(j)
  PROVE  FreeInv'
<1>1. UNCHANGED <<engine, lifecycleVars>>
  BY DEF Acquires, Acquire, JobSteps, CheckReady, Submits, Waits, Recovers, Submit, SubmitAnswered,
         SubmitTimesOut, PollHistory, WaitOver, WatchProgress, LookAgain, ProveOwnership,
         InterruptAnswered, InterruptTimesOut, GraceHistory, GraceQueue, GraceOver, BridgeServes,
         Serves, Forward, Bind, FindEvidence, ProveExclusive, Confirm, Interrupt, BridgeObserves,
         Observes, ObserverSees, ObserverEnds, ObserverStops, Silence, engineVars
<1>2. CASE prompt' = prompt
  BY <1>1, <1>2, FreeKept DEF lifecycleVars, InEngine, FreeInv, MemoryAgrees
<1>3. CASE prompt' # prompt
  <2>1. Forward(j) /\ engine # "off" /\ prompt' = [prompt EXCEPT ![j] = "queued"]
    BY <1>3 DEF Acquires, Acquire, JobSteps, CheckReady, Submits, Waits, Recovers, Submit,
         SubmitAnswered, SubmitTimesOut, PollHistory, WaitOver, WatchProgress, LookAgain,
         ProveOwnership, InterruptAnswered, InterruptTimesOut, GraceHistory, GraceQueue, GraceOver,
         BridgeServes, Serves, Forward, Bind, FindEvidence, ProveExclusive, Confirm, Interrupt,
         BridgeObserves, Observes, ObserverSees, ObserverEnds, ObserverStops, Silence, engineVars,
         Answers
  <2>2. j \notin held
    BY <2>1 DEF Forward, FlowInv, Flow, BeforeStrike, FreeInv, MemoryAgrees
  <2>3. \A i \in held : prompt'[i] = prompt[i]
    BY <2>1, <2>2 DEF LifeInv, LifecycleTypeOK, Types, EngineTypeOK
  <2>4. held \cap InEngine' \subseteq InEngine
    BY <2>3 DEF InEngine
  <2>. QED
    BY <1>1, <2>1, <2>3, <2>4, FreeKept DEF lifecycleVars, FreeInv, MemoryAgrees
<1>. QED
  BY <1>2, <1>3

LEMMA FreeEngine ==
  ASSUME Types, LifeInv, FreeInv, EngineRuns
  PROVE  FreeInv'
<1>1. UNCHANGED lifecycleVars /\ (engine' = engine \/ engine' = "off")
  BY DEF EngineRuns, EngineStops, EngineStarts, EngineEnds
<1>2. ASSUME NEW j \in Jobs
      PROVE  /\ prompt'[j] \in {"queued", "running"} => prompt[j] \in {"queued", "running"} /\ engine' # "off"
             /\ prompt[j] # "none" => prompt'[j] # "none"
  BY DEF EngineRuns, EngineStops, EngineStarts, EngineEnds, Types, EngineTypeOK, Answers, FreeInv,
         MemoryAgrees, InEngine
<1>3. InEngine' \subseteq InEngine /\ (engine' = "off" => InEngine' = {})
  BY <1>2 DEF InEngine
<1>. QED
  BY <1>1, <1>2, <1>3, FreeKept DEF lifecycleVars, FreeInv, MemoryAgrees, LifeInv, LifecycleTypeOK

\* One at work or about to be knows that no other is.
LEMMA WorksAlone ==
  ASSUME LifeInv, NEW w \in Callers, op[w].at \in Working \cup {"locked"},
         NEW v \in Callers, v # w
  PROVE  op[v].at \notin Working
BY DEF LifeInv, OneOperation, LockAgrees

\* A step of the work keeps it when its next place does.
LEMMA FreeWorks ==
  ASSUME LifeInv, FreeInv, NEW w \in Callers, op[w].at \in Working, NEW place, Moves(w, place),
         InEngine' \subseteq InEngine, engine' = "off" => engine = "off",
         \A j \in held : prompt'[j] # "none",
         blind => blind', place \in FreedAfter /\ ~blind' => held \cap InEngine' = {}
  PROVE  FreeInv'
<1>1. file' = file /\ held' = held /\ op'[w].at = place /\ op'[w].action = op[w].action
  BY DEF Moves, At, LifeInv, LifecycleTypeOK
<1>2. \A v \in Callers \ {w} : op'[v] = op[v] /\ op[v].at \notin Working
  BY WorksAlone DEF Moves, At, LifeInv, LifecycleTypeOK
<1>3. FreedAfter \subseteq Working
  BY DEF FreedAfter, Working
<1>4. OperationFrees'
  BY <1>1, <1>2, <1>3 DEF FreeInv, OperationFrees
<1>. QED
  BY <1>1, <1>4 DEF FreeInv, MemoryAgrees, ReleaseFreesSeen

LEMMA FreeOperation ==
  ASSUME Types, LifeInv, FreeInv, NEW w \in Callers, Operates(w) \/ StopBridge(w)
  PROVE  FreeInv'
<1>. USE DEF MemoryAgrees, OperationFrees, ReleaseFreesSeen
<1>0. op \in [Callers -> [action : Actions \cup {"none"},
                          at : Working \cup {"new", "launched", "locked", "reporting", "done", "dead"}]]
  BY DEF LifeInv, LifecycleTypeOK
<1>1. CASE TakeLock(w) \/ Report(w)
  <2>1. /\ UNCHANGED <<file, held, blind, engine, prompt>>
        /\ \A v \in Callers \ {w} : op'[v] = op[v]
        /\ op'[w].at \notin Working \cup FreedAfter
    BY <1>0, <1>1 DEF TakeLock, Report, At, engineVars, Working, FreedAfter
  <2>. QED
    BY <2>1 DEF FreeInv, InEngine
<1>2. CASE NothingToDo(w) \/ Begin(w)
  <2>1. op[w].at = "locked" /\ op[w].action \in Actions
    BY <1>2 DEF NothingToDo, Begin, LifeInv, Asked
  <2>2. UNCHANGED <<engine, prompt>>
    BY <1>2 DEF NothingToDo, Begin, engineVars
  <2>3. \A v \in Callers \ {w} : op'[v] = op[v] /\ op[v].at \notin Working
    BY <1>0, <1>2, <2>1, WorksAlone DEF NothingToDo, Begin, At
  <2>4. CASE NothingToDo(w)
    <3>1. held' = {} /\ op'[w].at = "reporting"
      BY <1>0, <2>4 DEF NothingToDo, At
    <3>. QED
      BY <2>2, <2>3, <3>1 DEF FreeInv, InEngine, Working, FreedAfter
  <2>5. CASE Begin(w)
    <3>1. op'[w].action = op[w].action /\ op'[w].at = FirstPlace[op[w].action]
      BY <1>0, <2>5 DEF Begin, At
    <3>2. /\ op[w].action = "release" => op'[w].at \notin FreedAfter
          /\ op[w].action # "release" => held' = {}
          /\ held' \subseteq InEngine
          /\ file'.state # "READY"
      BY <2>1, <2>5, <3>1 DEF Begin, FirstPlace, Phase, Actions, FreedAfter
    <3>3. \A v \in Callers \ {w} : op'[v].at \notin Working \cup FreedAfter
      BY <2>3 DEF Working, FreedAfter
    <3>4. MemoryAgrees'
      BY <2>2, <3>2 DEF FreeInv, InEngine
    <3>5. OperationFrees'
      BY <3>1, <3>2, <3>3
    <3>. QED
      BY <3>2, <3>4, <3>5 DEF FreeInv
  <2>. QED
    BY <1>2, <2>4, <2>5
<1>3. CASE Fail(w) \/ Finish(w)
  <2>1. /\ UNCHANGED <<held, blind, engine, prompt>> /\ op'[w].at = "reporting"
        /\ \A v \in Callers \ {w} : op'[v] = op[v]
        /\ file'.state = "READY" => op[w].at = "finishing"
    BY <1>0, <1>3 DEF Fail, Finish, Records, At, engineVars
  <2>. QED
    BY <2>1 DEF FreeInv, InEngine, Working, FreedAfter
<1>4. CASE \/ Check(w) \/ Interrupts(w) \/ Drain(w) \/ Halted(w) \/ StopBridge(w) \/ Verify(w)
           \/ StartBridge(w)
  <2>1. PICK place \in Working :
          /\ op[w].at \in Working /\ Moves(w, place) /\ (blind => blind')
          /\ place \in FreedAfter /\ ~blind' => held \cap InEngine = {}
    <3>1. CASE Check(w)
      BY <3>1 DEF Check, Keeps, Working, FreedAfter
    <3>2. CASE Interrupts(w) \/ Drain(w)
      <4>1. CASE \E place \in Working \ FreedAfter : Keeps(w, place)
        BY <3>2, <4>1 DEF Interrupts, Drain, Keeps, Working
      <4>2. CASE Moves(w, "verifying") /\ blind' = (blind \/ InEngine # {})
        <5>1. blind => blind'
          BY <4>2
        <5>2. ~blind' => held \cap InEngine = {}
          BY <4>2
        <5>. QED
          BY <3>2, <4>2, <5>1, <5>2 DEF Interrupts, Drain, Working
      <4>. QED
        BY <3>2, <4>1, <4>2 DEF Interrupts, Drain, Working, FreedAfter, Keeps
    <3>3. CASE Halted(w)
      BY <3>3 DEF Halted, Keeps, Working, FreedAfter, FreeInv
    <3>4. CASE StopBridge(w) \/ Verify(w) \/ StartBridge(w)
      BY <3>4 DEF StopBridge, Verify, StartBridge, Keeps, Working, FreedAfter, FreeInv
    <3>. QED
      BY <1>4, <3>1, <3>2, <3>3, <3>4
  <2>2. UNCHANGED <<engine, prompt>>
    BY <1>4 DEF Check, Interrupts, Drain, Halted, StopBridge, Verify, StartBridge, engineVars
  <2>3. InEngine' = InEngine
    BY <2>2 DEF InEngine
  <2>. QED
    BY <2>1, <2>2, <2>3, FreeWorks DEF FreeInv
<1>5. CASE Clear(w)
  <2>1. \A j \in Jobs : prompt'[j] = prompt[j] \/ (prompt[j] = "queued" /\ prompt'[j] = "lost")
    BY <1>5 DEF Clear
  <2>2. InEngine' \subseteq InEngine /\ \A j \in held : prompt'[j] # "none"
    BY <2>1 DEF InEngine, FreeInv, LifeInv, LifecycleTypeOK
  <2>3. op[w].at \in Working /\ Moves(w, "draining") /\ blind' = blind /\ engine' = engine
        /\ "draining" \notin FreedAfter
    BY <1>5 DEF Clear, Keeps, Working, FreedAfter
  <2>. QED
    BY <2>2, <2>3, FreeWorks
<1>6. CASE Halt(w) \/ StartEngine(w)
  <2>1. prompt' = prompt /\ (engine' = "off" => engine = "off")
    BY <1>6 DEF Halt, StartEngine
  <2>2. InEngine' = InEngine
    BY <2>1 DEF InEngine
  <2>3. CASE Halt(w)
    <3>1. op[w].at \in Working /\ Moves(w, "halted") /\ blind' = blind /\ "halted" \notin FreedAfter
      BY <2>3 DEF Halt, Keeps, Working, FreedAfter
    <3>. QED
      BY <2>1, <2>2, <3>1, FreeWorks DEF FreeInv
  <2>4. CASE StartEngine(w)
    <3>1. op[w].at \in Working /\ Moves(w, "finishing") /\ blind' = blind
          /\ (~blind => held \cap InEngine = {})
      BY <2>4 DEF StartEngine, Keeps, Working, FreedAfter, FreeInv
    <3>. QED
      BY <2>1, <2>2, <3>1, FreeWorks DEF FreeInv
  <2>. QED
    BY <1>6, <2>3, <2>4
<1>. QED
  BY <1>1, <1>2, <1>3, <1>4, <1>5, <1>6 DEF Operates

LEMMA FreeOthers ==
  ASSUME LifeInv, FreeInv, Launches \/ PanelRefuses \/ TimePasses \/ Mishaps
  PROVE  FreeInv'
<1>1. UNCHANGED <<engine, prompt, held, blind>> /\ file'.state = file.state
  BY DEF Launches, Starts, Launch, PanelLaunches, Begins, PanelRefuses, PanelReaps, TimePasses,
         OperationOverdue, Mishaps, PidReused, Die, engineVars, LifeInv, LifecycleTypeOK
<1>2. ASSUME NEW w \in Callers
      PROVE  op'[w] = op[w] \/ op'[w].at \in {"launched", "dead"}
  BY DEF Launches, Starts, Launch, PanelLaunches, Begins, PanelRefuses, PanelReaps, TimePasses,
         OperationOverdue, Mishaps, PidReused, Die, At, LifeInv, LifecycleTypeOK
<1>. QED
  BY <1>1, <1>2 DEF FreeInv, MemoryAgrees, OperationFrees, ReleaseFreesSeen, InEngine, Working, FreedAfter

LEMMA FreeStep == Types /\ LifeInv /\ FlowInv /\ FreeInv /\ [Next]_vars => FreeInv'
<1>. SUFFICES ASSUME Types, LifeInv, FlowInv, FreeInv, [Next]_vars
              PROVE  FreeInv'
  OBVIOUS
<1>1. CASE UNCHANGED vars
  BY <1>1 DEF vars, lifecycleVars, engineVars, FreeInv, MemoryAgrees, OperationFrees, ReleaseFreesSeen,
              InEngine
<1>. QED
  BY <1>1, FreeJobs, FreeEngine, FreeOperation, FreeOthers DEF Next, OperationSteps

\* A release that ends READY, and that took no probe without an answer for an idle engine,
\* has rid the engine of what it had when it began, and nothing of that comes back, whatever
\* jobs and operations meet (host_release).
THEOREM ReleasesFree == Spec => []ReleaseFreesSeen
<1>1. Spec => []FreeInv
  BY TypesInit, TypesStep, LifeInit, LifeStep, FlowInit, FlowStep, FreeInit, FreeStep, PTL DEF Spec
<1>2. FreeInv => ReleaseFreesSeen
  BY DEF FreeInv
<1>. QED
  BY <1>1, <1>2, PTL
=============================================================================
