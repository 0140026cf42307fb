----------------------------- MODULE EngineGroup -----------------------------
(***************************************************************************)
(* The engine with the three that work it: the jobs that submit and wait,  *)
(* the bridge between, and the operations of the lifecycle.  They share    *)
(* the engine and what it does, and the state a job asks for before it     *)
(* submits.                                                                *)
(***************************************************************************)
EXTENDS EngineWait, Lifecycle

CONSTANT Casts   \* bound: which jobs and operations meet in one behaviour

ASSUME CastsAssumption == Casts \subseteq SUBSET (Jobs \cup Callers)

vars == <<engineVars, bridgeVars, jobVars, lifecycleVars>>

Init == EngineInit /\ BridgeInit /\ JobInit /\ LifecycleInit

\* requireReady: the job has its lease and asks once more, before it submits.  A probe of
\* the observation may fail at any time.
CheckReady(j) ==
  /\ pc[j] = "leased"
  /\ (Observed = "READY" /\ GoesTo(j, "ready")) \/ Ends(j, "failed")
  /\ UNCHANGED <<bridgeVars, engineVars>>

JobSteps(j) ==
  /\ CheckReady(j) \/ Submits(j) \/ Waits(j) \/ Recovers(j)
  /\ UNCHANGED lifecycleVars

Deadline(j) == (WaitOver(j) \/ GraceOver(j)) /\ UNCHANGED lifecycleVars

\* Has x a part beside those that have begun?
Joins(x) ==
  \E cast \in Casts :
    {x} \cup {j \in Jobs : pc[j] # "new"} \cup {w \in Callers : op[w].at # "new"} \subseteq cast

Acquires(j) == Joins(j) /\ Acquire(j) /\ UNCHANGED lifecycleVars

BridgeServes(j) == Serves(j) /\ UNCHANGED <<pc, lifecycleVars>>

BridgeObserves(j) == Observes(j) /\ UNCHANGED <<pc, lifecycleVars>>

EngineRuns ==
  /\ EngineStops \/ \E j \in Jobs : EngineStarts(j) \/ EngineEnds(j)
  /\ UNCHANGED <<bridgeVars, jobVars, lifecycleVars>>

Launches == \E w \in Callers : Joins(w) /\ Starts(w) /\ UNCHANGED <<bridgeVars, jobVars>>

PanelRefuses == PanelReaps /\ UNCHANGED <<bridgeVars, jobVars>>

OperationSteps(w) ==
  \/ Operates(w) /\ UNCHANGED <<bridgeVars, jobVars>>
  \/ StopBridge(w) /\ BridgeEnds /\ UNCHANGED jobVars

TimePasses == OperationOverdue /\ UNCHANGED <<bridgeVars, jobVars>>

Mishaps ==
  /\ PidReused \/ \E w \in Callers : Die(w)
  /\ UNCHANGED <<bridgeVars, jobVars>>

Next ==
  \/ \E j \in Jobs : Acquires(j) \/ JobSteps(j) \/ BridgeServes(j) \/ BridgeObserves(j)
  \/ EngineRuns
  \/ Launches \/ PanelRefuses
  \/ \E w \in Callers : OperationSteps(w)
  \/ TimePasses \/ Mishaps

Spec == Init /\ [][Next]_vars

\* A job and a living operation go on, and a loop with a deadline comes to find it passed;
\* the engine, its observer and a thread of the bridge may hang.  Time passes.
Fairness ==
  /\ \A j \in Jobs : WF_vars(JobSteps(j)) /\ SF_vars(Deadline(j))
  /\ \A w \in Callers : WF_vars(OperationSteps(w))
  /\ WF_vars(TimePasses)

FairSpec == Spec /\ Fairness

-----------------------------------------------------------------------------

\* Types of the four parts.
TypeOK == EngineTypeOK /\ BridgeTypeOK /\ JobTypeOK /\ LifecycleTypeOK

\* What the job tells of its end is true of the engine: the lane is free where it says
\* the engine was recovered, nothing was interrupted where it says that nothing was,
\* and a published image was made (comfy.js:278-349).
OutcomeIsTrue ==
  \A j \in Jobs :
    /\ pc[j] = "recovered" => j \notin InEngine
    /\ pc[j] = "unproven" => j \notin interrupts
    /\ pc[j] = "completed" => prompt[j] \in {"image", "lost"}

\* At most one operation works on the units, and it is the one on record, whatever died
\* before and however often the panel or the command line asks (lifecycle.py:203).
OneOperation ==
  \A w \in Callers : op[w].at \in Working => lock = w /\ file.by = w /\ file.state \in Busy

\* STARTING, STOPPING and RELEASING are shown of an operation at work, or of a child of
\* the panel's server that died at work and that the server has yet to reap, and no longer
\* than its deadline: no foreign process and no other crash keeps the panel waiting
\* (lifecycle.py:188).
NoGhostOperation ==
  Observed \in Busy =>
    /\ ~file.expired /\ file.by \in Callers
    /\ \/ lock = file.by /\ op[file.by].at \in Working
       \/ op[file.by].at = "dead" /\ worker = file.by

\* A release that ends READY has rid the engine of everything it had when it began, unless
\* the engine did not answer a probe (host_release, lifecycle.py:155-170).
ReleaseFreesSeen == file.state = "READY" /\ ~blind => held \cap InEngine = {}

\* Every job that has the lease gives it back and every operation ends, even if the engine
\* or the bridge never answers; and what is shown as under way comes to an end, whoever
\* dies (comfy.js:366, 315; lifecycle.py:49, 188).
Settles ==
  /\ \A j \in Jobs : lease = j ~> lease # j
  /\ \A w \in Callers : Alive(w) ~> ~Alive(w)
  /\ Observed \in Busy ~> Observed \notin Busy

=============================================================================
