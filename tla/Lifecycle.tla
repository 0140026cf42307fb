----------------------------- MODULE Lifecycle -----------------------------
(***************************************************************************)
(* The lifecycle manager (lifecycle.py): the processes of start, stop and  *)
(* release, from the command line or for the panel's server, which hold    *)
(* operation.lock, record the operation in operation.json and drive the    *)
(* units of the engine and of its bridge.                                  *)
(*                                                                         *)
(* op[w] is what process w is asked for and where it is.  The units beside *)
(* these two are up and down with them; where one is not, a step fails.    *)
(* A probe of the engine that is not answered within 1.5 s answers None,   *)
(* whatever the engine does: nothing is interrupted then, nothing is busy. *)
(***************************************************************************)
EXTENDS ComfyEngine

CONSTANTS
  Callers,   \* the processes that are started, each for one operation
  Stranger   \* a process that comes to have the pid of a caller that ended

ASSUME LifecycleAssumption ==
  {Nobody, Stranger} \cap Callers = {} /\ Nobody # Stranger

VARIABLES
  op,
  file,    \* operation.json: the state, whose pid it names, is its deadline over
  lock,    \* who holds operation.lock
  worker,  \* the child of the panel's server that it has not reaped
  held,    \* prompts the engine had when the last release began
  blind    \* did the last release take a probe without an answer for an idle engine?

lifecycleVars == <<op, file, lock, worker, held, blind>>

Actions == {"start", "stop", "release"}
Working ==
  {"verifying", "checking", "interrupting", "clearing", "draining", "halting", "halted",
   "unbridging", "bridging", "starting", "finishing"}
Busy == {"STARTING", "STOPPING", "RELEASING"}

LifecycleTypeOK ==
  /\ op \in [Callers -> [action : Actions \cup {"none"},
                         at : Working \cup {"new", "launched", "locked", "reporting", "done", "dead"}]]
  /\ file \in [state : Busy \cup {"READY", "OFF", "ERROR", "none"},
               by : Callers \cup {Nobody, Stranger}, expired : BOOLEAN]
  /\ lock \in Callers \cup {Nobody}
  /\ worker \in Callers \cup {Nobody}
  /\ held \subseteq Jobs
  /\ blind \in BOOLEAN

LifecycleInit ==
  /\ op = [w \in Callers |-> [action |-> "none", at |-> "new"]]
  /\ file = [state |-> "none", by |-> Nobody, expired |-> FALSE]
  /\ lock = Nobody
  /\ worker = Nobody
  /\ held = {} /\ blind = FALSE

Alive(w) == op[w].at \notin {"new", "done", "dead"}

Target(w) == IF op[w].action = "stop" THEN "OFF" ELSE "READY"

Reached(target) ==
  \/ target = "READY" /\ engine = "on" /\ bridge
  \/ target = "OFF" /\ engine = "off" /\ ~bridge

\* A process that ended keeps its pid and its start time until its parent reaps it.
KeepsPid(w) == Alive(w) \/ worker = w

\* Variant: the pid alone tells that the operation is alive.
AtWorkByPid == file.by = Stranger \/ (file.by \in Callers /\ KeepsPid(file.by))

\* The operation on record is at work: its pid is there, started when it says.
AtWork == file.by \in Callers /\ KeepsPid(file.by)

Observed ==
  IF file.state \in Busy /\ AtWork /\ ~file.expired THEN file.state
  ELSE IF file.state \in Busy \cup {"ERROR"} THEN "ERROR"
  ELSE IF Reached("READY") THEN "READY"
  ELSE IF Reached("OFF") THEN "OFF" ELSE "ERROR"

At(w, place) == op' = [op EXCEPT ![w].at = place]
Records(state) == file' = [state |-> state, by |-> Nobody, expired |-> FALSE]

-----------------------------------------------------------------------------
(* How a process comes to be, and to hold the lock.                        *)

Begins(w, action) ==
  /\ op[w].at = "new"
  /\ op' = [op EXCEPT ![w] = [action |-> action, at |-> "launched"]]
  /\ UNCHANGED <<file, lock, held, blind, engineVars>>

\* A command line is started at any time.
Launch(w, action) == Begins(w, action) /\ UNCHANGED worker

\* The panel's server starts one child at a time and none beside an operation it sees.
PanelLaunches(w, action) ==
  /\ worker \in Callers => ~Alive(worker)
  /\ Observed \notin Busy
  /\ Observed = "OFF" => action = "start"
  /\ Begins(w, action)
  /\ worker' = w

\* A request that is refused has reaped the child, too, if it has ended.
PanelReaps ==
  /\ worker \in Callers /\ ~Alive(worker)
  /\ Observed \in Busy \cup {"OFF"}
  /\ worker' = Nobody
  /\ UNCHANGED <<op, file, lock, held, blind, engineVars>>

\* Variant: the lock is not waited for and not minded.
LockUnminded(w) ==
  /\ op[w].at = "launched"
  /\ lock' = w
  /\ At(w, "locked")
  /\ UNCHANGED <<file, worker, held, blind, engineVars>>

TakeLock(w) ==
  /\ op[w].at = "launched"
  /\ \/ lock = Nobody /\ lock' = w /\ At(w, "locked")
     \/ lock # Nobody /\ At(w, "done") /\ UNCHANGED lock
  /\ UNCHANGED <<file, worker, held, blind, engineVars>>

-----------------------------------------------------------------------------
(* operate.                                                                *)

\* Where the target is reached already there is nothing to do; a start still verifies
\* its release, which may fail.
NothingToDo(w) ==
  /\ op[w].at = "locked"
  /\ op[w].action # "release" /\ Reached(Target(w))
  /\ \/ Records(Target(w))
     \/ op[w].action = "start" /\ Records("ERROR")
  /\ At(w, "reporting")
  /\ held' = {}
  /\ UNCHANGED <<lock, worker, blind, engineVars>>

FirstPlace == [start |-> "verifying", stop |-> "checking", release |-> "interrupting"]

Phase == [start |-> "STARTING", stop |-> "STOPPING", release |-> "RELEASING"]

\* The target is not reached, or a probe did not find it so.
Begin(w) ==
  /\ op[w].at = "locked"
  /\ file' = [state |-> Phase[op[w].action], by |-> w, expired |-> FALSE]
  /\ At(w, FirstPlace[op[w].action])
  /\ held' = IF op[w].action = "release" THEN InEngine ELSE {}
  /\ blind' = FALSE
  /\ UNCHANGED <<lock, worker, engineVars>>

\* A step that fails or takes too long ends the operation.
Fail(w) ==
  /\ op[w].at \in Working
  /\ Records("ERROR")
  /\ At(w, "reporting")
  /\ UNCHANGED <<lock, worker, held, blind, engineVars>>

Finish(w) ==
  /\ op[w].at = "finishing"
  /\ Records(IF Reached(Target(w)) THEN Target(w) ELSE "ERROR")
  /\ At(w, "reporting")
  /\ UNCHANGED <<lock, worker, held, blind, engineVars>>

Report(w) ==
  /\ op[w].at = "reporting"
  /\ lock' = IF lock = w THEN Nobody ELSE lock
  /\ At(w, "done")
  /\ UNCHANGED <<file, worker, held, blind, engineVars>>

-----------------------------------------------------------------------------
(* What an operation does to the units.                                    *)

Moves(w, place) == At(w, place) /\ UNCHANGED <<file, lock, worker, held>>
Keeps(w, place) == Moves(w, place) /\ UNCHANGED blind

\* busy: the stop goes on without work of the identity workers; else Fail.
Check(w) ==
  /\ op[w].at = "checking"
  /\ \/ Answers /\ InEngine # {} /\ Keeps(w, "interrupting")
     \/ Keeps(w, "halting")
  /\ UNCHANGED engineVars

\* POST /interrupt names no prompt, and whether it came is reported, not minded: what ran
\* may end now, as it may at any time.  A release whose probe is not answered interrupts
\* and drains nothing.
Interrupts(w) ==
  /\ op[w].at = "interrupting"
  /\ \/ op[w].action = "stop" /\ Keeps(w, "clearing")
     \/ op[w].action = "release" /\ Answers /\ Keeps(w, "draining")
     \/ op[w].action = "release" /\ Moves(w, "verifying") /\ blind' = (blind \/ InEngine # {})
  /\ UNCHANGED engineVars

Clear(w) ==
  /\ op[w].at = "clearing"
  /\ \/ Answers /\ prompt' = [j \in Jobs |-> IF prompt[j] = "queued" THEN "lost" ELSE prompt[j]]
     \/ UNCHANGED prompt
  /\ Keeps(w, "draining")
  /\ UNCHANGED <<engine, bridge, interrupts>>

\* Variant: a release leaves what is stuck to itself.
DrainUntilTime(w) ==
  /\ op[w].at = "draining"
  /\ Keeps(w, IF op[w].action = "stop" THEN "halting" ELSE "verifying")
  /\ UNCHANGED engineVars

\* Twelve seconds at most.  A stop goes on in any case; a release stops an engine that
\* says it is still busy.
Drain(w) ==
  /\ op[w].at = "draining"
  /\ \/ op[w].action = "stop" /\ Keeps(w, "halting")
     \/ op[w].action = "release" /\ Answers /\ InEngine # {} /\ Keeps(w, "halting")
     \/ op[w].action = "release" /\ Moves(w, "verifying") /\ blind' = (blind \/ InEngine # {})
  /\ UNCHANGED engineVars

Halt(w) ==
  /\ op[w].at = "halting"
  /\ engine' = IF engine = "on" THEN "stopping" ELSE engine
  /\ Keeps(w, "halted")
  /\ UNCHANGED <<bridge, prompt, interrupts>>

Halted(w) ==
  /\ op[w].at = "halted"
  /\ engine = "off"
  /\ Keeps(w, IF op[w].action = "stop" THEN "unbridging" ELSE "verifying")
  /\ UNCHANGED engineVars

StopBridge(w) ==
  /\ op[w].at = "unbridging"
  /\ bridge' = FALSE
  /\ Keeps(w, "finishing")
  /\ UNCHANGED <<engine, prompt, interrupts>>

Verify(w) ==
  /\ op[w].at = "verifying"
  /\ Keeps(w, "bridging")
  /\ UNCHANGED engineVars

\* An engine that answers while its unit is not active is not ours; else Fail.
StartBridge(w) ==
  /\ op[w].at = "bridging"
  /\ engine # "stopping"
  /\ bridge' = TRUE
  /\ Keeps(w, "starting")
  /\ UNCHANGED <<engine, prompt, interrupts>>

StartEngine(w) ==
  /\ op[w].at = "starting"
  /\ engine # "stopping"
  /\ engine' = "on"
  /\ Keeps(w, "finishing")
  /\ UNCHANGED <<bridge, prompt, interrupts>>

-----------------------------------------------------------------------------

\* The process is killed: the kernel frees its lock, the file stays.
Die(w) ==
  /\ Alive(w)
  /\ At(w, "dead")
  /\ lock' = IF lock = w THEN Nobody ELSE lock
  /\ UNCHANGED <<file, worker, held, blind, engineVars>>

PidReused ==
  /\ file.by \in Callers /\ ~KeepsPid(file.by)
  /\ file' = [file EXCEPT !.by = Stranger]
  /\ UNCHANGED <<op, lock, worker, held, blind, engineVars>>

\* The 720 s an operation is given are over.
OperationOverdue ==
  /\ file.state \in Busy /\ ~file.expired
  /\ file' = [file EXCEPT !.expired = TRUE]
  /\ UNCHANGED <<op, lock, worker, held, blind, engineVars>>

Starts(w) == \E action \in Actions : Launch(w, action) \/ PanelLaunches(w, action)

\* The steps that leave the bridge's unit running or not as it is.
Operates(w) ==
  \/ TakeLock(w) \/ NothingToDo(w) \/ Begin(w) \/ Fail(w) \/ Finish(w) \/ Report(w)
  \/ Check(w) \/ Interrupts(w) \/ Clear(w) \/ Drain(w) \/ Halt(w) \/ Halted(w)
  \/ Verify(w) \/ StartBridge(w) \/ StartEngine(w)
=============================================================================
