---------------------------- MODULE EngineBridge ----------------------------
(***************************************************************************)
(* The ComfyUI bridge (comfyui-bridge/proxy.py) for delegated prompts: it  *)
(* submits a prompt and binds it to the job that owns the lease, observes  *)
(* the engine's events in a thread of its own, and interrupts one prompt   *)
(* exactly when asked by its job and persuaded by the recorded progress.   *)
(*                                                                         *)
(* thread[j] is the thread that serves the request of job j.  It goes on   *)
(* when the job no longer waits for the answer.                            *)
(***************************************************************************)
EXTENDS ComfyEngine, Naturals

CONSTANTS
  Unprofiled,  \* jobs whose workflow has no entry in STALL_SECONDS
  MaxEvents    \* bound: MaxEvents[j] events of a node the engine sends about j's prompt

ASSUME BridgeAssumption == Unprofiled \subseteq Jobs /\ MaxEvents \in [Jobs -> Nat \ {0}]

VARIABLES
  lease,     \* the job that owns the lease of the XPU
  binding,   \* binding[j]: the job_id in the binding file of j's prompt
  progress,  \* progress[j]: the progress file of j's prompt
  thread,
  seen       \* seen[j]: the sequence number j's thread found in its evidence

bridgeVars == <<binding, progress, thread, seen>>

NoProgress == [event |-> "none", sequence |-> 0, quiet |-> FALSE, watched |-> FALSE]
Submitted == [event |-> "submitted", sequence |-> 1, quiet |-> FALSE, watched |-> TRUE]

Serving == {"forwarding", "binding", "asked", "evidence", "exclusive", "confirmed"}
Answered == {"bound", "refused", "withheld", "accepted", "rejected"}

BridgeTypeOK ==
  /\ lease \in Jobs \cup {Nobody}
  /\ binding \in [Jobs -> Jobs \cup {Nobody}]
  /\ progress \in [Jobs -> [event : {"none", "submitted", "node", "terminal"},
                            sequence : Nat, quiet : BOOLEAN, watched : BOOLEAN]]
  /\ \A j \in Jobs : progress[j].sequence <= MaxEvents[j] + 2
  /\ thread \in [Jobs -> {"idle"} \cup Serving \cup Answered]
  /\ seen \in [Jobs -> Nat]
  /\ \A j \in Jobs : progress[j].event = "none" <=> binding[j] = Nobody

BridgeInit ==
  /\ binding = [j \in Jobs |-> Nobody]
  /\ progress = [j \in Jobs |-> NoProgress]
  /\ thread = [j \in Jobs |-> "idle"]
  /\ seen = [j \in Jobs |-> 0]

\* The token of a request is its job's, so it is valid while the job owns the lease.
Authorized(j) == lease = j /\ binding[j] = j

\* Evidence of a stall: silence for longer than the threshold at a node that has started.
\* The observer has to be connected, too, which it may be or not at any time.
StalledEvidence(j) ==
  /\ j \notin Unprofiled
  /\ progress[j].event = "node" /\ progress[j].quiet

\* governed_progress shows a job the progress of its own prompt.
ProgressShown(j) == Authorized(j) /\ progress[j].event # "none"

Thread(j, place) == thread' = [thread EXCEPT ![j] = place]
Updates(j, fields) == progress' = [progress EXCEPT ![j] = fields]

-----------------------------------------------------------------------------
(* POST /prompt with a valid token.                                        *)

Forward(j) ==
  /\ thread[j] = "forwarding"
  /\ \/ Answers /\ prompt' = [prompt EXCEPT ![j] = "queued"] /\ Thread(j, "binding")
     \/ Fails /\ Thread(j, "refused") /\ UNCHANGED prompt
  /\ UNCHANGED <<engine, bridge, interrupts, lease, binding, progress, seen>>

\* Variant: the binding does without an owner.
BindUnowned(j) ==
  /\ thread[j] = "binding"
  /\ binding' = [binding EXCEPT ![j] = lease]
  /\ Updates(j, Submitted)
  /\ Thread(j, "bound")
  /\ UNCHANGED <<engineVars, lease, seen>>

\* The binding takes its job_id from whoever owns the lease by now; without an owner
\* it fails, and the prompt is interrupted if it is the one that runs.
Bind(j) ==
  /\ thread[j] = "binding"
  /\ IF lease = Nobody
       THEN /\ interrupts' = IF Answers /\ Running = {j} THEN Interrupted(j) ELSE interrupts
            /\ Thread(j, "refused")
            /\ UNCHANGED <<binding, progress>>
       ELSE /\ binding' = [binding EXCEPT ![j] = lease]
            /\ Updates(j, Submitted)
            /\ Thread(j, "bound")
            /\ UNCHANGED interrupts
  /\ UNCHANGED <<engine, bridge, prompt, lease, seen>>

-----------------------------------------------------------------------------
(* monitor_engine_events.                                                  *)

\* The engine sends an event of a node that has started, stepped or ended.
ObserverSees(j) ==
  /\ progress[j].watched
  /\ prompt[j] = "running"
  /\ progress[j].sequence <= MaxEvents[j]
  /\ Updates(j, [event |-> "node", sequence |-> progress[j].sequence + 1, quiet |-> FALSE,
                 watched |-> TRUE])
  /\ UNCHANGED <<engineVars, lease, binding, thread, seen>>

\* By a last event or in the history the observer finds that the prompt has ended.
ObserverEnds(j) ==
  /\ progress[j].watched
  /\ Answers /\ InHistory(j)
  /\ Updates(j, [event |-> "terminal", sequence |-> progress[j].sequence + 1, quiet |-> FALSE,
                 watched |-> FALSE])
  /\ UNCHANGED <<engineVars, lease, binding, thread, seen>>

\* Half an hour is over, or there is no websocket client.
ObserverStops(j) ==
  /\ progress[j].watched
  /\ Updates(j, [progress[j] EXCEPT !.watched = FALSE])
  /\ UNCHANGED <<engineVars, lease, binding, thread, seen>>

\* The last recorded progress becomes older than the threshold.
Silence(j) ==
  /\ progress[j].event = "node" /\ ~progress[j].quiet
  /\ Updates(j, [progress[j] EXCEPT !.quiet = TRUE])
  /\ UNCHANGED <<engineVars, lease, binding, thread, seen>>

-----------------------------------------------------------------------------
(* governed_interrupt.                                                     *)

FindEvidence(j) ==
  /\ thread[j] = "asked"
  /\ \/ Authorized(j) /\ StalledEvidence(j)
        /\ Thread(j, "evidence") /\ seen' = [seen EXCEPT ![j] = progress[j].sequence]
     \/ Authorized(j) /\ Thread(j, "withheld") /\ UNCHANGED seen
     \/ ~Authorized(j) /\ Thread(j, "rejected") /\ UNCHANGED seen
  /\ UNCHANGED <<engineVars, lease, binding, progress>>

ProveExclusive(j) ==
  /\ thread[j] = "evidence"
  /\ \/ Answers /\ Thread(j, IF Running = {j} THEN "exclusive" ELSE "rejected")
     \/ Fails /\ Thread(j, "rejected")
  /\ UNCHANGED <<engineVars, lease, binding, progress, seen>>

\* Any event since withholds the interrupt.
Confirm(j) ==
  /\ thread[j] = "exclusive"
  /\ \/ /\ StalledEvidence(j) /\ progress[j].sequence = seen[j]
        /\ Thread(j, "confirmed")
     \/ Thread(j, "withheld")
  /\ seen' = [seen EXCEPT ![j] = 0]
  /\ UNCHANGED <<engineVars, lease, binding, progress>>

\* The interrupt names its prompt.  Its answer may be lost although it came.
Interrupt(j) ==
  /\ thread[j] = "confirmed"
  /\ \/ Answers /\ interrupts' = Interrupted(j) /\ Thread(j, "accepted")
     \/ Answers /\ interrupts' = Interrupted(j) /\ Thread(j, "rejected")
     \/ Fails /\ Thread(j, "rejected") /\ UNCHANGED interrupts
  /\ UNCHANGED <<engine, bridge, prompt, lease, binding, progress, seen>>

-----------------------------------------------------------------------------

Serves(j) ==
  \/ Forward(j) \/ Bind(j)
  \/ FindEvidence(j) \/ ProveExclusive(j) \/ Confirm(j) \/ Interrupt(j)

Observes(j) == ObserverSees(j) \/ ObserverEnds(j) \/ ObserverStops(j) \/ Silence(j)

\* When the unit of the bridge stops, its threads end and nobody observes any more.
BridgeEnds ==
  /\ thread' = [j \in Jobs |-> IF thread[j] \in Serving THEN "rejected" ELSE thread[j]]
  /\ progress' = [j \in Jobs |-> [progress[j] EXCEPT !.watched = FALSE]]
  /\ seen' = [j \in Jobs |-> 0]
  /\ UNCHANGED binding
=============================================================================
