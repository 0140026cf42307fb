---------------------------- MODULE ComfyEngine ----------------------------
(***************************************************************************)
(* ComfyUI and its bridge as the code of image-system uses them: a queue   *)
(* that runs one prompt at a time, a history, POST /interrupt with or      *)
(* without a prompt, and the two units that systemd starts and stops.      *)
(*                                                                         *)
(* A job submits one prompt, so a prompt goes by the name of its job.      *)
(* Queue and history are memory of the process: both end with it.          *)
(***************************************************************************)
CONSTANTS
  Jobs,
  Nobody

ASSUME EngineAssumption == Nobody \notin Jobs

VARIABLES
  engine,     \* the unit of ComfyUI: "on", "stopping" or "off"
  bridge,     \* does the unit of the bridge run?
  prompt,     \* prompt[j]: where the prompt of job j is
  interrupts  \* the jobs whose prompt the bridge interrupted while it ran

engineVars == <<engine, bridge, prompt, interrupts>>

EngineTypeOK ==
  /\ engine \in {"on", "stopping", "off"}
  /\ bridge \in BOOLEAN
  /\ prompt \in [Jobs -> {"none", "queued", "running", "image", "error", "lost"}]
  /\ interrupts \subseteq Jobs

EngineInit ==
  /\ engine \in {"on", "off"}
  /\ bridge = (engine = "on")
  /\ prompt = [j \in Jobs |-> "none"]
  /\ interrupts = {}

InEngine == {j \in Jobs : prompt[j] \in {"queued", "running"}}
Running == {j \in Jobs : prompt[j] = "running"}
InHistory(j) == prompt[j] \in {"image", "error"}

\* A unit that is being stopped may still answer.
Answers == engine # "off"
Fails == engine # "on"

\* POST /interrupt that names a prompt: it concerns that prompt if it runs at that moment.
Interrupted(j) == interrupts \cup ({j} \cap Running)

EngineStarts(j) ==
  /\ Answers
  /\ prompt[j] = "queued" /\ Running = {}
  /\ prompt' = [prompt EXCEPT ![j] = "running"]
  /\ UNCHANGED <<engine, bridge, interrupts>>

\* An interrupted prompt is in the history as one that failed, unless it was faster
\* or hangs where no interrupt reaches it.
EngineEnds(j) ==
  /\ Answers
  /\ prompt[j] = "running"
  /\ \E result \in {"image", "error"} : prompt' = [prompt EXCEPT ![j] = result]
  /\ UNCHANGED <<engine, bridge, interrupts>>

\* The unit comes to its stop, or ComfyUI crashes.
EngineStops ==
  /\ engine # "off"
  /\ engine' = "off"
  /\ prompt' = [j \in Jobs |-> IF prompt[j] = "none" THEN "none" ELSE "lost"]
  /\ UNCHANGED <<bridge, interrupts>>
=============================================================================
