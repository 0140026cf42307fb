# A verification development for the AAG AnythingLLM Suite

TLA+ modules, TLC configurations and TLAPS proofs for the parts of this
repository where several processes meet over files and where a test hardly
reaches: the lease of the shared XPU, the durable job records of the image system
over cancellations, restarts and recovery, the way of an image into its chat, the
image engine with its bridge and its lifecycle manager, and the governed
remediation of the Ubuntu agent. Paths below are relative to the repository.

## 1. The system

The suite adds image generation, an Ubuntu administration agent and a chess
puzzle maker to AnythingLLM. No component shares memory with another: they meet
in files (`image-system`), in SQLite databases (the Ubuntu agent) and over
loopback HTTP.

| component | code | state it keeps | operations |
|---|---|---|---|
| XPU scheduler | `src/image-system/src/scheduler.js` | `scheduler/sequence`, `waiters`, `lease` | `acquire` (enqueue, poll, take over a stale lease, mkdir, confirm), `heartbeat`, `release` |
| external clients of the XPU | `integrations/comfyui-bridge/proxy.py`, `upscale-engine/upscale-server.py` | the same directories; per-request threads; ComfyUI's queue, the upscale process | `ExternalComfyLease.acquire/heartbeat/release`, `monitor_prompt`; `ExternalLease` likewise |
| job store | `src/store.js` | `jobs/<id>.json`, `cancel/<id>`, `idempotency/<key>.json` | create, transition, reopen, `recoverStale`, `claimIdempotency` |
| image batch | `src/batch.js` | a parent record and its children | `createBatch`, `resumeBatch`, `executeParent`, cancel |
| single image task | `src/runtime.js`, `adapters.js` | a parent record and its children | `createTask`, `jobAction` |
| recovery | `src/recovery.js` | the same records, receipts of the bridge | `recoverComfyJobs`, `commitRecovered` |
| engine client | `src/comfy.js` | a prompt in ComfyUI | submit, wait, exact-prompt stall recovery |
| reconciler and presentation | `integrations/anythingllm/aagImageProgress.js`, `aagArtifactPresentation.js`, `src/job-index.js` | chats of AnythingLLM, `presentation` of a record | bind a finished job to its chat |
| release lifecycle | `lifecycle/*.py`, `src/lifecycle.js` | the state of the engine group | start, stop, drain, host release |
| identity and prompt services | `src/human-identity.js`, `scene-identity.js`, `expert-*.js`, ... | none over calls, or one inbox file | request and answer |
| Ubuntu agent | `src/integrations/ubuntu-agent/aag_agent` | SQLite stores of plans, approvals, tasks, memories | remediation, orchestration, investigation, memory, maintenance |
| chess | `src/chess` | files of puzzles | generate, verify |
| distribution | `install.sh`, `update.sh`, `rollback.sh`, `tools` | installed trees | install, update, roll back |

How they interact. A turn of a conversation calls a skill, which creates a job
record and, for every picture, waits for the XPU lease, submits the work to
ComfyUI through the bridge or to the upscale server, writes the result into the
record and releases the lease. Other turns, each in a process of its own or
interleaved at the awaits of the same one, look at, cancel or resume the same
records; a reconciler binds finished ones to their chat; requests that come to
the bridge or to the upscale server from elsewhere queue for the same lease.

What is hard about it: no lock spans two file operations, so every check may be
stale when it is used (`reconcileStaleLease`, the Python takeover, the
reconciler's write, the token a release has read, the checks of `execute` before
its transaction); processes die between a `mkdir` and the file that names its
owner, inside the writing of that file, or between a child's record and its
parent's; heartbeats come late; a job gives up its wait while the engine works on
or its prompt is still on the way; a probe that fails reads as idle and a read that
fails as nothing there; the catch clause of a run may throw itself. `PROJECT.json` lists these places one by one, with their lines.

What makes the parts correct:

* scheduler: first-in first-out; nobody's lease is removed by anyone but the
  recovery of a stale one; never two jobs on the engines; a waiter is served
  whatever the dead have left; who has ended leaves nothing. Each of the first four
  has an exception the code lets happen; section 2 names them.
* batch: COMPLETED means one verified image for every child; a verified child is
  never undone; one child at a time; a cancelled batch starts nothing more;
  every run ends and gives the lease back; no record stays RUNNING unattended.
* task and recovery: no run writes over what a cancellation, a recovery or the
  aging of old records wrote; COMPLETED means every child is; a job cancelled in
  the queue stays cancelled; terminal states are final (the recovery breaks this
  one); every call is answered.
* presentation: a completed image is shown in its chat and marked so, whatever
  fails meanwhile; a card, once there, keeps its content and its picture, unless the
  agent of its turn fails afterwards.
* engine and bridge: what a job says of its end is true of the engine; a job gives
  its lease back even if nothing answers.
* lifecycle: one operation at a time, shown while it works; a stop or a
  release interrupts what runs, waits a bounded time and then stops the engine
  (it does not wait for work to end); a release that ends READY has freed the
  engine, as far as its probes were answered; every operation ends.
* remediation: a command starts only after an approval of its plan, which it uses
  up, and once; no two commands work on the target together; plan, approval,
  attempt and incident tell one story; an execution that lives settles.

## 2. The modules

| module | models | 
|---|---|
| `LeaseFiles` | the files of the scheduler, the engines, entering the queue, the operations on `lease/` and the environment (time, death, finishing engines) |
| `AgentLease` | `acquire()` in JavaScript and the job that holds the lease; `Spec` of agents only |
| `ExternalLease` | `acquire()` in Python and the request behind it |
| `SharedXpu` | both kinds of client together |
| `AgentLeaseProofs` | theorems about `AgentLease!Spec` |
| `SharedXpuProofs` | theorems about `SharedXpu!SharedSpec`, from the lemmas of `AgentLeaseProofs` |
| `JobStore` | statuses and transitions of a record |
| `ImageBatch` | a batch with all its concurrent invocations |
| `BatchPromise` | the abstract batch: `ImageBatch` implements it |
| `ImageBatchProofs` | theorems about `ImageBatch!Spec`, the refinement of `BatchPromise` among them |
| `ImageTask` | one job that is not a batch: `createTask`, cancel |
| `TaskRecovery` | the same job over restarts: `recovery.js`, `recoverStale`, the engine; extends `ImageTask` |
| `Presentation` | the publication of a job's image in its chat, live and by the reconciler, and the cleanup of copies; extends `TaskRecovery` |
| `TaskProofs` | the inductive invariant of a task: lemmas for every step of `TaskRecovery` |
| `PresentationProofs` | theorems about `Presentation`'s specification, which contains the task and its recovery |
| `ComfyEngine` | ComfyUI as the code uses it (external) and the two units |
| `EngineBridge` | the bridge: submission and binding, the observer of events, the governed interrupt |
| `EngineWait` | `comfy.js`: the wait of a job and its exact-prompt recovery |
| `Lifecycle` | `lifecycle.py`: the operations start, stop and release |
| `EngineGroup` | jobs, bridge, engine and lifecycle together |
| `EngineGroupProofs` | theorems about `EngineGroup!Spec` |
| `Remediation` | plans, approvals, executions and rollback proposals over the store, the lock file and the target |
| `RemediationPromise` | the abstract remediation: `Remediation` implements it |
| `RemediationProofs` | theorems about `Remediation!Spec` |
| `MCAgentLease`, `MCSharedXpu`, `MCImageBatch`, `MCImageTask`, `MCRemediation`, `MCEngineGroup` | model values and symmetry for TLC |

### The lease

State. `ticket[c]` is the number of `c`'s file in `waiters/` (0: no file),
`lateTickets` those whose heartbeat is older than the bound; `lease` the
directory, its owner, whether its time is late, and `temps`, whose unfinished
`owner.json` lies in it; `sequence` the highest number drawn; `flying` the clients
with accepted work that has not reached an engine, `comfy` and `upscale` those with
work in one; `pc` and `number` are the locals of `acquire`, `probe` the answer of the
awaited activity probe. Four history variables, which no guard reads: `ahead` (who
had a ticket when `c` drew its number), `stolen` (whose `owner.json` another client
removed or wrote over), `strays` (whose lease ended while its work was flying) and
`pruned` (whose ticket was deleted as late).

Atomicity. A file operation is atomic, a sequence of them is not: JavaScript runs to
its next await without its own process, but other processes interrupt it, and a
suspension may come anywhere. So there is an action for every file operation another
client could tell apart: a turn of the loop reads the own ticket (`ReadTicket`),
writes it again (`RenewTicket`), lists (`ListWaiters`), looks at `lease/`
(`AgentLooks`), and only then probes; `owner.json` is a temporary file
(`OpenOwner`) and its rename (`WriteOwner`); giving the lease back is the read of the
token, the unlink of whatever `owner.json` is there by then, and the `rmdir`, which
fails on a directory that is not empty (`ReadToken`, `UnlinkOwn`, `RemoveDir`). A
heartbeat is the same pair of read and write for the clients in `Torn`, and one step
for the others. Of the work, the token is checked when the bridge accepts it
(`AgentSubmit`), and it reaches its engine later or never (`Arrives`, `NeverArrives`).

Two groupings remain. The agents' probe of both engines is one moment; the
comment at `AgentObserve` says why. And the writing of `owner.json` does not look
again at whether the `mkdir` was its own: nor does the code.

Time. `LeaseLate` and `TicketLate` make a heartbeat late when its writer is dead
or belongs to `Suspendable`; an ownerless directory gets late when no client that is
never suspended is between two operations on it (`Midway`), a stretch far shorter
than `staleMs`. So "timely" is a statement about a client, not a number of seconds.

What the code does and the model keeps although it looks odd: an agent removes a
stale lease without looking again after its await (`AgentUnlinkStale`); a release
that was overtaken deletes the lease of whoever has it by then, which makes its
victim a robber in its turn (`UnlinkOwn`); a renewal puts a pruned ticket back under
its old number; a client that yields and meets an error ends with it; an external
client deletes its ticket when it yields and polls on (`ExternalReturns`); the bridge
leaves its ticket when its wait times out; only the agents remove a directory without
an owner, and nobody removes an unfinished file from one.

So the properties say what is left: a client is overtaken only by a ticket that was
`pruned`; a holder is not the owner only when it is `stolen`; two jobs meet in the
engines only when one is a stray; a waiter is served unless the directory is
`Littered` or a torn heartbeat is on its way into it (`Overtaken`). Two of these
exceptions contradict the documents: strays need neither a death nor a suspension, only
a job that stops waiting for its submission (30 s, `comfy.js:437`) before the bridge
does (180 s, `proxy.py:688`), against "one shared XPU lease serializes heavy work"
(`image-system/README.md:36`); and a death between the temporary `owner.json` and its
rename (`util.js:83-92`) blocks the queue until a person deletes the file, against
"orphan lease directory from owner crash is boundedly recovered"
(`image-system/tests/scheduler.test.js:64`). Each exception is exact enough that a lapse of the protocol (a wrong sort,
a release that does not look at the token, a bridge that takes any token) still
breaks the property, which the mutants show.

### The batch

State. `parent` and `child` are the records on disk, `marker` the cancel file,
`claim` the idempotency file, `old` the records not written for longer than the
bound of `recoverStale`. `queue` and `holder` are the lease as a FIFO lock, which
is what `NoOvertaking` and `MutualExclusion` show it to be for clients that run
in time. `clone` is the copy of the parent the reconciler works with.

Each action reads what it needs and writes one record, the granularity at which
another process or a crash can come in between. `Abort` is the catch clause of
`executeParent` with its own exception. A child's work is one step with three
outcomes (`ChildEnds`), the engine being the business of other modules; while it
lasts its progress writes the child's record again (`Progress`).

### The single task and its recovery

All of it runs in one JavaScript process, so an actor has the process to itself
from one await to the next: `busy` names the actor that has not come to its next
await, `At` says that an actor is at a place and may go on. A death may come
between any two writes all the same, so each step writes one record. `mine` is
the record `createTask` keeps in memory from the plan to the end, `copy` the one
a recovery pass reads first and writes last; `NothingOverwritten` is about the
first, `TerminalIsFinal` fails by the second.

`form` is the request, chosen in `Init` and never changed: how many images, by
the identity worker or by ComfyUI, enhanced or not. `engine` is the work of the
child the job has come to; it outlives the process, as ComfyUI and the worker
do, and so do `prompt` (the child names its prompt) and `ack` (the worker was
told that its answer was received). `fresh` stands for the cutoff of
`startImageReconciler`: recovery keeps to jobs an earlier process made. Two
hours pass (`Age`) only while no call is under way, since each await of a call is
bounded by less; `old` names only records that are not terminal, as `recoverStale`
leaves the others alone. The lease is a lock here; its FIFO is the business of
`AgentLease`. Another job's `createTask`, which runs `recoverStale` when it gets
the lease, is `RecoverStale`.

### The presentation

When a task completes, three parts come to hear of it. The call that made the
image publishes it: it fetches the artifact, copies it under a reserved name and
writes the card into the row of its turn (`Enter`, `Draws`, `Commits` of a turn).
The index of job files sees the record change (`IndexSees`) and the reconciler
takes it from there (`TakePending`), or goes on with what it has recovered itself:
it looks for the card (`FindsCard`), else for the row (`FindsNoRow`), publishes
like the live turn, closes the invocation and stamps the record (`Closes`,
`Stamps`). The native models it reads with answer null or nothing when the database
fails, so any row may not be found: a job of an earlier process is then dropped
until the next restart, a fresh one after a minute (`letGo` records it), although the
comment at `aagImageProgress.js:393-394` says "Preserve recovery across temporary
outages". An agent
whose turn fails after the call writes its error into the row, over the card,
outside the queue of the publications (`TurnFails`; once for each agent). Both go through `withArtifactPublication`, `publisher` in the model.
`show[a]` is how far each is; `retry` is the entry of the job in the reconciler's
retry map, which a restart clears as it reads every job file again.

A row is `strange` when the reconciler cannot tell it to be the turn's: a prompt
without the composer's envelope, or two rows equally close (`closestPendingChat`
answers null). The live turn knows its row in any case. `picture` is the copy
under its reserved name. It ages an hour only while no publication is on, each of
which takes less, and the cleanup deletes it when no card refers to it and no
invocation is open. Cleanup and commits wait for each other in the database.

A deletion is final: a reservation is never given to a second copy, and
`persist` verifies the copy it finds reserved (`image-system/docs/ARTIFACT-FILENAMES.md`: "A
missing or changed committed file fails closed"). So `Presented` exempts a deleted
copy. A copy deleted between the verification and the commit leaves a card without
a picture; `CardKept` begins at the commit.

### The engine, its bridge and the lifecycle

`ComfyEngine` is the external part: a queue that runs one prompt at a time, a
history, both lost when the process ends (`lost`), and an interrupt that names a
prompt or concerns whatever runs. An interrupted prompt may hang all the same, or
be faster and leave its image. `interrupts` is a history variable: whose prompt the
bridge interrupted while it ran. The bridge's interrupt names its prompt; the
lifecycle's names none and strikes what runs, which may end at any time anyway.

`EngineWait` has a place for every await of `comfy.js`. A request that only reads
is one step; the two that act, the submission and the interrupt, are served by a
thread of the bridge, `thread[j]`, which goes on when the job has stopped waiting
(30 s against 180 s). A thread's steps end where it calls the engine or reads a
file: `Confirm` and `Interrupt` are two. The progress file is its last event, its
sequence number, whether it is older than the threshold (`quiet`), and whether an
observer still writes it. The thresholds are not numbers: silence may come at any
time; a workflow without an entry in `STALL_SECONDS` (it knows `fast` and
`quality`) is in `Unprofiled` and never gives evidence. Whether the observer is
connected, which evidence needs too, is left open.

`Lifecycle` has a process per operation, started from the command line (`Launch`) or
by the panel's server (`PanelLaunches`), which starts none beside an operation it
sees. The server reaps its child only in a later request (`worker`, `PanelReaps`):
until then a dead child keeps its pid and its start time, and is taken for alive.
`operation.lock` is freed by the kernel when its holder dies; `operation.json` stays
and names a pid, which another process may come to have once it is free
(`PidReused`; the start time recorded beside it tells them apart). Of the units,
`engine` and `bridge` are modelled; where another unit fails, or a timeout of
`systemctl`, the step fails (`Fail`). A probe of the engine that is not answered in
1.5 s is no failure: it reads as idle, so an interrupt, a drain and the halt of a
stuck engine may all be skipped (`Interrupts`, `Drain`). `held` and `blind` are history
variables: what the engine had when the last release began, and whether that
release took a silent engine with work for an idle one.

`ReleaseFreesSeen` and `NoGhostOperation` say what holds of that; the documents say
more. Where the code does not keep it:

* `image-system/CHANGELOG.md:12` has "stuck work escalates to an owned ComfyUI
  session restart", `image-system/docs/RESILIENT-RELEASE-LIFECYCLE.md:40` "Missing idle
  telemetry fails closed.": a probe without an answer skips the interrupt and ends
  the drain (`lifecycle.py:162`, `:134`), so a release may say READY with the work
  still there. `blind` is this case.
* `RESILIENT-RELEASE-LIFECYCLE.md:44` has "Interrupted operations are detected with
  PID/start-time/deadline checks and report ERROR": a killed child of the panel is
  a zombie until the next request to start one, and its phase is shown up to the
  deadline of 720 s (`lifecycle.py:188`, `:276-283`). `worker` is this case.
* `RESILIENT-RELEASE-LIFECYCLE.md:40` has "closing the STOP/submission race": a stop that
  begins after a job saw READY (`lifecycle.js:13`) still meets its prompt.
* `lifecycle.py:158-159` restarts the session for "a stalled job the interrupt cannot
  reach": the drain waits for an empty queue, so a job that submits after the
  interrupt is taken for a stalled one (`:167`) and loses its engine.
* jobs are interrupted by a stop, though `RESILIENT-RELEASE-LIFECYCLE.md` has
  "Active-work STOP returns a safe retryable error while preserving the work", which
  the code does for the identity workers only; and the rollback of a release takes
  no `operation.lock`, its deployment does.

### Remediation

Every call is a process of its own, started from the command line. It reads and
checks (`DecideRead`, `ExecuteRead`, `ProposeRead`), and a transaction of SQLite
writes later, looking again at the state of the plan only (`Commits`:
`validate_transition` and the unique index on unfinished plans of a target). A
transaction that is refused writes nothing and its call ends. A plan has at most
one approval and one attempt, so `approval` and `attempt` are functions of the
plan. `says` is what the call has made up its mind to: the decision, the outcome,
the status of the proposal.

`lock` is the lock file of the target, which the kernel frees when its holder
dies; `running` are the plans whose `systemctl` is at work, which does not die
with its caller (`CommandEnds`). `lapsed` are the plans whose approval is past
its time. `ExecuteRead` ends in the lock, or in a transaction of its own that aborts
the plan (`AbortApproval`): the approval becomes EXPIRED when it has lapsed, and
INVALIDATED when its binding no longer matches (the registry of operations may have
changed since), the plan ABORTED_APPROVAL in both cases. The other refusals (a
wrong token, operator or state) write nothing and are left out. A call in `Mortal` may
die anywhere, or fail where nothing catches it: the attempt of a call that fails so
after it used its approval stays PENDING, as that of a dead one does.

`RemediationPromise` knows neither states nor transactions: a grant may be taken
back, is used up before the command, and the command starts once and alone.

## 3. The runs

| run | instance | what it shows |
|---|---|---|
| `AgentLease_safety` | 2 agents, queue bound 1, all may die, be suspended or cancelled between any two file operations | the safety of the lease among agents |
| `SharedXpu_safety` | an agent, a bridge client that may be suspended, an upscale client that may give up | the same over both protocols; `ComfyExclusive` |
| `SharedXpu_liveness` | an agent; a bridge client with torn heartbeats that may die or give up | `WaitEnds`, `WaiterServed` |
| `SharedXpu_reclaimed` | an agent that dies, two bridge clients | counterexample to `docs/SECURITY.md:30` |
| `ImageBatch_safety` | 2 children, 2 creators, 2 resumes, 1 cancel, 1 crash, reconciler | the safety of a batch |
| `ImageBatch_liveness` | 2 children, 1 creator, 2 resumes, 1 cancel, no crash | termination; refinement of `BatchPromise` |
| `ImageBatch_completed_final` | as above, with the reconciler | counterexample: COMPLETED is overwritten |
| `ImageBatch_stopped_resumable` | as above | counterexample: a stopped batch stays QUEUED |
| `ImageTask_safety` | every form with 1 or 2 images, 2 calls of a turn, a cancel, recovery, both publications, failing agents, the cleanup, a restart | the safety of a job and of its card; every call is answered; what is completed is shown |
| `ImageTask_terminal_final` | 1 image, 1 call, 1 restart | counterexample: FAILED is overwritten by the recovery |
| `EngineGroup_safety` | 2 jobs (one unprofiled), or a job and an operation, or 2 operations; an engine that crashes, hangs or does not answer | true outcomes, one operation, no ghosts, releases that free; everybody ends |
| `Remediation_safety` | 2 plans, 2 decisions, 2 executions, one of which may die, a proposal | the safety of remediation, its promise, and that executions settle |

Bounds. Two agents, either of which may be anywhere when the other is suspended or
dies, meet each pair of file operations in both orders: one robs the other, by a
takeover or by a late release, or is overtaken. The queue bound of 1 is
exceeded as well as met. `SharedXpu_safety` has three clients, so that the robber of a
robber exists: the first's late release takes the lease of the third, who came after
the takeover of the second. A client does not reenter, which a new client stands
for. Two children are enough
to tell first, last and both; two resumes to have one resume undone or overtaken
by another; one crash for every place to crash at. The refinement was also
checked with three children and a crash. For a task, two images tell a first child from a last
one, and a restart may come between any two writes of the call, whose recovery then
runs beside everything else; a second restart in the recovery itself is left to the
theorems. The second
call of the turn is also the second live publication. In `EngineGroup`, `Casts`
bounds who meets: two jobs race for an interrupt and for the lease, a job meets an
operation, two operations meet each other; `MaxEvents` gives each job one event of
a node, which may come before the evidence or between evidence and confirmation. For remediation, two plans
meet in the index, two decisions and two executions of one plan or of two race in
each of their reads and writes, and one of the executions may leave a command
behind; the theorems of section 4 lift these bounds. Symmetry is used in safety runs only.
Deadlock is not checked because every client ends: an instance comes to rest.

Fairness. Agents and requests that are alive go on (`WF` of each client's steps:
timers and continuations of an event loop, threads of a server); accepted work
arrives or fails (`WF`: connections have timeouts); engines finish;
what nobody renews becomes late. A job does not submit for ever (`SF` of the
result that closes it), and a request comes to find its deadline past (`SF` of
`ExternalGivesUp`: other steps of the loop compete with it). Nothing is assumed of
cancellation, suspension, death, or the reconciler. In `ImageBatch` every await of a run is bounded by a timeout
in the code, which is why the steps of a run are weakly fair. The same holds for
a task; its lease comes to it because the other jobs of the process give it back.
The reconciler's timer runs, the index hears of changes, and what a
publication needs (the file server, the database) is not away for ever (`SF`
of its steps: outages end); nothing is assumed of the cleanup or the browser. In
`EngineGroup` jobs and operations go on (`WF`) and a loop with a deadline comes to
find it passed (`SF`: other steps of the loop compete with it); the 720 s of an
operation pass (`WF` of `TimePasses`); nothing is assumed of the engine, of the bridge's threads, of the observer or of who gets the lease,
so `Settles` holds although nothing answers.
An execution of remediation goes on unless it dies: `systemctl` has
`timeout_seconds` and every observation a bound.

Assumptions of the runs. `ProbeMayFail` is FALSE: an engine that is busy answers
the activity probe (`scheduler.js:84` and `proxy.py:388` take no answer for
idle; with TRUE, a suspended holder's engine work can meet its successor's).
`Torn` is empty where `EngineExclusive` and `ComfyExclusive` are checked: a torn
heartbeat may write `owner.json` over that of a new owner late, which breaks them.

Runs that check safety only have a specification without fairness; `ImageBatch_liveness`,
`ImageTask_safety`, `EngineGroup_safety` and `Remediation_safety` check both kinds over one
state space. Four runs end in a
counterexample; what each shows, and the sentence of the repository it contradicts, is
in `PROJECT.json` under "findings".

## 4. The proofs

`AgentLeaseProofs` proves, for every finite or infinite set of agents and every
value of the constants unless said otherwise, about `AgentLease!Spec`:

* `TypeCorrect`: `TypeOK`.
* `HolderKeepsLease`: `HolderOwnsLease`, with the strengthening (`LeaseHeld`) that also
  covers the places from the rename of `owner.json` on and those of giving it back
  after a busy probe. A step that takes an owner away either sets `stolen` for it, or
  is the unlink of a client that owns the lease itself: that a releasing client that
  is not `stolen` still does is this same invariant.
* `FirstInFirstOut`: `NoOvertaking`, from `QueueOrder`: who had a ticket when
  `c` drew its number has a smaller number, and numbers in tickets are the
  numbers drawn. A client that comes to look at the lease was first in a listing; a
  smaller number can come back after that only by a renewal under way
  (`touching` without a file), whose client is then in `pruned`.
* `EnginesNotShared`: `EngineExclusive`, for `Torn = {}` and `ProbeMayFail = FALSE`. The
  strengthening (`EnginesFenced`) says that whoever confirmed an idle engine
  (`confirming` with an answer, `holding`), or has work flying, and still owns the
  lease, has the engines to itself but for strays: work is accepted for the owner only,
  a new owner probes after it wrote `owner.json`, and a flying request whose owner
  goes becomes a stray in the same step.
* `AtMostOneHolder`: `MutualExclusion`, when nobody dies, is suspended or torn.
* `AgentsLeaveNothing`: `NothingLeftBehind`, temporary files included.

`SharedXpuProofs` proves, for every number of agents and of external clients,
about `SharedXpu!SharedSpec`:

* `TypesShared`: `TypeOK`; `HolderKeepsSharedLease`: `HolderOwnsLease`;
  `FirstInFirstOutShared`: `NoOvertaking`; `AtMostOneHolderShared`:
  `MutualExclusion`, under the assumptions of `AtMostOneHolder`. The lemmas of
  `AgentLeaseProofs` speak of any client that takes an agent's step, so the same
  invariants do, and only the steps of `ExternalLease` are new.
* `ComfyShared`: `ComfyExclusive`, for `Torn = {}` and `~ProbeMayFail`. The
  invariant of the agents, `EnginesFenced`, does not hold here: a request submits
  without asking for its lease again. `ComfyFenced` is what is left of it: beside
  the owner that has seen ComfyUI idle there are only prompts of strays and of
  requests that were robbed, and who is in ComfyUI has its acquisition behind it, so
  it stays in `stolen`.
* `AgentsApart`: two agents work on the engines together, `upscale` included, only
  when one is a stray, although requests beside them probe one engine only. No run
  has it as a property; TLC found its invariant, `AgentsFenced`, to hold of two agents
  and an upscale client.
* `AgentsLeaveNothingShared`: `NothingLeftBehind`. It is about agents: a request's
  heartbeat thread may put its lease back after the release, so the `Tidy` of the
  agents is not an invariant of all clients.

`ImageBatchProofs` proves, for any number of images, creators, resumes, cancels and
crashes, about `ImageBatch!Spec`:

* `TypesCorrect`: `TypeOK`; `CompletedWhole`: `CompletedIsWhole`; `Serialized`:
  `ChildrenSerialized`; `VerifiedStays`: `VerifiedKept`; `CancelsHonoured`:
  `CancelHonoured`.
* `RunningRun`: `RunningIsRun`, for `MaxCrashes = 0`: a death leaves a RUNNING
  record behind, which is what `recoverStale` is for.
* `PromiseIsKept`: `PromiseKept`, the refinement of `BatchPromise`, and `CompletedStays`,
  for `~Binds`. With the reconciler both fail: `ImageBatch_completed_final` shows it.

The invariant, `IInv`, has three layers. `TypeInv` is the types, with the fact
that who waits has a ticket. `PlanInv` says who is at the batch: before the claim
nobody, while it is planned its creator alone, and a run works with the lease
only; so the writes of the plan meet no other write. `WorkInv` is what runs rely
on: a child that is worked on is not done (`WorksUndone`: a run decides on a child
before it writes it), both copies of a complete record list everything (`Whole`),
and nobody gets past a child that a crash left RUNNING (`OrphansAlone`), without
which `ChildrenSerialized` is not inductive. Every action has a lemma for each
layer; `ParentChange`, `ChildChange` and `PlaceChange` say for all of `Next` what may
become of a record or of a place, so the action properties follow from them.

The proof changed the model in two ways. `Without` removes a ticket with `SubSeq` at
its place instead of a filter, about which nothing can be proved here. And
`CancelHonoured` was not true as first stated ("no child becomes RUNNING"): a late
sweep may cancel the child a run works on, a resume reopen it, a second cancel
set the marker, and then the progress of the run's own work writes RUNNING. A
search that began at a state the proof got stuck at found it, nineteen steps
deep. The property now exempts a child that a run is working on already.

`TaskProofs` and `PresentationProofs` prove, for all sets of calls and
cancellations and any number of images and of restarts, about the specification
of `Presentation`:

* `TypesCorrect`: `TypeOK`; `CompletedWhole`: `CompletedIsWhole`; `MemoryCurrent`:
  `NothingOverwritten`; `EndedTerminal`: `EndedIsTerminal`; `CancelledForGood`:
  `CancelledStays`; `VerifiedStays`: `VerifiedKept`; `CardsStay`: `CardKept`.
* `TerminalButForRecovery`: of the terminal states only FAILED is ever left, and only
  by the recovery of a job that an earlier process made. `TerminalIsFinal`, which
  `ImageTask_terminal_final` shows violated, holds but for that.

`JobInv` (in `TaskProofs`) says what every place of a call relies on. Of the actors
only one can be between two awaits (`BusyAgrees`); one call makes the job
(`ClaimAgrees`), and while it is at it the process is the one that made the job and
no record is old, so neither recovery nor `recoverStale` touches it. From there
`TurnAgrees` follows: while it executes, `mine` is the record on the disk, the
children before its own are verified and listed, those behind it are queued.
`SweepsAgree` is about sweeps, which may be two at once: of the call and of
a cancellation, the latter only of a job that is CANCELLED. `RecoveryAgrees` is about
the recovery: it works on a job with one child that nobody but `recoverStale` writes
meanwhile. `CompletedIsWhole` and `EndedIsTerminal` are inductive only with all of
them. `ShowAgrees` adds the publications: they take turns, a call is
published when it has returned, the reconciler publishes what is complete, and
what it has drawn is for a row that still waits. So a
commit finds the card as it was when the publication looked for it, or taken away
by the failure of the turn's agent, the one case `CardKept` exempts.

`RemediationProofs` proves, for all sets of plans and of calls and whichever may
die, about `Remediation!Spec`:

* `TypesCorrect`: `TypeOK`; `LedgersAgree`: `ApprovalBacksPlan`; `OutcomesAgree`:
  `OutcomeAgrees`; `CommandsDoNotMeet`: `OneCommandAtATime`.
* `PromiseIsKept`: `PromiseKept`, the refinement of `RemediationPromise`. A write
  of an approval is a decision or a use, a command is a start, the rest stutters.

All five rest on one inductive invariant, `Inv`. The checked invariants alone are
not inductive: a call that has read and not yet written is not in them. `CallsAgree`
says what each place in a call relies on - an execution between its transaction
and its outcome holds the lock, its plan is in the state of that place, its
command has not been started before, or is not running any more - and
`CommandsAgree` that what runs is a plan left EXECUTING, by a dead call too;
`IndexHolds` is the unique index. `Sources` derives from the table of transitions
which state a plan can have come from, and every action's step cites it. The
invariant is proved in layers, each from those before it: types, what calls rely
on, the index, approvals, outcomes.

`EngineGroupProofs` proves every safety property of `EngineGroup_safety`, for all
sets of jobs and operations, all casts and all bounds on events, about
`EngineGroup!Spec`:

* `OneWorks`: `OneOperation`; `NoGhosts`: `NoGhostOperation`. The invariant,
  `LifeInv`, adds what the checked properties leave open (`LockAgrees`): whoever
  has its answer from `flock` holds the lock up to its report, and the record names
  nobody but an operation at work or one that died at work. So a record can only be
  taken for alive while its operation works, or, when that is the child of the
  panel's server, until it is reaped or its deadline is over.
* `TypesCorrect`: `TypeOK`, whose bound on sequence numbers needs `WatchAgrees`: an
  observer writes progress of a bound prompt only and has one event left to write.
* `OutcomesTrue`: `OutcomeIsTrue`. The invariant is
  the flow of a job, `Flow`: a thread acts for a job only while the job waits for
  its answer or has given it up for good, a thread that has struck cannot answer
  that it withheld, and a prompt seen to run is never in the queue again.
* `ReleasesFree`: `ReleaseFreesSeen`. `FreeInv` says that an engine that is off has
  nothing in memory, that what a release remembers was submitted - so by `Flow` it
  cannot be submitted again - and that past the drain or the halt nothing of it is
  left, unless the release is `blind`.

The layout is the same for each: a lemma for the environment, one for the steps
of an agent, with one step per action, and a temporal theorem that combines them.

Model-checked only: liveness (`WaiterServed`, `WaitEnds`, `RunsEnd`, `RunningEnds`, `TurnsAnswered`,
`Presented`, `Settles`, `ExecutionSettles`), which is out of the prover's reach. Every
invariant, every action property and both refinements of the passing runs are proved.

## 5. What is not modelled, and the plan

Done: the modules of section 2. Next, in this order:

1. The lease as a lock: an abstract specification of what `ImageBatch` and `ImageTask`
   take the lease to be, which `AgentLease` implements for clients that keep
   their heartbeats.
2. Torn heartbeats: what is left of `ComfyExclusive` and `EngineExclusive` when
   `Torn` is not empty.
3. The upscale server's job table; building and deploying a release.

Not modelled for good: text, image and prompt processing (pure functions of
large data), HTTP rendering, shell installers, the chess rules, the maintenance
reports, the model-provider translation: no state is shared there, or the
property would be one of a third-party library. `PROJECT.json` lists each.
