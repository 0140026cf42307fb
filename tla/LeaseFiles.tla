----------------------------- MODULE LeaseFiles -----------------------------
(***************************************************************************)
(* The files under <root>/scheduler through which every client of the      *)
(* shared XPU meets every other one, and the two engines the XPU runs:     *)
(*                                                                         *)
(*   sequence/<n>                 one directory for every number given out *)
(*   waiters/<n>-<ticket>.json    one file for every waiting client        *)
(*   lease/owner.json             the lease: a directory made with mkdir,  *)
(*                                then a file naming its owner             *)
(*                                                                         *)
(* Agents (image-system/src/scheduler.js) and the two Python servers       *)
(* (comfyui-bridge/proxy.py, upscale-server.py) share no lock: a file      *)
(* operation is atomic, a sequence of them is not.  AgentLease and         *)
(* ExternalLease give the steps of the two kinds of client over this       *)
(* state.                                                                  *)
(*                                                                         *)
(* Time is abstract.  A heartbeat older than staleMs is "late"; who can be *)
(* late is said by the constant Suspendable, and a crashed client always   *)
(* ends up late.                                                           *)
(***************************************************************************)
EXTENDS Naturals, FiniteSets

CONSTANTS
  Clients,       \* one element for every acquire() of the lease
  Nobody,        \* not a client: the owner of a lease directory without owner.json
  MaxQueue,      \* maxQueue / AAG_XPU_MAX_QUEUE
  Suspendable,   \* clients that may run later than their heartbeat period
  Torn,          \* clients that may be preempted between reading and writing owner.json
  Crashable,     \* clients whose process may die
  Impatient,     \* clients that may be cancelled or reach the deadline of their wait
  ProbeMayFail   \* may an activity probe find a busy engine unreachable, and so idle?

ASSUME ClientAssumption ==
  /\ Nobody \notin Clients
  /\ MaxQueue \in Nat \ {0}
  /\ Suspendable \subseteq Clients
  /\ Torn \subseteq Clients
  /\ Crashable \subseteq Clients
  /\ Impatient \subseteq Clients
  /\ ProbeMayFail \in BOOLEAN

VARIABLES
  sequence,     \* the highest number in sequence/
  ticket,       \* ticket[c]: the number of c's file in waiters/, 0 when there is none
  lateTickets,  \* the clients whose ticket file has a late heartbeat
  lease,        \* lease/: whether it exists, its owner, a late time, unfinished files
  flying,       \* the clients with accepted work that has not reached an engine yet
  comfy,        \* the clients with a prompt running or pending in ComfyUI
  upscale,      \* the clients with a process running in the upscale server
  pc,           \* where each client is in acquire() and after it
  number,       \* number[c]: the sequence number c drew
  probe,        \* probe[c]: the answer to the activity probe c awaits
  beating,      \* the clients between the read and the write of a heartbeat
  stolen,       \* history: clients whose owner.json another client removed or overwrote
  ahead,        \* history: ahead[c] is who had a ticket file when c drew its number
  strays,       \* history: clients whose lease ended while their work was on its way
  pruned        \* history: clients whose ticket file was deleted as late

files == <<sequence, ticket, lateTickets, lease>>
engines == <<flying, comfy, upscale>>
history == <<stolen, ahead, strays, pruned>>
vars == <<sequence, ticket, lateTickets, lease, flying, comfy, upscale,
          pc, number, probe, beating, stolen, ahead, strays, pruned>>

Queued == {"polling", "touching", "listing", "first", "probing", "reaping", "sweeping", "clearing"}
Claiming == {"claimed", "naming", "confirming", "yielding"}
Using == {"holding", "working", "closing"}
Holding == Using \cup {"releasing"}
Leaving == {"vacating", "removing"}
Ended == {"done", "gone", "crashed"}
Places == {"new", "counted", "numbered"} \cup Queued \cup Claiming \cup Holding \cup Leaving \cup Ended

\* lease/ with its owner.json; late is the time in owner.json or, without one, the
\* time of the directory; temps names the clients with an unfinished owner.json in it.
LeaseStates ==
  {l \in [dir : BOOLEAN, owner : Clients \cup {Nobody}, late : BOOLEAN, temps : SUBSET Clients] :
     l.owner # Nobody \/ l.late \/ l.temps # {} => l.dir}
NoLease == [dir |-> FALSE, owner |-> Nobody, late |-> FALSE, temps |-> {}]
EmptyLease == [NoLease EXCEPT !.dir = TRUE]

TypeOK ==
  /\ sequence \in Nat
  /\ ticket \in [Clients -> Nat]
  /\ lateTickets \in SUBSET Clients
  /\ lease \in LeaseStates
  /\ flying \in SUBSET Clients
  /\ comfy \in SUBSET Clients
  /\ upscale \in SUBSET Clients
  /\ pc \in [Clients -> Places]
  /\ number \in [Clients -> Nat]
  /\ probe \in [Clients -> {"none", "idle", "active"}]
  /\ beating \in SUBSET Clients
  /\ stolen \in SUBSET Clients
  /\ ahead \in [Clients -> SUBSET Clients]
  /\ strays \in SUBSET Clients
  /\ pruned \in SUBSET Clients

Init ==
  /\ sequence = 0
  /\ ticket = [c \in Clients |-> 0]
  /\ lateTickets = {}
  /\ lease = NoLease
  /\ flying = {}
  /\ comfy = {}
  /\ upscale = {}
  /\ pc = [c \in Clients |-> "new"]
  /\ number = [c \in Clients |-> 0]
  /\ probe = [c \in Clients |-> "none"]
  /\ beating = {}
  /\ stolen = {}
  /\ ahead = [c \in Clients |-> {}]
  /\ strays = {}
  /\ pruned = {}

-----------------------------------------------------------------------------
(* The waiters directory.                                                  *)

Waiters == {c \in Clients : ticket[c] # 0}

\* Listing the waiters deletes the files whose heartbeat is late.
Prune(late) == [c \in Clients |-> IF c \in late THEN 0 ELSE ticket[c]]

\* Variant: the last file of the listing is taken for the head.
SortsLast(c, late) == \A d \in Waiters \ late : ticket[c] >= ticket[d]

\* c's ticket sorts first among the files a listing keeps.
SortsFirst(c, late) == \A d \in Waiters \ late : ticket[c] <= ticket[d]

Goto(c, place) == pc' = [pc EXCEPT ![c] = place]
At(c, place) == pc[c] = place /\ c \notin beating

\* The unlink of c's own ticket file.
LeaveQueue(c) ==
  /\ ticket' = [ticket EXCEPT ![c] = 0]
  /\ lateTickets' = lateTickets \ {c}

-----------------------------------------------------------------------------
(* Entering the queue and polling it: the same steps in JavaScript and in  *)
(* Python, with no lock around them.                                       *)

\* List the live waiters and compare their number with the bound.
CountWaiters(c) ==
  /\ At(c, "new")
  /\ ticket' = Prune(lateTickets)
  /\ lateTickets' = {}
  /\ pruned' = pruned \cup lateTickets
  /\ Goto(c, IF Cardinality(Waiters \ lateTickets) >= MaxQueue THEN "gone" ELSE "counted")
  /\ UNCHANGED <<sequence, lease, engines, number, probe, beating, stolen, ahead, strays>>

\* nextSequence: one more than the highest directory, made with mkdir.
DrawNumber(c) ==
  /\ At(c, "counted")
  /\ sequence' = sequence + 1
  /\ number' = [number EXCEPT ![c] = sequence + 1]
  /\ ahead' = [ahead EXCEPT ![c] = Waiters]
  /\ Goto(c, "numbered")
  /\ UNCHANGED <<ticket, lateTickets, lease, engines, probe, beating, stolen, strays, pruned>>

WriteTicket(c) ==
  /\ At(c, "numbered")
  /\ ticket' = [ticket EXCEPT ![c] = number[c]]
  /\ Goto(c, "polling")
  /\ UNCHANGED <<sequence, lateTickets, lease, engines, number, probe, beating, history>>

\* A turn of the loop reads one's own ticket file, and ends the wait with an error
\* when it was pruned.  (The agents skip the read and the renewal of a ticket
\* renewed a moment ago, which changes nothing.)
ReadTicket(c) ==
  /\ At(c, "polling")
  /\ Goto(c, IF ticket[c] = 0 THEN "gone" ELSE "touching")
  /\ UNCHANGED <<files, engines, number, probe, beating, history>>

\* The renewal replaces the file whole: one that was pruned since the read is there
\* again, under its old number.
RenewTicket(c) ==
  /\ At(c, "touching")
  /\ ticket' = [ticket EXCEPT ![c] = number[c]]
  /\ lateTickets' = lateTickets \ {c}
  /\ Goto(c, "listing")
  /\ UNCHANGED <<sequence, lease, engines, number, probe, beating, history>>

\* The listing prunes every late ticket, one's own too, and only the head goes on.
ListWaiters(c) ==
  /\ At(c, "listing")
  /\ ticket' = Prune(lateTickets)
  /\ lateTickets' = {}
  /\ pruned' = pruned \cup lateTickets
  /\ Goto(c, IF c \in Waiters \ lateTickets /\ SortsFirst(c, lateTickets) THEN "first" ELSE "polling")
  /\ UNCHANGED <<sequence, lease, engines, number, probe, beating, stolen, ahead, strays>>

-----------------------------------------------------------------------------
(* The lease directory.                                                    *)

\* The client whose owner.json c now removes or overwrites, and what it had on
\* its way to an engine.
LosesTo(c) == {lease.owner} \ {Nobody, c}
Robbed(c) ==
  /\ stolen' = (stolen \ {c}) \cup LosesTo(c)
  /\ strays' = strays \cup (LosesTo(c) \cap flying)

\* mkdir of the lease directory: it succeeds for exactly one client.
MakeLease(c) ==
  /\ lease' = IF lease.dir THEN lease ELSE EmptyLease
  /\ Goto(c, IF lease.dir THEN "polling" ELSE "claimed")

\* owner.json is written to a temporary file inside lease/, which is made again if
\* it has gone, and renamed.  A new file renews the time of a directory.
WithTemp(c) ==
  [dir |-> TRUE, owner |-> lease.owner, late |-> lease.late /\ lease.owner # Nobody,
   temps |-> lease.temps \cup {c}]
Renamed(c) == [dir |-> TRUE, owner |-> c, late |-> FALSE, temps |-> lease.temps \ {c}]

OpenOwner(c) ==
  /\ At(c, "claimed")
  /\ lease' = WithTemp(c)
  /\ Goto(c, "naming")
  /\ UNCHANGED <<sequence, ticket, lateTickets, engines, number, probe, beating, history>>

WriteOwner(c) ==
  /\ At(c, "naming")
  /\ lease' = Renamed(c)
  /\ Robbed(c)
  /\ Goto(c, "confirming")
  /\ UNCHANGED <<sequence, ticket, lateTickets, engines, number, probe, beating, ahead, pruned>>

\* Giving the lease back is three file operations.  owner.json is read, and only
\* one's own is removed ...
ReadToken(c, place, own, other) ==
  /\ pc[c] = place
  /\ Goto(c, IF lease.owner = c THEN own ELSE other)

\* ... but what is unlinked is whatever owner.json is there by then: a client that
\* was robbed after it had read its own token robs the next owner ...
Unowned == [lease EXCEPT !.owner = Nobody, !.late = lease.late /\ lease.owner = Nobody]
UnlinkOwner(c, place, next) ==
  /\ pc[c] = place
  /\ lease' = Unowned
  /\ strays' = strays \cup ({lease.owner} \cap flying)
  /\ Goto(c, next)

UnlinkOwn(c, place, next) ==
  /\ UnlinkOwner(c, place, next)
  /\ stolen' = IF c \in stolen THEN stolen \cup LosesTo(c) ELSE stolen

\* Variant: rmdir is taken to succeed whatever is in the directory.
RemoveDirUnlooked == lease' = [lease EXCEPT !.dir = FALSE]

\* ... and rmdir removes an empty directory only.
IsEmpty == lease.owner = Nobody /\ lease.temps = {}
RemoveDir == lease' = IF IsEmpty THEN NoLease ELSE lease

\* Variant: the directory is taken away with what it holds, whoever owns it.
RemoveAll == lease' = NoLease

\* A heartbeat is the read of owner.json and, when it still names c, its
\* rewriting with a new time.  Whoever is never preempted between the two does
\* them in one step.
Beat(c) ==
  /\ pc[c] \in Using
  /\ c \notin Torn
  /\ lease.owner = c /\ lease.late
  /\ lease' = Renamed(c)
  /\ UNCHANGED <<sequence, ticket, lateTickets, engines, pc, number, probe, beating, history>>

\* Variant: the heartbeats of a client that has released are not stopped.
BeatReadForever(c) ==
  /\ pc[c] \in Using \cup {"done"}
  /\ c \in Torn \ beating
  /\ lease.owner = c
  /\ beating' = beating \cup {c}
  /\ UNCHANGED <<files, engines, pc, number, probe, history>>

BeatRead(c) ==
  /\ pc[c] \in Using
  /\ c \in Torn \ beating
  /\ lease.owner = c
  /\ beating' = beating \cup {c}
  /\ UNCHANGED <<files, engines, pc, number, probe, history>>

BeatOpen(c) ==
  /\ c \in beating \ lease.temps
  /\ lease' = WithTemp(c)
  /\ UNCHANGED <<sequence, ticket, lateTickets, engines, pc, number, probe, beating, history>>

BeatWrite(c) ==
  /\ c \in beating \cap lease.temps
  /\ beating' = beating \ {c}
  /\ lease' = Renamed(c)
  /\ Robbed(c)
  /\ UNCHANGED <<sequence, ticket, lateTickets, engines, pc, number, probe, ahead, pruned>>

-----------------------------------------------------------------------------
(* The engines and the environment.                                        *)

Running == comfy \cup upscale

\* Between the acceptance of work and its arrival in an engine lies a connection:
\* the bridge forwards a prompt for up to 180 seconds.
Arrives(c, inComfy) ==
  /\ c \in flying
  /\ flying' = flying \ {c}
  /\ IF inComfy
       THEN comfy' = comfy \cup {c} /\ UNCHANGED upscale
       ELSE upscale' = upscale \cup {c} /\ UNCHANGED comfy
  /\ UNCHANGED <<files, pc, number, probe, beating, history>>

NeverArrives(c) ==
  /\ c \in flying
  /\ flying' = flying \ {c}
  /\ strays' = strays \ {c}
  /\ UNCHANGED <<files, comfy, upscale, pc, number, probe, beating, stolen, ahead, pruned>>

\* The answer of a probe of the engines that serve the clients in busy.
Answers(busy) ==
  {IF busy = {} THEN "idle" ELSE "active"} \cup (IF ProbeMayFail THEN {"idle"} ELSE {})

Observe(c, busy) ==
  /\ pc[c] \in {"probing", "reaping", "sweeping", "confirming"}
  /\ probe[c] = "none"
  /\ \E answer \in Answers(busy) : probe' = [probe EXCEPT ![c] = answer]
  /\ UNCHANGED <<files, engines, pc, number, beating, history>>

EngineFinishes(c) ==
  /\ c \in Running
  /\ comfy' = comfy \ {c}
  /\ upscale' = upscale \ {c}
  /\ strays' = strays \ {c}
  /\ UNCHANGED <<files, flying, pc, number, probe, beating, stolen, ahead, pruned>>

\* A process dies: its files and the engine work it started stay.
Crash(c) ==
  /\ c \in Crashable
  /\ pc[c] \notin Ended \cup {"new"} \/ c \in beating
  /\ Goto(c, "crashed")
  /\ beating' = beating \ {c}
  /\ UNCHANGED <<files, engines, number, probe, history>>

\* A client that still runs and is never suspended renews its files in time.
Timely(c) == pc[c] \notin Ended /\ c \notin Suspendable

TicketLate(c) ==
  /\ c \in Waiters \ lateTickets
  /\ ~Timely(c)
  /\ lateTickets' = lateTickets \cup {c}
  /\ UNCHANGED <<sequence, ticket, lease, engines, pc, number, probe, beating, history>>

\* Between two file operations on lease/ of one stretch of code.
Midway(c) ==
  pc[c] \in {"claimed", "naming", "yielding", "releasing", "clearing"} \cup Leaving \/ c \in beating

\* An owner's time gets late when the owner does, a directory's when nobody writes
\* in it.  Neither happens during the few file operations of a client that is
\* not suspended: the times found in lease/ are younger than such a stretch.
LeaseLate ==
  /\ lease.dir /\ ~lease.late
  /\ lease.owner \in Clients => ~Timely(lease.owner)
  /\ \A c \in Clients \ Suspendable : ~Midway(c)
  /\ lease' = [lease EXCEPT !.late = TRUE]
  /\ UNCHANGED <<sequence, ticket, lateTickets, engines, pc, number, probe, beating, history>>

\* A client died and left an unfinished owner.json in lease/, which no one removes.
Littered == \E c \in lease.temps : pc[c] = "crashed"

Environment ==
  \/ LeaseLate
  \/ \E c \in Clients :
       NeverArrives(c) \/ EngineFinishes(c) \/ Crash(c) \/ TicketLate(c)
=============================================================================
