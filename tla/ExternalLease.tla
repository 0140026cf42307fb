---------------------------- MODULE ExternalLease ----------------------------
(***************************************************************************)
(* The clients of the shared XPU that come in over HTTP without a lease    *)
(* token: ExternalComfyLease of comfyui-bridge/proxy.py, whose work is a   *)
(* ComfyUI prompt, and ExternalLease of upscale-server.py.  Every request  *)
(* has a thread of its own, and a heartbeat thread besides once it holds   *)
(* the lease.                                                              *)
(*                                                                         *)
(* The protocol is the agents', but: only ComfyUI is probed (the upscale   *)
(* server also looks at its own counter before it takes over a stale       *)
(* lease); a lease directory without an owner is never removed; giving the *)
(* lease back deletes the ticket too; and no one asks for the lease again  *)
(* before the work is submitted.                                           *)
(***************************************************************************)
EXTENDS LeaseFiles

CONSTANTS ComfyClients, UpscaleClients

ASSUME ExternalAssumption ==
  /\ ComfyClients \subseteq Clients
  /\ UpscaleClients \subseteq Clients \ ComfyClients

Externals == ComfyClients \cup UpscaleClients

\* An exception out of acquire(): the upscale server releases in its finally
\* clause; the bridge's request ends, and the ticket file stays until it is late.
Aborts(c) ==
  /\ IF c \in UpscaleClients THEN LeaveQueue(c) ELSE UNCHANGED <<ticket, lateTickets>>
  /\ Goto(c, "gone")

\* TimeoutError.
ExternalGivesUp(c) ==
  /\ c \in Impatient
  /\ pc[c] = "polling"
  /\ Aborts(c)
  /\ UNCHANGED <<sequence, lease, engines, number, probe, beating, history>>

\* A stale lease with an owner is worth a probe; the upscale server first makes
\* sure that it is not at work itself.
MayTakeOver(c) ==
  /\ lease.owner # Nobody
  /\ lease.late
  /\ c \in UpscaleClients => upscale = {}

ExternalTurn(c) ==
  CASE ~lease.dir -> "probing"
    [] lease.dir /\ MayTakeOver(c) -> "reaping"
    [] lease.dir /\ ~MayTakeOver(c) -> "polling"

ExternalLooks(c) ==
  /\ pc[c] = "first"
  /\ Goto(c, ExternalTurn(c))
  /\ UNCHANGED <<files, engines, number, probe, beating, history>>

\* Variant: the other engine is asked.
ExternalObserveUpscale(c) == Observe(c, upscale)

\* engine_active and comfy_active ask ComfyUI only.
ExternalObserve(c) == Observe(c, comfy)

ExternalHeard(c, place, answer) ==
  /\ pc[c] = place
  /\ probe[c] = answer
  /\ probe' = [probe EXCEPT ![c] = "none"]

ExternalBackOff(c) ==
  /\ ExternalHeard(c, "probing", "active") \/ ExternalHeard(c, "reaping", "active")
  /\ Goto(c, "polling")
  /\ UNCHANGED <<files, engines, number, beating, history>>

\* unlink of owner.json, whoever it names by now; without one the unlink fails and
\* the directory stays.
ExternalUnlinkStale(c) ==
  /\ ExternalHeard(c, "reaping", "idle")
  /\ IF lease.owner = Nobody
       THEN Goto(c, "polling") /\ UNCHANGED <<lease, stolen, strays>>
       ELSE UnlinkOwner(c, "reaping", "clearing") /\ stolen' = stolen \cup LosesTo(c)
  /\ UNCHANGED <<sequence, ticket, lateTickets, engines, number, beating, ahead, pruned>>

\* rmdir, and the next turn of the loop whether it succeeded or not.
ExternalRemoveStale(c) ==
  /\ pc[c] = "clearing"
  /\ RemoveDir
  /\ Goto(c, "polling")
  /\ UNCHANGED <<sequence, ticket, lateTickets, engines, number, probe, beating, history>>

ExternalMakeLease(c) ==
  /\ ExternalHeard(c, "probing", "idle")
  /\ MakeLease(c)
  /\ UNCHANGED <<sequence, ticket, lateTickets, engines, number, beating, history>>

\* The directory can go between its making and the opening of a file in it, and
\* owner.json between its writing and the chmod.
ExternalClaimFails(c) ==
  /\ \/ pc[c] = "claimed" /\ ~lease.dir
     \/ pc[c] = "confirming" /\ probe[c] = "none" /\ lease.owner = Nobody
  /\ Aborts(c)
  /\ UNCHANGED <<sequence, lease, engines, number, probe, beating, history>>

\* The end of release(): the ticket goes as well, yet the loop goes on.
ExternalReturns(c) ==
  /\ LeaveQueue(c)
  /\ Goto(c, "polling")

ExternalYield(c) ==
  /\ ExternalHeard(c, "confirming", "active")
  /\ IF lease.owner = c
       THEN Goto(c, "yielding") /\ UNCHANGED <<ticket, lateTickets>>
       ELSE ExternalReturns(c)
  /\ UNCHANGED <<sequence, lease, engines, number, beating, history>>

ExternalAcquired(c) ==
  /\ ExternalHeard(c, "confirming", "idle")
  /\ LeaveQueue(c)
  /\ Goto(c, "holding")
  /\ UNCHANGED <<sequence, lease, engines, number, beating, history>>

-----------------------------------------------------------------------------

\* The prompt is forwarded, or the upscale process started.  (The bridge then writes
\* the prompt's name into owner.json the way it writes a heartbeat.)
ExternalSubmit(c) ==
  /\ pc[c] = "holding"
  /\ flying' = flying \cup {c}
  /\ Goto(c, "working")
  /\ UNCHANGED <<files, comfy, upscale, number, probe, beating, history>>

ExternalArrives(c) == Arrives(c, c \in ComfyClients)

ExternalResult(c) ==
  /\ pc[c] = "working"
  /\ c \notin Running \cup flying
  /\ Goto(c, "closing")
  /\ UNCHANGED <<files, engines, number, probe, beating, history>>

\* Forwarding fails or takes 180 seconds, or monitor_prompt meets a failed request
\* or its deadline: the lease of a prompt that may still come or run is released.
BridgeEnds(c) ==
  /\ pc[c] = "working"
  /\ c \in ComfyClients \cap (Running \cup flying)
  /\ Goto(c, "closing")
  /\ UNCHANGED <<files, engines, number, probe, beating, history>>

\* Variant: release clears lease/ without a look at the token.
ExternalReleaseOfAny(c) ==
  /\ pc[c] = "closing"
  /\ RemoveAll
  /\ Goto(c, "done")
  /\ UNCHANGED <<sequence, ticket, lateTickets, engines, number, probe, beating, history>>

\* The heartbeat thread is only told to stop: it may be between the read and
\* the write of owner.json.
ExternalRelease(c) ==
  /\ ReadToken(c, "closing", "releasing", "done")
  /\ UNCHANGED <<files, engines, number, probe, beating, history>>

\* The unlink; an owner.json that has gone ends the release before the rmdir.
ExternalUnlinksOwner(c) ==
  /\ \/ /\ UnlinkOwn(c, "releasing", IF lease.owner = Nobody THEN "done" ELSE "removing")
        /\ UNCHANGED <<ticket, lateTickets>>
     \/ /\ lease.owner # Nobody
        /\ UnlinkOwn(c, "yielding", "vacating")
        /\ UNCHANGED <<ticket, lateTickets>>
     \/ /\ lease.owner = Nobody
        /\ pc[c] = "yielding"
        /\ ExternalReturns(c)
        /\ UNCHANGED <<lease, stolen, strays>>
  /\ UNCHANGED <<sequence, engines, number, probe, beating, ahead, pruned>>

\* rmdir: a directory that is not empty is an error, one that has gone is not.
ExternalRemovesDir(c) ==
  /\ RemoveDir
  /\ \/ pc[c] = "removing" /\ Goto(c, "done") /\ UNCHANGED <<ticket, lateTickets>>
     \/ pc[c] = "vacating" /\ IF lease.dir /\ ~IsEmpty THEN Aborts(c) ELSE ExternalReturns(c)
  /\ UNCHANGED <<sequence, engines, number, probe, beating, history>>

-----------------------------------------------------------------------------

ExternalQueues(c) ==
  \/ CountWaiters(c) \/ DrawNumber(c) \/ WriteTicket(c)
  \/ ReadTicket(c) \/ RenewTicket(c) \/ ListWaiters(c)
  \/ ExternalLooks(c) \/ ExternalObserve(c) \/ ExternalBackOff(c)

ExternalClaims(c) ==
  \/ ExternalUnlinkStale(c) \/ ExternalRemoveStale(c) \/ ExternalMakeLease(c)
  \/ ExternalClaimFails(c) \/ OpenOwner(c) \/ WriteOwner(c)
  \/ ExternalYield(c) \/ ExternalAcquired(c)

ExternalHolds(c) == ExternalSubmit(c) \/ ExternalResult(c) \/ BridgeEnds(c)

ExternalReleases(c) ==
  ExternalRelease(c) \/ ExternalUnlinksOwner(c) \/ ExternalRemovesDir(c)

ExternalBeats(c) == Beat(c) \/ BeatRead(c) \/ BeatOpen(c) \/ BeatWrite(c)

ExternalStep(c) ==
  \/ ExternalGivesUp(c) \/ ExternalQueues(c) \/ ExternalClaims(c) \/ ExternalHolds(c)
  \/ ExternalReleases(c) \/ ExternalBeats(c) \/ ExternalArrives(c)
=============================================================================
