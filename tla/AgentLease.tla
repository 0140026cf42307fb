----------------------------- MODULE AgentLease -----------------------------
(***************************************************************************)
(* acquire() of image-system/src/scheduler.js and the use an image job     *)
(* makes of the lease it returns.  JavaScript runs to the next await       *)
(* without interruption by its own process, yet other processes and the    *)
(* Python servers act between any two of its file operations: one action   *)
(* is one file operation, or a group of them between which nothing another *)
(* client does could be told from its doing it before or after.            *)
(***************************************************************************)
EXTENDS LeaseFiles

CONSTANT Agents

ASSUME AgentAssumption == Agents \subseteq Clients

\* Variant: the error is thrown past the unlink of the ticket file.
AgentGivesUpWithTicket(c) ==
  /\ c \in Impatient
  /\ At(c, "polling")
  /\ Goto(c, "gone")
  /\ UNCHANGED <<files, engines, number, probe, beating, history>>

\* QUEUE_WAIT_TIMEOUT or JOB_CANCELLED, noticed at the top of the loop: the
\* ticket file is unlinked and the error thrown.
AgentGivesUp(c) ==
  /\ c \in Impatient
  /\ At(c, "polling")
  /\ LeaveQueue(c)
  /\ Goto(c, "gone")
  /\ UNCHANGED <<sequence, lease, engines, number, probe, beating, history>>

\* Variant: a directory without an owner counts as one being created for ever.
AgentTurnKeepingOrphans ==
  CASE ~lease.dir -> "probing"
    [] lease.dir /\ lease.late /\ lease.owner # Nobody -> "reaping"
    [] lease.dir /\ ~(lease.late /\ lease.owner # Nobody) -> "polling"

\* The first half of reconcileStaleLease: what the head of the queue does about
\* the lease directory it finds.
AgentTurn ==
  CASE ~lease.dir -> "probing"
    [] lease.dir /\ ~lease.late -> "polling"
    [] lease.dir /\ lease.late /\ lease.owner # Nobody -> "reaping"
    [] lease.dir /\ lease.late /\ lease.owner = Nobody -> "sweeping"

AgentLooks(c) ==
  /\ At(c, "first")
  /\ Goto(c, AgentTurn)
  /\ UNCHANGED <<files, engines, number, probe, beating, history>>

\* The two engines are asked at once, which is taken as one moment.  (A client whose
\* work goes from one to the other between the answers has a lease of its own, or is
\* one of the strays.)
AgentObserve(c) == c \notin beating /\ Observe(c, Running)

\* The answer an action consumes.
AgentHeard(c, place, answer) ==
  /\ At(c, place)
  /\ probe[c] = answer
  /\ probe' = [probe EXCEPT ![c] = "none"]

\* The engines were busy: sleep and poll again (all three awaits before mkdir).
AgentBackOff(c) ==
  /\ \E place \in {"probing", "reaping", "sweeping"} : AgentHeard(c, place, "active")
  /\ Goto(c, "polling")
  /\ UNCHANGED <<files, engines, number, beating, history>>

\* reconcileStaleLease after its await unlinks owner.json, whoever it names by now.
\* Where it meant to unlink a stale owner's and finds none it stops there, and the
\* loop goes on by what is left; where it found no owner before it does not mind.
AgentUnlinkStale(c) ==
  /\ \E place \in {"reaping", "sweeping"} :
       /\ AgentHeard(c, place, "idle")
       /\ IF place = "reaping" /\ lease.owner = Nobody
            THEN /\ Goto(c, IF lease.dir THEN "polling" ELSE "probing")
                 /\ UNCHANGED <<lease, stolen, strays>>
            ELSE UnlinkOwner(c, place, "clearing") /\ stolen' = stolen \cup LosesTo(c)
  /\ UNCHANGED <<sequence, ticket, lateTickets, engines, number, beating, ahead, pruned>>

\* rmdir: a directory that is not empty ends the wait with an error, one that has
\* gone does not.
AgentRemoveStale(c) ==
  /\ At(c, "clearing")
  /\ RemoveDir
  /\ IF lease.dir /\ ~IsEmpty
       THEN LeaveQueue(c) /\ Goto(c, "gone")
       ELSE UNCHANGED <<ticket, lateTickets>> /\ Goto(c, "probing")
  /\ UNCHANGED <<sequence, engines, number, probe, beating, history>>

AgentMakeLease(c) ==
  /\ AgentHeard(c, "probing", "idle")
  /\ MakeLease(c)
  /\ UNCHANGED <<sequence, ticket, lateTickets, engines, number, beating, history>>

\* The directory can go between its making and the opening of a file in it, and
\* owner.json between its writing and the chmod.
AgentClaimFails(c) ==
  /\ \/ At(c, "claimed") /\ ~lease.dir
     \/ At(c, "confirming") /\ probe[c] = "none" /\ lease.owner = Nobody
  /\ LeaveQueue(c)
  /\ Goto(c, "gone")
  /\ UNCHANGED <<sequence, lease, engines, number, probe, beating, history>>

\* An engine became busy before owner.json was there to be seen: give the lease
\* back and keep the place in the queue.
AgentYield(c) ==
  /\ AgentHeard(c, "confirming", "active")
  /\ ReadToken(c, "confirming", "yielding", "polling")
  /\ UNCHANGED <<files, engines, number, beating, history>>

AgentAcquired(c) ==
  /\ AgentHeard(c, "confirming", "idle")
  /\ LeaveQueue(c)
  /\ Goto(c, "holding")
  /\ UNCHANGED <<sequence, lease, engines, number, beating, history>>

-----------------------------------------------------------------------------
(* The job that holds the lease.                                           *)

\* Variant: any fresh lease will do.
DelegatedLeaseOfAnyone(c) == lease.owner # Nobody /\ ~lease.late

\* The bridge and the upscale server take delegated work only from the owner of
\* a lease with a timely heartbeat.
DelegatedLease(c) == lease.owner = c /\ ~lease.late

\* The token is checked when the request comes in; the work reaches the engine later.
AgentSubmit(c) ==
  /\ At(c, "holding")
  /\ DelegatedLease(c)
  /\ flying' = flying \cup {c}
  /\ Goto(c, "working")
  /\ UNCHANGED <<files, comfy, upscale, number, probe, beating, history>>

AgentArrives(c) == \E inComfy \in BOOLEAN : Arrives(c, inComfy)

AgentRefused(c) ==
  /\ At(c, "holding")
  /\ ~DelegatedLease(c)
  /\ Goto(c, "closing")
  /\ UNCHANGED <<files, engines, number, probe, beating, history>>

\* A result arrived: the job submits its next piece of work, or it is done.
AgentResult(c) ==
  /\ At(c, "working")
  /\ c \notin Running \cup flying
  /\ Goto(c, "holding") \/ Goto(c, "closing")
  /\ UNCHANGED <<files, engines, number, probe, beating, history>>

\* ENGINE_TIMEOUT, or a request aborted, the submission's 30 seconds included: the
\* job stops waiting for work that goes on, or has yet to reach its engine.
AgentAbandons(c) ==
  /\ At(c, "working")
  /\ c \in Running \cup flying
  /\ Goto(c, "closing")
  /\ UNCHANGED <<files, engines, number, probe, beating, history>>

\* Variant: release clears lease/ without a look at the token.
AgentReleaseOfAny(c) ==
  /\ At(c, "closing")
  /\ RemoveAll
  /\ Goto(c, "done")
  /\ UNCHANGED <<sequence, ticket, lateTickets, engines, number, probe, beating, history>>

\* releaseLease: the timer of the heartbeat is off by now.
AgentRelease(c) ==
  /\ At(c, "closing")
  /\ ReadToken(c, "closing", "releasing", "done")
  /\ UNCHANGED <<files, engines, number, probe, beating, history>>

\* The unlink of owner.json; one that is gone is no error.
AgentUnlinksOwner(c) ==
  /\ UnlinkOwn(c, "releasing", "removing") \/ UnlinkOwn(c, "yielding", "vacating")
  /\ UNCHANGED <<sequence, ticket, lateTickets, engines, number, probe, beating, ahead, pruned>>

\* rmdir; a directory that is not empty is an error, which ends the wait of a
\* client that gives the lease back in order to poll on.
AgentRemovesDir(c) ==
  /\ RemoveDir
  /\ \/ pc[c] = "removing" /\ Goto(c, "done") /\ UNCHANGED <<ticket, lateTickets>>
     \/ /\ pc[c] = "vacating"
        /\ IF lease.dir /\ ~IsEmpty
             THEN LeaveQueue(c) /\ Goto(c, "gone")
             ELSE UNCHANGED <<ticket, lateTickets>> /\ Goto(c, "polling")
  /\ UNCHANGED <<sequence, engines, number, probe, beating, history>>

-----------------------------------------------------------------------------

AgentQueues(c) ==
  \/ CountWaiters(c) \/ DrawNumber(c) \/ WriteTicket(c)
  \/ ReadTicket(c) \/ RenewTicket(c) \/ ListWaiters(c) \/ AgentGivesUp(c)
  \/ AgentLooks(c) \/ AgentObserve(c) \/ AgentBackOff(c)

AgentClaims(c) ==
  \/ AgentUnlinkStale(c) \/ AgentRemoveStale(c) \/ AgentMakeLease(c) \/ AgentClaimFails(c)
  \/ OpenOwner(c) \/ WriteOwner(c) \/ AgentYield(c) \/ AgentAcquired(c)

AgentHolds(c) == AgentSubmit(c) \/ AgentRefused(c) \/ AgentResult(c) \/ AgentAbandons(c)

AgentReleases(c) == AgentRelease(c) \/ AgentUnlinksOwner(c) \/ AgentRemovesDir(c)

AgentBeats(c) == Beat(c) \/ BeatRead(c) \/ BeatOpen(c) \/ BeatWrite(c)

AgentStep(c) ==
  \/ AgentQueues(c) \/ AgentClaims(c) \/ AgentHolds(c) \/ AgentReleases(c)
  \/ AgentBeats(c) \/ AgentArrives(c)

Next == Environment \/ \E c \in Agents : AgentStep(c)

Spec == Init /\ [][Next]_vars

-----------------------------------------------------------------------------
(* Safety.                                                                 *)

\* The FIFO of waiters/: when a client comes to make the lease directory, of the
\* clients that had a ticket file when it drew its number only one whose late
\* file was deleted meanwhile, and written again by its own renewal, has one.
NoOvertaking ==
  \A c \in Clients : pc[c] \in Claiming \cup Holding =>
    \A d \in ahead[c] : ticket[d] = 0 \/ d \in pruned

\* Whoever holds the lease is named in owner.json, unless it lost it to the recovery
\* of a stale lease, to a write over its owner.json, or to a release by a client that
\* was itself robbed after it had read its token.  A release by any other client,
\* and an acquisition, never takes a lease away.
HolderOwnsLease ==
  \A c \in Clients : pc[c] \in Holding /\ c \notin stolen => lease.owner = c

\* The work of two jobs never meets in the engines, unless one of the two lost or
\* gave back its lease while the bridge had accepted its request and not yet
\* delivered it; a stale lease taken over or a fresh one removed does not do.
EngineExclusive ==
  \A c, d \in Running : c = d \/ {c, d} \cap strays # {}

\* With clients that neither die nor fall behind nobody ever loses a lease and
\* at most one client is between mkdir and rmdir.
MutualExclusion ==
  \A c, d \in Clients :
    {pc[c], pc[d]} \subseteq Claiming \cup Holding \cup Leaving => c = d

\* A client that has ended by itself leaves neither ticket nor lease behind, nor an
\* unfinished file in the lease directory.
NothingLeftBehind ==
  \A c \in Agents : pc[c] \in {"done", "gone"} =>
    ticket[c] = 0 /\ lease.owner # c /\ c \notin lease.temps

-----------------------------------------------------------------------------
(* Liveness.                                                               *)

\* The event loop of a process that lives runs its timers and continuations,
\* requests arrive or fail, engines finish, and the clock makes what nobody renews
\* late.
AgentFairness ==
  /\ WF_vars(LeaseLate)
  /\ \A c \in Clients : WF_vars(EngineFinishes(c)) /\ WF_vars(TicketLate(c))
  /\ \A c \in Agents :
       /\ WF_vars(AgentQueues(c) \/ AgentClaims(c))
       /\ WF_vars(AgentReleases(c))
       /\ WF_vars(AgentSubmit(c) \/ AgentRefused(c))
       /\ WF_vars(AgentArrives(c) \/ NeverArrives(c))
       /\ SF_vars(AgentResult(c) /\ Goto(c, "closing"))
       /\ WF_vars(Beat(c)) /\ WF_vars(BeatOpen(c)) /\ WF_vars(BeatWrite(c))

FairSpec == Spec /\ AgentFairness

\* A heartbeat of a client that has given its lease back, on its way to owner.json.
Overtaken == \E c \in beating : pc[c] \notin Using

\* A queued agent that neither dies nor gives up gets the lease, whatever a client
\* that died with a ticket, a lease directory or a lease has left behind, unless
\* an unfinished owner.json is in the directory, or a heartbeat is written into it late.
WaiterServed ==
  \A c \in Agents \ (Impatient \cup Crashable) :
    pc[c] \in Queued ~> pc[c] \in Holding \/ Littered \/ Overtaken

\* With several waiters, and heartbeats that are overtaken by their client's release
\* and written into the lease of someone else, the wait can end with an error
\* instead; it ends in any case, an unfinished owner.json or not.
WaitEnds ==
  \A c \in Agents \ (Impatient \cup Crashable) :
    pc[c] \in Queued ~> pc[c] \in Holding \cup {"gone"}
=============================================================================
