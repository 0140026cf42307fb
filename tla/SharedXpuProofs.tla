--------------------------- MODULE SharedXpuProofs ---------------------------
(* Proofs about both kinds of client over one lease, for any number of them. *)
(* What AgentLeaseProofs says of an agent's step it says of every client    *)
(* that takes it; the steps a request has in common with an agent are such. *)
EXTENDS SharedXpu, AgentLeaseProofs

CommonStep(c) ==
  \/ CountWaiters(c) \/ DrawNumber(c) \/ WriteTicket(c)
  \/ ReadTicket(c) \/ RenewTicket(c) \/ ListWaiters(c)
  \/ OpenOwner(c) \/ WriteOwner(c)
  \/ Beat(c) \/ BeatRead(c) \/ BeatOpen(c) \/ BeatWrite(c)

LEMMA CommonIsAgents ==
  ASSUME NEW c \in Clients, CommonStep(c) PROVE AgentStep(c)
BY DEF CommonStep, AgentStep, AgentQueues, AgentClaims, AgentBeats

LEMMA StepOfClient ==
  ASSUME KindAssumption, [SharedNext]_vars
  PROVE  \/ Environment
         \/ \E c \in Clients : AgentStep(c) /\ c \in Agents
         \/ \E c \in Clients : ExternalStep(c) /\ c \in Externals
         \/ UNCHANGED vars
BY DEF KindAssumption, SharedNext

-----------------------------------------------------------------------------
(* Type correctness.                                                       *)

LEMMA ExternalStepType ==
  ASSUME TypeOK, NEW c \in Clients, ExternalStep(c)
  PROVE  TypeOK'
<1> USE ClientAssumption DEF TypeOK, files, engines, history, LeaseStates, Places, Queued,
    Claiming, Using, Holding, Leaving, Ended, Goto
<1>1. CASE ExternalGivesUp(c) BY <1>1 DEF ExternalGivesUp, Aborts, LeaveQueue
<1>2. CASE ExternalLooks(c)
  <2>1. ExternalTurn(c) \in {"probing", "reaping", "polling"} BY DEF ExternalTurn
  <2> QED BY <1>2, <2>1 DEF ExternalLooks
<1>3. CASE ExternalObserve(c) BY <1>3 DEF ExternalObserve, Observe, Answers
<1>4. CASE ExternalBackOff(c) BY <1>4 DEF ExternalBackOff, ExternalHeard
<1>5. CASE ExternalUnlinkStale(c)
  <2>1. CASE pc' = [pc EXCEPT ![c] = "polling"] /\ UNCHANGED <<lease, stolen, strays>>
    BY <1>5, <2>1 DEF ExternalUnlinkStale, ExternalHeard
  <2>2. CASE lease' = Unowned /\ pc' = [pc EXCEPT ![c] = "clearing"]
    BY <1>5, <2>2, UnownedIsBare DEF ExternalUnlinkStale, ExternalHeard, UnlinkOwner, LosesTo
  <2> QED BY <1>5, <2>1, <2>2 DEF ExternalUnlinkStale, UnlinkOwner
<1>6. CASE ExternalRemoveStale(c)
  BY <1>6 DEF ExternalRemoveStale, RemoveDir, IsEmpty, NoLease
<1>7. CASE ExternalMakeLease(c)
  BY <1>7 DEF ExternalMakeLease, ExternalHeard, MakeLease, NoLease, EmptyLease
<1>8. CASE ExternalClaimFails(c) BY <1>8 DEF ExternalClaimFails, Aborts, LeaveQueue
<1>9. CASE ExternalYield(c)
  BY <1>9 DEF ExternalYield, ExternalHeard, ExternalReturns, LeaveQueue
<1>10. CASE ExternalAcquired(c) BY <1>10 DEF ExternalAcquired, ExternalHeard, LeaveQueue
<1>11. CASE ExternalSubmit(c) BY <1>11 DEF ExternalSubmit
<1>12. CASE ExternalResult(c) BY <1>12 DEF ExternalResult
<1>13. CASE BridgeEnds(c) BY <1>13 DEF BridgeEnds
<1>14. CASE ExternalRelease(c) BY <1>14 DEF ExternalRelease, ReadToken
<1>15. CASE ExternalUnlinksOwner(c)
  <2>1. CASE UnlinkOwn(c, "releasing", "done") /\ UNCHANGED <<ticket, lateTickets>>
    BY <1>15, <2>1, UnownedIsBare DEF ExternalUnlinksOwner, UnlinkOwn, UnlinkOwner, LosesTo
  <2>2. CASE UnlinkOwn(c, "releasing", "removing") /\ UNCHANGED <<ticket, lateTickets>>
    BY <1>15, <2>2, UnownedIsBare DEF ExternalUnlinksOwner, UnlinkOwn, UnlinkOwner, LosesTo
  <2>3. CASE UnlinkOwn(c, "yielding", "vacating") /\ UNCHANGED <<ticket, lateTickets>>
    BY <1>15, <2>3, UnownedIsBare DEF ExternalUnlinksOwner, UnlinkOwn, UnlinkOwner, LosesTo
  <2>4. CASE /\ lease.owner = Nobody /\ pc[c] = "yielding"
             /\ ExternalReturns(c) /\ UNCHANGED <<lease, stolen, strays>>
    BY <1>15, <2>4 DEF ExternalUnlinksOwner, ExternalReturns, LeaveQueue
  <2> QED BY <1>15, <2>1, <2>2, <2>3, <2>4 DEF ExternalUnlinksOwner
<1>16. CASE ExternalRemovesDir(c)
  BY <1>16 DEF ExternalRemovesDir, RemoveDir, IsEmpty, NoLease, Aborts, ExternalReturns,
         LeaveQueue
<1>17. CASE ExternalArrives(c) BY <1>17 DEF ExternalArrives, Arrives
<1>18. CASE CommonStep(c) BY <1>18, CommonIsAgents, AgentStepType
<1> QED BY <1>1, <1>2, <1>3, <1>4, <1>5, <1>6, <1>7, <1>8, <1>9, <1>10, <1>11, <1>12, <1>13,
           <1>14, <1>15, <1>16, <1>17, <1>18
        DEF ExternalStep, ExternalQueues, ExternalClaims, ExternalHolds,
            ExternalReleases, ExternalBeats, CommonStep

\* Every state that agents and requests reach together is one of the declared shapes.
THEOREM TypesShared == SharedSpec => []TypeOK
<1>1. Init => TypeOK
  BY ClientAssumption DEF Init, TypeOK, NoLease, LeaseStates, Places
<1>2. TypeOK /\ [SharedNext]_vars => TypeOK'
  <2> SUFFICES ASSUME TypeOK, [SharedNext]_vars PROVE TypeOK' OBVIOUS
  <2>1. CASE UNCHANGED vars BY <2>1 DEF TypeOK, vars
  <2> QED BY <2>1, StepOfClient, KindAssumption, EnvironmentType, AgentStepType,
             ExternalStepType
<1> QED BY <1>1, <1>2, PTL DEF SharedSpec

-----------------------------------------------------------------------------
(* The lease, with the invariant of AgentLeaseProofs.                      *)

LEMMA ExternalStepKeepsLease ==
  ASSUME TypeOK, LeaseHeld, NEW c \in Clients, ExternalStep(c)
  PROVE  LeaseHeld'
<1> USE ClientAssumption DEF LeaseHeld, TypeOK, files, engines, history, LeaseStates, Using,
    Holding, Leaving, Ended, Goto
<1>1. CASE ExternalGivesUp(c) BY <1>1 DEF ExternalGivesUp, Aborts, LeaveQueue
<1>2. CASE ExternalLooks(c)
  <2>1. ExternalTurn(c) \in {"probing", "reaping", "polling"} BY DEF ExternalTurn
  <2> QED BY <1>2, <2>1 DEF ExternalLooks
<1>3. CASE ExternalObserve(c) BY <1>3 DEF ExternalObserve, Observe, Answers
<1>4. CASE ExternalBackOff(c) BY <1>4 DEF ExternalBackOff, ExternalHeard
<1>5. CASE ExternalUnlinkStale(c)
  <2>1. CASE pc' = [pc EXCEPT ![c] = "polling"] /\ UNCHANGED <<lease, stolen, strays>>
    BY <1>5, <2>1 DEF ExternalUnlinkStale, ExternalHeard
  <2>2. CASE lease' = Unowned /\ pc' = [pc EXCEPT ![c] = "clearing"]
    BY <1>5, <2>2, UnownedIsBare DEF ExternalUnlinkStale, ExternalHeard, UnlinkOwner, LosesTo
  <2> QED BY <1>5, <2>1, <2>2 DEF ExternalUnlinkStale, UnlinkOwner
<1>6. CASE ExternalRemoveStale(c)
  BY <1>6 DEF ExternalRemoveStale, RemoveDir, IsEmpty, NoLease
<1>7. CASE ExternalMakeLease(c)
  BY <1>7 DEF ExternalMakeLease, ExternalHeard, MakeLease, NoLease, EmptyLease
<1>8. CASE ExternalClaimFails(c) BY <1>8 DEF ExternalClaimFails, Aborts, LeaveQueue
<1>9. CASE ExternalYield(c)
  BY <1>9 DEF ExternalYield, ExternalHeard, ExternalReturns, LeaveQueue
<1>10. CASE ExternalAcquired(c) BY <1>10 DEF ExternalAcquired, ExternalHeard, LeaveQueue
<1>11. CASE ExternalSubmit(c) BY <1>11 DEF ExternalSubmit
<1>12. CASE ExternalResult(c) BY <1>12 DEF ExternalResult
<1>13. CASE BridgeEnds(c) BY <1>13 DEF BridgeEnds
<1>14. CASE ExternalRelease(c) BY <1>14 DEF ExternalRelease, ReadToken
<1>15. CASE ExternalUnlinksOwner(c)
  <2>1. CASE UnlinkOwn(c, "releasing", "done") /\ UNCHANGED <<ticket, lateTickets>>
    BY <1>15, <2>1, UnownedIsBare DEF ExternalUnlinksOwner, UnlinkOwn, UnlinkOwner, LosesTo
  <2>2. CASE UnlinkOwn(c, "releasing", "removing") /\ UNCHANGED <<ticket, lateTickets>>
    BY <1>15, <2>2, UnownedIsBare DEF ExternalUnlinksOwner, UnlinkOwn, UnlinkOwner, LosesTo
  <2>3. CASE UnlinkOwn(c, "yielding", "vacating") /\ UNCHANGED <<ticket, lateTickets>>
    BY <1>15, <2>3, UnownedIsBare DEF ExternalUnlinksOwner, UnlinkOwn, UnlinkOwner, LosesTo
  <2>4. CASE /\ lease.owner = Nobody /\ pc[c] = "yielding"
             /\ ExternalReturns(c) /\ UNCHANGED <<lease, stolen, strays>>
    BY <1>15, <2>4 DEF ExternalUnlinksOwner, ExternalReturns, LeaveQueue
  <2> QED BY <1>15, <2>1, <2>2, <2>3, <2>4 DEF ExternalUnlinksOwner
<1>16. CASE ExternalRemovesDir(c)
  BY <1>16 DEF ExternalRemovesDir, RemoveDir, IsEmpty, NoLease, Aborts, ExternalReturns,
         LeaveQueue
<1>17. CASE ExternalArrives(c) BY <1>17 DEF ExternalArrives, Arrives
<1>18. CASE CommonStep(c) BY <1>18, CommonIsAgents, AgentStepKeepsLease
<1> QED BY <1>1, <1>2, <1>3, <1>4, <1>5, <1>6, <1>7, <1>8, <1>9, <1>10, <1>11, <1>12, <1>13,
           <1>14, <1>15, <1>16, <1>17, <1>18
        DEF ExternalStep, ExternalQueues, ExternalClaims, ExternalHolds,
            ExternalReleases, ExternalBeats, CommonStep

LEMMA LeaseShared == SharedSpec => []LeaseHeld
<1>1. Init => LeaseHeld
  BY DEF Init, LeaseHeld, Using, Holding
<1>2. TypeOK /\ LeaseHeld /\ [SharedNext]_vars => LeaseHeld'
  <2> SUFFICES ASSUME TypeOK, LeaseHeld, [SharedNext]_vars PROVE LeaseHeld' OBVIOUS
  <2>1. CASE UNCHANGED vars BY <2>1 DEF LeaseHeld, vars
  <2> QED BY <2>1, StepOfClient, KindAssumption, EnvironmentKeepsLease,
             AgentStepKeepsLease, ExternalStepKeepsLease
<1> QED BY <1>1, <1>2, TypesShared, PTL DEF SharedSpec

\* Neither protocol takes away the other's lease by an acquisition, or by the
\* release of a client that was not itself robbed, for any number of agents and
\* requests that die, fall behind, are preempted or give up.
THEOREM HolderKeepsSharedLease == SharedSpec => []HolderOwnsLease
<1>1. LeaseHeld => HolderOwnsLease
  BY DEF LeaseHeld, HolderOwnsLease
<1> QED BY <1>1, LeaseShared, PTL

-----------------------------------------------------------------------------
(* The queue.                                                              *)

LEMMA ExternalStepKeepsOrder ==
  ASSUME TypeOK, QueueOrder, NEW c \in Clients, ExternalStep(c)
  PROVE  QueueOrder'
<1> USE ClientAssumption DEF QueueOrder, Arrived, Headed, TypeOK, files, engines, history,
    Using, Holding, Claiming, Leaving, Ended, Goto
<1>1. CASE ExternalGivesUp(c) BY <1>1 DEF ExternalGivesUp, Aborts, LeaveQueue
<1>2. CASE ExternalLooks(c)
  <2>1. ExternalTurn(c) \in {"probing", "reaping", "polling"} BY DEF ExternalTurn
  <2> QED BY <1>2, <2>1 DEF ExternalLooks
<1>3. CASE ExternalObserve(c) BY <1>3 DEF ExternalObserve, Observe, Answers
<1>4. CASE ExternalBackOff(c) BY <1>4 DEF ExternalBackOff, ExternalHeard
<1>5. CASE ExternalUnlinkStale(c)
  <2>1. CASE pc' = [pc EXCEPT ![c] = "polling"] /\ UNCHANGED <<lease, stolen, strays>>
    BY <1>5, <2>1 DEF ExternalUnlinkStale, ExternalHeard
  <2>2. CASE lease' = Unowned /\ pc' = [pc EXCEPT ![c] = "clearing"]
    BY <1>5, <2>2, UnownedIsBare DEF ExternalUnlinkStale, ExternalHeard, UnlinkOwner, LosesTo
  <2> QED BY <1>5, <2>1, <2>2 DEF ExternalUnlinkStale, UnlinkOwner
<1>6. CASE ExternalRemoveStale(c)
  BY <1>6 DEF ExternalRemoveStale, RemoveDir, IsEmpty, NoLease
<1>7. CASE ExternalMakeLease(c)
  BY <1>7 DEF ExternalMakeLease, ExternalHeard, MakeLease, NoLease, EmptyLease
<1>8. CASE ExternalClaimFails(c) BY <1>8 DEF ExternalClaimFails, Aborts, LeaveQueue
<1>9. CASE ExternalYield(c)
  BY <1>9 DEF ExternalYield, ExternalHeard, ExternalReturns, LeaveQueue
<1>10. CASE ExternalAcquired(c) BY <1>10 DEF ExternalAcquired, ExternalHeard, LeaveQueue
<1>11. CASE ExternalSubmit(c) BY <1>11 DEF ExternalSubmit
<1>12. CASE ExternalResult(c) BY <1>12 DEF ExternalResult
<1>13. CASE BridgeEnds(c) BY <1>13 DEF BridgeEnds
<1>14. CASE ExternalRelease(c) BY <1>14 DEF ExternalRelease, ReadToken
<1>15. CASE ExternalUnlinksOwner(c)
  <2>1. CASE UnlinkOwn(c, "releasing", "done") /\ UNCHANGED <<ticket, lateTickets>>
    BY <1>15, <2>1, UnownedIsBare DEF ExternalUnlinksOwner, UnlinkOwn, UnlinkOwner, LosesTo
  <2>2. CASE UnlinkOwn(c, "releasing", "removing") /\ UNCHANGED <<ticket, lateTickets>>
    BY <1>15, <2>2, UnownedIsBare DEF ExternalUnlinksOwner, UnlinkOwn, UnlinkOwner, LosesTo
  <2>3. CASE UnlinkOwn(c, "yielding", "vacating") /\ UNCHANGED <<ticket, lateTickets>>
    BY <1>15, <2>3, UnownedIsBare DEF ExternalUnlinksOwner, UnlinkOwn, UnlinkOwner, LosesTo
  <2>4. CASE /\ lease.owner = Nobody /\ pc[c] = "yielding"
             /\ ExternalReturns(c) /\ UNCHANGED <<lease, stolen, strays>>
    BY <1>15, <2>4 DEF ExternalUnlinksOwner, ExternalReturns, LeaveQueue
  <2> QED BY <1>15, <2>1, <2>2, <2>3, <2>4 DEF ExternalUnlinksOwner
<1>16. CASE ExternalRemovesDir(c)
  BY <1>16 DEF ExternalRemovesDir, RemoveDir, IsEmpty, NoLease, Aborts, ExternalReturns,
         LeaveQueue
<1>17. CASE ExternalArrives(c) BY <1>17 DEF ExternalArrives, Arrives
<1>18. CASE CommonStep(c) BY <1>18, CommonIsAgents, AgentStepKeepsOrder
<1> QED BY <1>1, <1>2, <1>3, <1>4, <1>5, <1>6, <1>7, <1>8, <1>9, <1>10, <1>11, <1>12, <1>13,
           <1>14, <1>15, <1>16, <1>17, <1>18
        DEF ExternalStep, ExternalQueues, ExternalClaims, ExternalHolds,
            ExternalReleases, ExternalBeats, CommonStep

LEMMA QueueShared == SharedSpec => []QueueOrder
<1>1. Init => QueueOrder
  BY DEF Init, QueueOrder, Arrived, Headed, Claiming, Using, Holding
<1>2. TypeOK /\ QueueOrder /\ [SharedNext]_vars => QueueOrder'
  <2> SUFFICES ASSUME TypeOK, QueueOrder, [SharedNext]_vars PROVE QueueOrder' OBVIOUS
  <2>1. CASE UNCHANGED vars BY <2>1 DEF QueueOrder, Arrived, vars
  <2> QED BY <2>1, StepOfClient, KindAssumption, EnvironmentKeepsOrder,
             AgentStepKeepsOrder, ExternalStepKeepsOrder
<1> QED BY <1>1, <1>2, TypesShared, PTL DEF SharedSpec

\* One queue for both: no agent overtakes a request that was waiting when it came,
\* and no request an agent, although each side lists and prunes by itself; only a
\* pruned ticket that its client writes again comes too late to be respected.
THEOREM FirstInFirstOutShared == SharedSpec => []NoOvertaking
<1>1. QueueOrder => NoOvertaking BY DEF QueueOrder, Headed, NoOvertaking
<1> QED BY <1>1, QueueShared, PTL

-----------------------------------------------------------------------------
(* Where work is, with the invariant of AgentLeaseProofs.                  *)

LEMMA ExternalStepKeepsWork ==
  ASSUME Torn = {}, TypeOK, WorkPlaced, NEW c \in Clients, ExternalStep(c)
  PROVE  WorkPlaced'
<1> USE ClientAssumption DEF WorkPlaced, Running, TypeOK, files, engines, history, Using,
    Holding, Leaving, Ended, Goto
<1>1. CASE ExternalGivesUp(c) BY <1>1 DEF ExternalGivesUp, Aborts, LeaveQueue
<1>2. CASE ExternalLooks(c)
  <2>1. ExternalTurn(c) \in {"probing", "reaping", "polling"} BY DEF ExternalTurn
  <2> QED BY <1>2, <2>1 DEF ExternalLooks
<1>3. CASE ExternalObserve(c) BY <1>3 DEF ExternalObserve, Observe, Answers
<1>4. CASE ExternalBackOff(c) BY <1>4 DEF ExternalBackOff, ExternalHeard
<1>5. CASE ExternalUnlinkStale(c)
  <2>1. CASE pc' = [pc EXCEPT ![c] = "polling"] /\ UNCHANGED <<lease, stolen, strays>>
    BY <1>5, <2>1 DEF ExternalUnlinkStale, ExternalHeard
  <2>2. CASE lease' = Unowned /\ pc' = [pc EXCEPT ![c] = "clearing"]
    BY <1>5, <2>2, UnownedIsBare DEF ExternalUnlinkStale, ExternalHeard, UnlinkOwner, LosesTo
  <2> QED BY <1>5, <2>1, <2>2 DEF ExternalUnlinkStale, UnlinkOwner
<1>6. CASE ExternalRemoveStale(c)
  BY <1>6 DEF ExternalRemoveStale, RemoveDir, IsEmpty, NoLease
<1>7. CASE ExternalMakeLease(c)
  BY <1>7 DEF ExternalMakeLease, ExternalHeard, MakeLease, NoLease, EmptyLease
<1>8. CASE ExternalClaimFails(c) BY <1>8 DEF ExternalClaimFails, Aborts, LeaveQueue
<1>9. CASE ExternalYield(c)
  BY <1>9 DEF ExternalYield, ExternalHeard, ExternalReturns, LeaveQueue
<1>10. CASE ExternalAcquired(c) BY <1>10 DEF ExternalAcquired, ExternalHeard, LeaveQueue
<1>11. CASE ExternalSubmit(c) BY <1>11 DEF ExternalSubmit
<1>12. CASE ExternalResult(c) BY <1>12 DEF ExternalResult
<1>13. CASE BridgeEnds(c) BY <1>13 DEF BridgeEnds
<1>14. CASE ExternalRelease(c) BY <1>14 DEF ExternalRelease, ReadToken
<1>15. CASE ExternalUnlinksOwner(c)
  <2>1. CASE UnlinkOwn(c, "releasing", "done") /\ UNCHANGED <<ticket, lateTickets>>
    BY <1>15, <2>1, UnownedIsBare DEF ExternalUnlinksOwner, UnlinkOwn, UnlinkOwner, LosesTo
  <2>2. CASE UnlinkOwn(c, "releasing", "removing") /\ UNCHANGED <<ticket, lateTickets>>
    BY <1>15, <2>2, UnownedIsBare DEF ExternalUnlinksOwner, UnlinkOwn, UnlinkOwner, LosesTo
  <2>3. CASE UnlinkOwn(c, "yielding", "vacating") /\ UNCHANGED <<ticket, lateTickets>>
    BY <1>15, <2>3, UnownedIsBare DEF ExternalUnlinksOwner, UnlinkOwn, UnlinkOwner, LosesTo
  <2>4. CASE /\ lease.owner = Nobody /\ pc[c] = "yielding"
             /\ ExternalReturns(c) /\ UNCHANGED <<lease, stolen, strays>>
    BY <1>15, <2>4 DEF ExternalUnlinksOwner, ExternalReturns, LeaveQueue
  <2> QED BY <1>15, <2>1, <2>2, <2>3, <2>4 DEF ExternalUnlinksOwner
<1>16. CASE ExternalRemovesDir(c)
  BY <1>16 DEF ExternalRemovesDir, RemoveDir, IsEmpty, NoLease, Aborts, ExternalReturns,
         LeaveQueue
<1>17. CASE ExternalArrives(c) BY <1>17 DEF ExternalArrives, Arrives
<1>18. CASE CommonStep(c) BY <1>18, CommonIsAgents, AgentStepKeepsWork
<1> QED BY <1>1, <1>2, <1>3, <1>4, <1>5, <1>6, <1>7, <1>8, <1>9, <1>10, <1>11, <1>12, <1>13,
           <1>14, <1>15, <1>16, <1>17, <1>18
        DEF ExternalStep, ExternalQueues, ExternalClaims, ExternalHolds,
            ExternalReleases, ExternalBeats, CommonStep

LEMMA WorkShared == ASSUME Torn = {} PROVE SharedSpec => []WorkPlaced
<1>1. Init => WorkPlaced
  BY DEF Init, WorkPlaced, Running
<1>2. TypeOK /\ WorkPlaced /\ [SharedNext]_vars => WorkPlaced'
  <2> SUFFICES ASSUME TypeOK, WorkPlaced, [SharedNext]_vars PROVE WorkPlaced' OBVIOUS
  <2>1. CASE UNCHANGED vars BY <2>1 DEF WorkPlaced, Running, vars
  <2> QED BY <2>1, StepOfClient, KindAssumption, EnvironmentKeepsWork,
             AgentStepKeepsWork, ExternalStepKeepsWork
<1> QED BY <1>1, <1>2, TypesShared, PTL DEF SharedSpec

-----------------------------------------------------------------------------
(* ComfyUI.  An external client does not look at the lease again when it     *)
(* submits, so the owner that has seen an idle engine is alone there but for *)
(* strays and for requests that were robbed before; and a request that works *)
(* has its acquisition behind it and is not absolved of that again.          *)

Loose == strays \cup (Externals \cap stolen)

ComfyFenced ==
  /\ \A c \in flying \ Loose : lease.owner = c
  /\ \A c \in Clients :
       lease.owner = c /\ (Confirmed(c) \/ c \in flying) => comfy \subseteq {c} \cup Loose
  /\ ComfyExclusive

LEMMA EnvironmentKeepsComfy ==
  ASSUME TypeOK, WorkPlaced, ComfyFenced, Environment PROVE ComfyFenced'
<1> USE ClientAssumption DEF ComfyFenced, ComfyExclusive, Loose, Confirmed, Running,
    WorkPlaced, TypeOK, files, engines, history, Using, Holding, Ended, Goto
<1>1. CASE LeaseLate BY <1>1 DEF LeaseLate
<1>2. ASSUME NEW c \in Clients, NeverArrives(c) PROVE ComfyFenced'
  BY <1>2 DEF NeverArrives
<1>3. ASSUME NEW c \in Clients, EngineFinishes(c) PROVE ComfyFenced'
  BY <1>3 DEF EngineFinishes, Running
<1>4. ASSUME NEW c \in Clients, Crash(c) PROVE ComfyFenced'
  BY <1>4 DEF Crash
<1>5. ASSUME NEW c \in Clients, TicketLate(c) PROVE ComfyFenced'
  BY <1>5 DEF TicketLate
<1> QED BY <1>1, <1>2, <1>3, <1>4, <1>5 DEF Environment

LEMMA AgentStepKeepsComfy ==
  ASSUME ProbeMayFail = FALSE, TypeOK, WorkPlaced, ComfyFenced, NEW c \in Clients,
         AgentStep(c)
  PROVE  ComfyFenced'
<1> USE ClientAssumption DEF ComfyFenced, ComfyExclusive, Loose, Confirmed, Running,
    WorkPlaced, TypeOK, files, engines, history, Using, Holding, Ended, At, Goto
<1>1. CASE CountWaiters(c) BY <1>1 DEF CountWaiters, Prune
<1>2. CASE DrawNumber(c) BY <1>2 DEF DrawNumber, Waiters
<1>3. CASE WriteTicket(c) BY <1>3 DEF WriteTicket
<1>4. CASE ReadTicket(c) BY <1>4 DEF ReadTicket
<1>5. CASE RenewTicket(c) BY <1>5 DEF RenewTicket
<1>6. CASE ListWaiters(c) BY <1>6 DEF ListWaiters, Prune, SortsFirst, Waiters
<1>7. CASE AgentGivesUp(c) BY <1>7 DEF AgentGivesUp, LeaveQueue
<1>8. CASE AgentLooks(c)
  <2>1. AgentTurn \in {"probing", "polling", "reaping", "sweeping"} BY DEF AgentTurn
  <2> QED BY <1>8, <2>1 DEF AgentLooks
<1>9. CASE AgentObserve(c)
  <2>1. PICK answer \in Answers(Running) : probe' = [probe EXCEPT ![c] = answer]
    BY <1>9 DEF AgentObserve, Observe
  <2>2. answer = "idle" => comfy = {}
    BY <2>1 DEF Answers, Running
  <2> QED BY <1>9, <2>1, <2>2 DEF AgentObserve, Observe
<1>10. CASE AgentBackOff(c) BY <1>10 DEF AgentBackOff, AgentHeard
<1>11. CASE AgentUnlinkStale(c)
  <2>1. CASE /\ pc' = [pc EXCEPT ![c] = "polling"] \/ pc' = [pc EXCEPT ![c] = "probing"]
             /\ UNCHANGED <<lease, stolen, strays>>
    BY <1>11, <2>1 DEF AgentUnlinkStale, AgentHeard
  <2>2. CASE lease' = Unowned /\ pc' = [pc EXCEPT ![c] = "clearing"]
    BY <1>11, <2>2, UnownedIsBare DEF AgentUnlinkStale, AgentHeard, UnlinkOwner, LosesTo
  <2> QED BY <1>11, <2>1, <2>2 DEF AgentUnlinkStale, UnlinkOwner
<1>12. CASE AgentRemoveStale(c)
  BY <1>12 DEF AgentRemoveStale, RemoveDir, IsEmpty, NoLease, LeaveQueue
<1>13. CASE AgentMakeLease(c)
  <2>1. lease'.owner = lease.owner /\ UNCHANGED <<engines, history, beating>>
    BY <1>13 DEF AgentMakeLease, MakeLease, NoLease, EmptyLease, LeaseStates
  <2>2. \A d \in Clients : Confirmed(d)' => Confirmed(d)
    BY <1>13 DEF AgentMakeLease, AgentHeard, MakeLease
  <2> QED BY <2>1, <2>2
<1>14. CASE AgentClaimFails(c) BY <1>14 DEF AgentClaimFails, LeaveQueue
<1>15. CASE OpenOwner(c) BY <1>15 DEF OpenOwner, WithTemp
<1>16. CASE WriteOwner(c) BY <1>16 DEF WriteOwner, Renamed, Robbed, LosesTo
<1>17. CASE AgentYield(c) BY <1>17 DEF AgentYield, AgentHeard, ReadToken
<1>18. CASE AgentAcquired(c) BY <1>18 DEF AgentAcquired, AgentHeard, LeaveQueue
<1>19. CASE AgentSubmit(c)
  <2>1. lease.owner = c /\ pc[c] = "holding" BY <1>19 DEF AgentSubmit, DelegatedLease
  <2> QED BY <1>19, <2>1 DEF AgentSubmit
<1>20. CASE AgentRefused(c) BY <1>20 DEF AgentRefused
<1>21. CASE AgentResult(c) BY <1>21 DEF AgentResult
<1>22. CASE AgentAbandons(c) BY <1>22 DEF AgentAbandons
<1>23. CASE AgentRelease(c) BY <1>23 DEF AgentRelease, ReadToken
<1>24. CASE AgentUnlinksOwner(c)
  <2>1. CASE UnlinkOwn(c, "releasing", "removing")
    BY <1>24, <2>1, UnownedIsBare DEF AgentUnlinksOwner, UnlinkOwn, UnlinkOwner, LosesTo
  <2>2. CASE UnlinkOwn(c, "yielding", "vacating")
    BY <1>24, <2>2, UnownedIsBare DEF AgentUnlinksOwner, UnlinkOwn, UnlinkOwner, LosesTo
  <2> QED BY <1>24, <2>1, <2>2 DEF AgentUnlinksOwner
<1>25. CASE AgentRemovesDir(c)
  BY <1>25 DEF AgentRemovesDir, RemoveDir, IsEmpty, NoLease, LeaveQueue
<1>26. CASE Beat(c) BY <1>26 DEF Beat, Renamed
<1>27. CASE BeatRead(c) BY <1>27 DEF BeatRead
<1>28. CASE BeatOpen(c) BY <1>28 DEF BeatOpen, WithTemp
<1>29. CASE BeatWrite(c) BY <1>29 DEF BeatWrite, Renamed, Robbed, LosesTo
<1>30. CASE AgentArrives(c)
  <2>1. /\ c \in flying /\ flying' = flying \ {c}
        /\ comfy' = comfy \cup {c} \/ comfy' = comfy
    BY <1>30 DEF AgentArrives, Arrives
  <2>2. UNCHANGED <<files, pc, number, probe, beating, history>>
    BY <1>30 DEF AgentArrives, Arrives
  <2>3. c \in Loose \/ comfy \subseteq {c} \cup Loose BY <2>1
  <2> QED BY <2>1, <2>2, <2>3
<1> QED BY <1>1, <1>2, <1>3, <1>4, <1>5, <1>6, <1>7, <1>8, <1>9, <1>10, <1>11, <1>12, <1>13,
           <1>14, <1>15, <1>16, <1>17, <1>18, <1>19, <1>20, <1>21, <1>22, <1>23, <1>24,
           <1>25, <1>26, <1>27, <1>28, <1>29, <1>30
        DEF AgentStep, AgentQueues, AgentClaims, AgentHolds, AgentReleases, AgentBeats

LEMMA ExternalStepKeepsComfy ==
  ASSUME ProbeMayFail = FALSE, TypeOK, LeaseHeld, WorkPlaced, ComfyFenced, NEW c \in Clients,
         c \in Externals, ExternalStep(c)
  PROVE  ComfyFenced'
<1> USE ClientAssumption DEF ComfyFenced, ComfyExclusive, Loose, Confirmed, Running,
    WorkPlaced, TypeOK, files, engines, history, Using, Holding, Ended, Goto
<1>1. CASE ExternalGivesUp(c) BY <1>1 DEF ExternalGivesUp, Aborts, LeaveQueue
<1>2. CASE ExternalLooks(c)
  <2>1. ExternalTurn(c) \in {"probing", "reaping", "polling"} BY DEF ExternalTurn
  <2> QED BY <1>2, <2>1 DEF ExternalLooks
<1>3. CASE ExternalObserve(c)
  <2>1. PICK answer \in Answers(comfy) : probe' = [probe EXCEPT ![c] = answer]
    BY <1>3 DEF ExternalObserve, Observe
  <2>2. answer = "idle" => comfy = {}
    BY <2>1 DEF Answers, Running
  <2> QED BY <1>3, <2>1, <2>2 DEF ExternalObserve, Observe
<1>4. CASE ExternalBackOff(c) BY <1>4 DEF ExternalBackOff, ExternalHeard
<1>5. CASE ExternalUnlinkStale(c)
  <2>1. CASE pc' = [pc EXCEPT ![c] = "polling"] /\ UNCHANGED <<lease, stolen, strays>>
    BY <1>5, <2>1 DEF ExternalUnlinkStale, ExternalHeard
  <2>2. CASE lease' = Unowned /\ pc' = [pc EXCEPT ![c] = "clearing"]
    BY <1>5, <2>2, UnownedIsBare DEF ExternalUnlinkStale, ExternalHeard, UnlinkOwner, LosesTo
  <2> QED BY <1>5, <2>1, <2>2 DEF ExternalUnlinkStale, UnlinkOwner
<1>6. CASE ExternalRemoveStale(c)
  BY <1>6 DEF ExternalRemoveStale, RemoveDir, IsEmpty, NoLease
<1>7. CASE ExternalMakeLease(c)
  <2>1. lease'.owner = lease.owner /\ UNCHANGED <<engines, history, beating>>
    BY <1>7 DEF ExternalMakeLease, MakeLease, NoLease, EmptyLease, LeaseStates
  <2>2. \A d \in Clients : Confirmed(d)' => Confirmed(d)
    BY <1>7 DEF ExternalMakeLease, ExternalHeard, MakeLease
  <2> QED BY <2>1, <2>2
<1>8. CASE ExternalClaimFails(c) BY <1>8 DEF ExternalClaimFails, Aborts, LeaveQueue
<1>9. CASE ExternalYield(c)
  BY <1>9 DEF ExternalYield, ExternalHeard, ExternalReturns, LeaveQueue
<1>10. CASE ExternalAcquired(c) BY <1>10 DEF ExternalAcquired, ExternalHeard, LeaveQueue
<1>11. CASE ExternalSubmit(c)
  <2>1. c \in stolen \/ lease.owner = c BY <1>11 DEF ExternalSubmit, LeaseHeld
  <2> QED BY <1>11, <2>1 DEF ExternalSubmit
<1>12. CASE ExternalResult(c) BY <1>12 DEF ExternalResult
<1>13. CASE BridgeEnds(c) BY <1>13 DEF BridgeEnds
<1>14. CASE ExternalRelease(c) BY <1>14 DEF ExternalRelease, ReadToken
<1>15. CASE ExternalUnlinksOwner(c)
  <2>1. CASE UnlinkOwn(c, "releasing", "done") /\ UNCHANGED <<ticket, lateTickets>>
    BY <1>15, <2>1, UnownedIsBare DEF ExternalUnlinksOwner, UnlinkOwn, UnlinkOwner, LosesTo
  <2>2. CASE UnlinkOwn(c, "releasing", "removing") /\ UNCHANGED <<ticket, lateTickets>>
    BY <1>15, <2>2, UnownedIsBare DEF ExternalUnlinksOwner, UnlinkOwn, UnlinkOwner, LosesTo
  <2>3. CASE UnlinkOwn(c, "yielding", "vacating") /\ UNCHANGED <<ticket, lateTickets>>
    BY <1>15, <2>3, UnownedIsBare DEF ExternalUnlinksOwner, UnlinkOwn, UnlinkOwner, LosesTo
  <2>4. CASE /\ lease.owner = Nobody /\ pc[c] = "yielding"
             /\ ExternalReturns(c) /\ UNCHANGED <<lease, stolen, strays>>
    BY <1>15, <2>4 DEF ExternalUnlinksOwner, ExternalReturns, LeaveQueue
  <2> QED BY <1>15, <2>1, <2>2, <2>3, <2>4 DEF ExternalUnlinksOwner
<1>16. CASE ExternalRemovesDir(c)
  BY <1>16 DEF ExternalRemovesDir, RemoveDir, IsEmpty, NoLease, Aborts, ExternalReturns,
         LeaveQueue
<1>17. CASE ExternalArrives(c)
  <2>1. /\ c \in flying /\ flying' = flying \ {c}
        /\ comfy' = comfy \cup {c} \/ comfy' = comfy
    BY <1>17 DEF ExternalArrives, Arrives
  <2>2. UNCHANGED <<files, pc, number, probe, beating, history>>
    BY <1>17 DEF ExternalArrives, Arrives
  <2>3. c \in Loose \/ comfy \subseteq {c} \cup Loose BY <2>1
  <2> QED BY <2>1, <2>2, <2>3
<1>18. CASE CommonStep(c) BY <1>18, CommonIsAgents, AgentStepKeepsComfy
<1> QED BY <1>1, <1>2, <1>3, <1>4, <1>5, <1>6, <1>7, <1>8, <1>9, <1>10, <1>11, <1>12, <1>13,
           <1>14, <1>15, <1>16, <1>17, <1>18
        DEF ExternalStep, ExternalQueues, ExternalClaims, ExternalHolds,
            ExternalReleases, ExternalBeats, CommonStep

\* Two prompts are in ComfyUI together only when one was accepted under a lease that
\* ended before it arrived, or is a request's whose lease was taken away, for any
\* number of agents and requests, as long as heartbeats are not torn and a busy
\* engine answers its probe.
THEOREM ComfyShared ==
  ASSUME Torn = {}, ProbeMayFail = FALSE PROVE SharedSpec => []ComfyExclusive
<1>1. Init => ComfyFenced
  BY ClientAssumption DEF Init, ComfyFenced, ComfyExclusive, NoLease
<1>2. TypeOK /\ LeaseHeld /\ WorkPlaced /\ ComfyFenced /\ [SharedNext]_vars => ComfyFenced'
  <2> SUFFICES ASSUME TypeOK, LeaseHeld, WorkPlaced, ComfyFenced, [SharedNext]_vars
               PROVE  ComfyFenced'
    OBVIOUS
  <2>1. CASE UNCHANGED vars
    BY <2>1 DEF ComfyFenced, ComfyExclusive, Loose, Confirmed, vars
  <2> QED BY <2>1, StepOfClient, KindAssumption, EnvironmentKeepsComfy,
             AgentStepKeepsComfy, ExternalStepKeepsComfy
<1>3. ComfyFenced => ComfyExclusive BY DEF ComfyFenced
<1> QED BY <1>1, <1>2, <1>3, TypesShared, LeaseShared, WorkShared, PTL DEF SharedSpec

-----------------------------------------------------------------------------
(* Agents among themselves.  A request probes ComfyUI only and submits unseen *)
(* by anyone, so the engines as a whole are not fenced; but two agents' work  *)
(* meets only over a stray: between them stands the lease of whoever came     *)
(* last.                                                                      *)

AgentsExclusive ==
  \A c, d \in Running \cap Agents : c = d \/ {c, d} \cap strays # {}

AgentsFenced ==
  /\ \A c \in (flying \cap Agents) \ strays : lease.owner = c
  /\ \A c \in Agents :
       lease.owner = c /\ (Confirmed(c) \/ c \in flying) =>
         Running \cap Agents \subseteq {c} \cup strays
  /\ AgentsExclusive

LEMMA EnvironmentKeepsAgents ==
  ASSUME TypeOK, WorkPlaced, AgentsFenced, Environment PROVE AgentsFenced'
<1> USE ClientAssumption, AgentAssumption DEF AgentsFenced, AgentsExclusive, Confirmed,
    Running, WorkPlaced, TypeOK, files, engines, history, Using, Holding, Ended, Goto
<1>1. CASE LeaseLate BY <1>1 DEF LeaseLate
<1>2. ASSUME NEW c \in Clients, NeverArrives(c) PROVE AgentsFenced'
  BY <1>2 DEF NeverArrives
<1>3. ASSUME NEW c \in Clients, EngineFinishes(c) PROVE AgentsFenced'
  BY <1>3 DEF EngineFinishes, Running
<1>4. ASSUME NEW c \in Clients, Crash(c) PROVE AgentsFenced'
  BY <1>4 DEF Crash
<1>5. ASSUME NEW c \in Clients, TicketLate(c) PROVE AgentsFenced'
  BY <1>5 DEF TicketLate
<1> QED BY <1>1, <1>2, <1>3, <1>4, <1>5 DEF Environment

LEMMA AgentStepKeepsAgents ==
  ASSUME ProbeMayFail = FALSE, TypeOK, WorkPlaced, AgentsFenced, NEW c \in Clients,
         AgentStep(c)
  PROVE  AgentsFenced'
<1> USE ClientAssumption, AgentAssumption DEF AgentsFenced, AgentsExclusive, Confirmed,
    Running, WorkPlaced, TypeOK, files, engines, history, Using, Holding, Ended, At, Goto
<1>1. CASE CountWaiters(c) BY <1>1 DEF CountWaiters, Prune
<1>2. CASE DrawNumber(c) BY <1>2 DEF DrawNumber, Waiters
<1>3. CASE WriteTicket(c) BY <1>3 DEF WriteTicket
<1>4. CASE ReadTicket(c) BY <1>4 DEF ReadTicket
<1>5. CASE RenewTicket(c) BY <1>5 DEF RenewTicket
<1>6. CASE ListWaiters(c) BY <1>6 DEF ListWaiters, Prune, SortsFirst, Waiters
<1>7. CASE AgentGivesUp(c) BY <1>7 DEF AgentGivesUp, LeaveQueue
<1>8. CASE AgentLooks(c)
  <2>1. AgentTurn \in {"probing", "polling", "reaping", "sweeping"} BY DEF AgentTurn
  <2> QED BY <1>8, <2>1 DEF AgentLooks
<1>9. CASE AgentObserve(c)
  <2>1. PICK answer \in Answers(Running) : probe' = [probe EXCEPT ![c] = answer]
    BY <1>9 DEF AgentObserve, Observe
  <2>2. answer = "idle" => Running = {}
    BY <2>1 DEF Answers, Running
  <2> QED BY <1>9, <2>1, <2>2 DEF AgentObserve, Observe
<1>10. CASE AgentBackOff(c) BY <1>10 DEF AgentBackOff, AgentHeard
<1>11. CASE AgentUnlinkStale(c)
  <2>1. CASE /\ pc' = [pc EXCEPT ![c] = "polling"] \/ pc' = [pc EXCEPT ![c] = "probing"]
             /\ UNCHANGED <<lease, stolen, strays>>
    BY <1>11, <2>1 DEF AgentUnlinkStale, AgentHeard
  <2>2. CASE lease' = Unowned /\ pc' = [pc EXCEPT ![c] = "clearing"]
    BY <1>11, <2>2, UnownedIsBare DEF AgentUnlinkStale, AgentHeard, UnlinkOwner, LosesTo
  <2> QED BY <1>11, <2>1, <2>2 DEF AgentUnlinkStale, UnlinkOwner
<1>12. CASE AgentRemoveStale(c)
  BY <1>12 DEF AgentRemoveStale, RemoveDir, IsEmpty, NoLease, LeaveQueue
<1>13. CASE AgentMakeLease(c)
  <2>1. lease'.owner = lease.owner /\ UNCHANGED <<engines, history, beating>>
    BY <1>13 DEF AgentMakeLease, MakeLease, NoLease, EmptyLease, LeaseStates
  <2>2. \A d \in Clients : Confirmed(d)' => Confirmed(d)
    BY <1>13 DEF AgentMakeLease, AgentHeard, MakeLease
  <2> QED BY <2>1, <2>2
<1>14. CASE AgentClaimFails(c) BY <1>14 DEF AgentClaimFails, LeaveQueue
<1>15. CASE OpenOwner(c) BY <1>15 DEF OpenOwner, WithTemp
<1>16. CASE WriteOwner(c) BY <1>16 DEF WriteOwner, Renamed, Robbed, LosesTo
<1>17. CASE AgentYield(c) BY <1>17 DEF AgentYield, AgentHeard, ReadToken
<1>18. CASE AgentAcquired(c) BY <1>18 DEF AgentAcquired, AgentHeard, LeaveQueue
<1>19. CASE AgentSubmit(c)
  <2>1. lease.owner = c /\ pc[c] = "holding" BY <1>19 DEF AgentSubmit, DelegatedLease
  <2> QED BY <1>19, <2>1 DEF AgentSubmit
<1>20. CASE AgentRefused(c) BY <1>20 DEF AgentRefused
<1>21. CASE AgentResult(c) BY <1>21 DEF AgentResult
<1>22. CASE AgentAbandons(c) BY <1>22 DEF AgentAbandons
<1>23. CASE AgentRelease(c) BY <1>23 DEF AgentRelease, ReadToken
<1>24. CASE AgentUnlinksOwner(c)
  <2>1. CASE UnlinkOwn(c, "releasing", "removing")
    BY <1>24, <2>1, UnownedIsBare DEF AgentUnlinksOwner, UnlinkOwn, UnlinkOwner, LosesTo
  <2>2. CASE UnlinkOwn(c, "yielding", "vacating")
    BY <1>24, <2>2, UnownedIsBare DEF AgentUnlinksOwner, UnlinkOwn, UnlinkOwner, LosesTo
  <2> QED BY <1>24, <2>1, <2>2 DEF AgentUnlinksOwner
<1>25. CASE AgentRemovesDir(c)
  BY <1>25 DEF AgentRemovesDir, RemoveDir, IsEmpty, NoLease, LeaveQueue
<1>26. CASE Beat(c) BY <1>26 DEF Beat, Renamed
<1>27. CASE BeatRead(c) BY <1>27 DEF BeatRead
<1>28. CASE BeatOpen(c) BY <1>28 DEF BeatOpen, WithTemp
<1>29. CASE BeatWrite(c) BY <1>29 DEF BeatWrite, Renamed, Robbed, LosesTo
<1>30. CASE AgentArrives(c)
  <2>1. c \in flying /\ Running' = Running \cup {c} /\ flying' = flying \ {c}
    BY <1>30 DEF AgentArrives, Arrives
  <2>2. UNCHANGED <<files, pc, number, probe, beating, history>>
    BY <1>30 DEF AgentArrives, Arrives
  <2>3. c \in strays \/ c \notin Agents \/ Running \cap Agents \subseteq {c} \cup strays BY <2>1
  <2> QED BY <2>1, <2>2, <2>3
<1> QED BY <1>1, <1>2, <1>3, <1>4, <1>5, <1>6, <1>7, <1>8, <1>9, <1>10, <1>11, <1>12, <1>13,
           <1>14, <1>15, <1>16, <1>17, <1>18, <1>19, <1>20, <1>21, <1>22, <1>23, <1>24,
           <1>25, <1>26, <1>27, <1>28, <1>29, <1>30
        DEF AgentStep, AgentQueues, AgentClaims, AgentHolds, AgentReleases, AgentBeats

LEMMA ExternalStepKeepsAgents ==
  ASSUME ProbeMayFail = FALSE, TypeOK, WorkPlaced, AgentsFenced,
         NEW c \in Clients, c \in Externals, ExternalStep(c)
  PROVE  AgentsFenced'
<1>1. c \notin Agents BY KindAssumption
<1> USE <1>1, ClientAssumption, AgentAssumption DEF AgentsFenced, AgentsExclusive,
    Confirmed, Running, WorkPlaced, TypeOK, files, engines, history, Using, Holding, Ended,
    Goto
<1>2. CASE ExternalGivesUp(c) BY <1>2 DEF ExternalGivesUp, Aborts, LeaveQueue
<1>3. CASE ExternalLooks(c)
  <2>1. ExternalTurn(c) \in {"probing", "reaping", "polling"} BY DEF ExternalTurn
  <2> QED BY <1>3, <2>1 DEF ExternalLooks
<1>4. CASE ExternalObserve(c) BY <1>4 DEF ExternalObserve, Observe, Answers
<1>5. CASE ExternalBackOff(c) BY <1>5 DEF ExternalBackOff, ExternalHeard
<1>6. CASE ExternalUnlinkStale(c)
  <2>1. CASE pc' = [pc EXCEPT ![c] = "polling"] /\ UNCHANGED <<lease, stolen, strays>>
    BY <1>6, <2>1 DEF ExternalUnlinkStale, ExternalHeard
  <2>2. CASE lease' = Unowned /\ pc' = [pc EXCEPT ![c] = "clearing"]
    BY <1>6, <2>2, UnownedIsBare DEF ExternalUnlinkStale, ExternalHeard, UnlinkOwner, LosesTo
  <2> QED BY <1>6, <2>1, <2>2 DEF ExternalUnlinkStale, UnlinkOwner
<1>7. CASE ExternalRemoveStale(c)
  BY <1>7 DEF ExternalRemoveStale, RemoveDir, IsEmpty, NoLease
<1>8. CASE ExternalMakeLease(c)
  <2>1. lease'.owner = lease.owner /\ UNCHANGED <<engines, history, beating>>
    BY <1>8 DEF ExternalMakeLease, MakeLease, NoLease, EmptyLease, LeaseStates
  <2>2. \A d \in Clients : Confirmed(d)' => Confirmed(d)
    BY <1>8 DEF ExternalMakeLease, ExternalHeard, MakeLease
  <2> QED BY <2>1, <2>2
<1>9. CASE ExternalClaimFails(c) BY <1>9 DEF ExternalClaimFails, Aborts, LeaveQueue
<1>10. CASE ExternalYield(c)
  BY <1>10 DEF ExternalYield, ExternalHeard, ExternalReturns, LeaveQueue
<1>11. CASE ExternalAcquired(c) BY <1>11 DEF ExternalAcquired, ExternalHeard, LeaveQueue
<1>12. CASE ExternalSubmit(c) BY <1>12 DEF ExternalSubmit
<1>13. CASE ExternalResult(c) BY <1>13 DEF ExternalResult
<1>14. CASE BridgeEnds(c) BY <1>14 DEF BridgeEnds
<1>15. CASE ExternalRelease(c) BY <1>15 DEF ExternalRelease, ReadToken
<1>16. CASE ExternalUnlinksOwner(c)
  <2>1. CASE UnlinkOwn(c, "releasing", "done") /\ UNCHANGED <<ticket, lateTickets>>
    BY <1>16, <2>1, UnownedIsBare DEF ExternalUnlinksOwner, UnlinkOwn, UnlinkOwner, LosesTo
  <2>2. CASE UnlinkOwn(c, "releasing", "removing") /\ UNCHANGED <<ticket, lateTickets>>
    BY <1>16, <2>2, UnownedIsBare DEF ExternalUnlinksOwner, UnlinkOwn, UnlinkOwner, LosesTo
  <2>3. CASE UnlinkOwn(c, "yielding", "vacating") /\ UNCHANGED <<ticket, lateTickets>>
    BY <1>16, <2>3, UnownedIsBare DEF ExternalUnlinksOwner, UnlinkOwn, UnlinkOwner, LosesTo
  <2>4. CASE /\ lease.owner = Nobody /\ pc[c] = "yielding"
             /\ ExternalReturns(c) /\ UNCHANGED <<lease, stolen, strays>>
    BY <1>16, <2>4 DEF ExternalUnlinksOwner, ExternalReturns, LeaveQueue
  <2> QED BY <1>16, <2>1, <2>2, <2>3, <2>4 DEF ExternalUnlinksOwner
<1>17. CASE ExternalRemovesDir(c)
  BY <1>17 DEF ExternalRemovesDir, RemoveDir, IsEmpty, NoLease, Aborts, ExternalReturns,
         LeaveQueue
<1>18. CASE ExternalArrives(c)
  <2>1. c \in flying /\ Running' = Running \cup {c} /\ flying' = flying \ {c}
    BY <1>18 DEF ExternalArrives, Arrives
  <2>2. UNCHANGED <<files, pc, number, probe, beating, history>>
    BY <1>18 DEF ExternalArrives, Arrives
  <2>3. c \in strays \/ c \notin Agents \/ Running \cap Agents \subseteq {c} \cup strays BY <2>1
  <2> QED BY <2>1, <2>2, <2>3
<1>19. CASE CommonStep(c) BY <1>19, CommonIsAgents, AgentStepKeepsAgents
<1> QED BY <1>2, <1>3, <1>4, <1>5, <1>6, <1>7, <1>8, <1>9, <1>10, <1>11, <1>12, <1>13,
           <1>14, <1>15, <1>16, <1>17, <1>18, <1>19
        DEF ExternalStep, ExternalQueues, ExternalClaims, ExternalHolds,
            ExternalReleases, ExternalBeats, CommonStep

\* Requests that probe one engine and submit without asking again do not bring the
\* work of two agents together: EngineExclusive holds among the agents still.
THEOREM AgentsApart ==
  ASSUME Torn = {}, ProbeMayFail = FALSE PROVE SharedSpec => []AgentsExclusive
<1>1. Init => AgentsFenced
  BY AgentAssumption, ClientAssumption DEF Init, AgentsFenced, AgentsExclusive, Running, NoLease
<1>2. TypeOK /\ WorkPlaced /\ AgentsFenced /\ [SharedNext]_vars => AgentsFenced'
  <2> SUFFICES ASSUME TypeOK, WorkPlaced, AgentsFenced, [SharedNext]_vars
               PROVE  AgentsFenced'
    OBVIOUS
  <2>1. CASE UNCHANGED vars
    BY <2>1 DEF AgentsFenced, AgentsExclusive, Confirmed, Running, vars
  <2> QED BY <2>1, StepOfClient, KindAssumption, EnvironmentKeepsAgents,
             AgentStepKeepsAgents, ExternalStepKeepsAgents
<1>3. AgentsFenced => AgentsExclusive BY DEF AgentsFenced
<1> QED BY <1>1, <1>2, <1>3, TypesShared, WorkShared, PTL DEF SharedSpec

-----------------------------------------------------------------------------
(* Exclusion among clients that keep their heartbeats, with the invariant of *)
(* AgentLeaseProofs.                                                         *)

LEMMA ExternalStepKeepsUnique ==
  ASSUME Torn = {}, TypeOK, LeaseUnique, NEW c \in Clients, ExternalStep(c)
  PROVE  LeaseUnique'
<1> USE ClientAssumption DEF LeaseUnique, Bare, TypeOK, LeaseStates, files, engines,
    history, Using, Holding, Claiming, Leaving, Ended, Goto
<1>1. CASE ExternalGivesUp(c) BY <1>1 DEF ExternalGivesUp, Aborts, LeaveQueue
<1>2. CASE ExternalLooks(c)
  <2>1. ExternalTurn(c) \in {"probing", "polling"} BY DEF ExternalTurn, MayTakeOver
  <2> QED BY <1>2, <2>1 DEF ExternalLooks
<1>3. CASE ExternalObserve(c) BY <1>3 DEF ExternalObserve, Observe, Answers
<1>4. CASE ExternalBackOff(c) BY <1>4 DEF ExternalBackOff, ExternalHeard
<1>5. CASE ExternalUnlinkStale(c)
  <2>1. CASE pc' = [pc EXCEPT ![c] = "polling"] /\ UNCHANGED <<lease, stolen, strays>>
    BY <1>5, <2>1 DEF ExternalUnlinkStale, ExternalHeard
  <2>2. CASE lease' = Unowned /\ pc' = [pc EXCEPT ![c] = "clearing"]
    BY <1>5, <2>2, UnownedIsBare DEF ExternalUnlinkStale, ExternalHeard, UnlinkOwner, LosesTo
  <2> QED BY <1>5, <2>1, <2>2 DEF ExternalUnlinkStale, UnlinkOwner
<1>6. CASE ExternalRemoveStale(c)
  BY <1>6 DEF ExternalRemoveStale, RemoveDir, IsEmpty, NoLease
<1>7. CASE ExternalMakeLease(c)
  BY <1>7 DEF ExternalMakeLease, ExternalHeard, MakeLease, NoLease, EmptyLease
<1>8. CASE ExternalClaimFails(c) BY <1>8 DEF ExternalClaimFails, Aborts, LeaveQueue
<1>9. CASE ExternalYield(c)
  BY <1>9 DEF ExternalYield, ExternalHeard, ExternalReturns, LeaveQueue
<1>10. CASE ExternalAcquired(c) BY <1>10 DEF ExternalAcquired, ExternalHeard, LeaveQueue
<1>11. CASE ExternalSubmit(c) BY <1>11 DEF ExternalSubmit
<1>12. CASE ExternalResult(c) BY <1>12 DEF ExternalResult
<1>13. CASE BridgeEnds(c) BY <1>13 DEF BridgeEnds
<1>14. CASE ExternalRelease(c) BY <1>14 DEF ExternalRelease, ReadToken
<1>15. CASE ExternalUnlinksOwner(c)
  <2>1. CASE UnlinkOwn(c, "releasing", "done") /\ UNCHANGED <<ticket, lateTickets>>
    BY <1>15, <2>1, UnownedIsBare DEF ExternalUnlinksOwner, UnlinkOwn, UnlinkOwner, LosesTo
  <2>2. CASE UnlinkOwn(c, "releasing", "removing") /\ UNCHANGED <<ticket, lateTickets>>
    BY <1>15, <2>2, UnownedIsBare DEF ExternalUnlinksOwner, UnlinkOwn, UnlinkOwner, LosesTo
  <2>3. CASE UnlinkOwn(c, "yielding", "vacating") /\ UNCHANGED <<ticket, lateTickets>>
    BY <1>15, <2>3, UnownedIsBare DEF ExternalUnlinksOwner, UnlinkOwn, UnlinkOwner, LosesTo
  <2>4. CASE /\ lease.owner = Nobody /\ pc[c] = "yielding"
             /\ ExternalReturns(c) /\ UNCHANGED <<lease, stolen, strays>>
    BY <1>15, <2>4 DEF ExternalUnlinksOwner, ExternalReturns, LeaveQueue
  <2> QED BY <1>15, <2>1, <2>2, <2>3, <2>4 DEF ExternalUnlinksOwner
<1>16. CASE ExternalRemovesDir(c)
  BY <1>16 DEF ExternalRemovesDir, RemoveDir, IsEmpty, NoLease, Aborts, ExternalReturns,
         LeaveQueue
<1>17. CASE ExternalArrives(c) BY <1>17 DEF ExternalArrives, Arrives
<1>18. CASE CommonStep(c) BY <1>18, CommonIsAgents, AgentStepKeepsUnique
<1> QED BY <1>1, <1>2, <1>3, <1>4, <1>5, <1>6, <1>7, <1>8, <1>9, <1>10, <1>11, <1>12, <1>13,
           <1>14, <1>15, <1>16, <1>17, <1>18
        DEF ExternalStep, ExternalQueues, ExternalClaims, ExternalHolds,
            ExternalReleases, ExternalBeats, CommonStep

\* One lease, one holder, of whichever kind, when clients live and keep their
\* heartbeats, whatever the probes answer and whoever gives up.
THEOREM AtMostOneHolderShared ==
  ASSUME Suspendable = {}, Crashable = {}, Torn = {} PROVE SharedSpec => []MutualExclusion
<1>1. Init => LeaseUnique
  BY ClientAssumption DEF Init, LeaseUnique, Bare, Leaving, NoLease, Using, Holding
<1>2. TypeOK /\ LeaseUnique /\ [SharedNext]_vars => LeaseUnique'
  <2> SUFFICES ASSUME TypeOK, LeaseUnique, [SharedNext]_vars PROVE LeaseUnique' OBVIOUS
  <2>1. CASE UNCHANGED vars BY <2>1 DEF LeaseUnique, vars
  <2> QED BY <2>1, StepOfClient, KindAssumption, EnvironmentKeepsUnique,
             AgentStepKeepsUnique, ExternalStepKeepsUnique
<1>3. LeaseUnique => MutualExclusion
  BY ClientAssumption DEF LeaseUnique, Bare, MutualExclusion, Claiming, Holding, Leaving
<1> QED BY <1>1, <1>2, <1>3, TypesShared, PTL DEF SharedSpec

-----------------------------------------------------------------------------
(* What an agent leaves behind, with requests about: the invariant Tidy for   *)
(* the agents.  A request's own heartbeat thread may write the lease again.   *)

AgentsTidy ==
  /\ \A c \in beating \cap Agents : pc[c] \in Using
  /\ \A c \in Agents : pc[c] \in Holding \cup {"removing", "done", "gone"} => ticket[c] = 0
  /\ \A c \in Agents :
       lease.owner = c => pc[c] \in Holding \cup {"confirming", "yielding", "crashed"}
  /\ \A c \in lease.temps \cap Agents : pc[c] \in {"naming", "crashed"} \/ c \in beating

LEMMA EnvironmentKeepsAgentsTidy ==
  ASSUME TypeOK, QueueOrder, AgentsTidy, Environment PROVE AgentsTidy'
<1> USE ClientAssumption, AgentAssumption DEF AgentsTidy, QueueOrder, Arrived, TypeOK,
    LeaseStates, files, engines, history, Using, Holding, Leaving, Ended, Goto
<1>1. CASE LeaseLate BY <1>1 DEF LeaseLate
<1>2. ASSUME NEW c \in Clients, NeverArrives(c) PROVE AgentsTidy'
  BY <1>2 DEF NeverArrives
<1>3. ASSUME NEW c \in Clients, EngineFinishes(c) PROVE AgentsTidy'
  BY <1>3 DEF EngineFinishes, Running
<1>4. ASSUME NEW c \in Clients, Crash(c) PROVE AgentsTidy'
  BY <1>4 DEF Crash
<1>5. ASSUME NEW c \in Clients, TicketLate(c) PROVE AgentsTidy'
  BY <1>5 DEF TicketLate
<1> QED BY <1>1, <1>2, <1>3, <1>4, <1>5 DEF Environment

LEMMA AgentStepKeepsAgentsTidy ==
  ASSUME TypeOK, QueueOrder, AgentsTidy, NEW c \in Clients, AgentStep(c)
  PROVE  AgentsTidy'
<1> USE ClientAssumption, AgentAssumption DEF AgentsTidy, QueueOrder, Arrived, TypeOK,
    LeaseStates, files, engines, history, Using, Holding, Leaving, Ended, At, Goto
<1>1. CASE CountWaiters(c) BY <1>1 DEF CountWaiters, Prune
<1>2. CASE DrawNumber(c) BY <1>2 DEF DrawNumber, Waiters
<1>3. CASE WriteTicket(c) BY <1>3 DEF WriteTicket
<1>4. CASE ReadTicket(c) BY <1>4 DEF ReadTicket
<1>5. CASE RenewTicket(c) BY <1>5 DEF RenewTicket
<1>6. CASE ListWaiters(c) BY <1>6 DEF ListWaiters, Prune, SortsFirst, Waiters
<1>7. CASE AgentGivesUp(c) BY <1>7 DEF AgentGivesUp, LeaveQueue
<1>8. CASE AgentLooks(c)
  <2>1. AgentTurn \in {"probing", "polling", "reaping", "sweeping"} BY DEF AgentTurn
  <2> QED BY <1>8, <2>1 DEF AgentLooks
<1>9. CASE AgentObserve(c) BY <1>9 DEF AgentObserve, Observe, Answers
<1>10. CASE AgentBackOff(c) BY <1>10 DEF AgentBackOff, AgentHeard
<1>11. CASE AgentUnlinkStale(c)
  <2>1. CASE /\ pc' = [pc EXCEPT ![c] = "polling"] \/ pc' = [pc EXCEPT ![c] = "probing"]
             /\ UNCHANGED <<lease, stolen, strays>>
    BY <1>11, <2>1 DEF AgentUnlinkStale, AgentHeard
  <2>2. CASE lease' = Unowned /\ pc' = [pc EXCEPT ![c] = "clearing"]
    BY <1>11, <2>2, UnownedIsBare DEF AgentUnlinkStale, AgentHeard, UnlinkOwner, LosesTo
  <2> QED BY <1>11, <2>1, <2>2 DEF AgentUnlinkStale, UnlinkOwner
<1>12. CASE AgentRemoveStale(c)
  BY <1>12 DEF AgentRemoveStale, RemoveDir, IsEmpty, NoLease, LeaveQueue
<1>13. CASE AgentMakeLease(c)
  BY <1>13 DEF AgentMakeLease, AgentHeard, MakeLease, NoLease, EmptyLease
<1>14. CASE AgentClaimFails(c) BY <1>14 DEF AgentClaimFails, LeaveQueue
<1>15. CASE OpenOwner(c) BY <1>15 DEF OpenOwner, WithTemp
<1>16. CASE WriteOwner(c) BY <1>16 DEF WriteOwner, Renamed, Robbed, LosesTo
<1>17. CASE AgentYield(c) BY <1>17 DEF AgentYield, AgentHeard, ReadToken
<1>18. CASE AgentAcquired(c) BY <1>18 DEF AgentAcquired, AgentHeard, LeaveQueue
<1>19. CASE AgentSubmit(c) BY <1>19 DEF AgentSubmit, DelegatedLease
<1>20. CASE AgentRefused(c) BY <1>20 DEF AgentRefused
<1>21. CASE AgentResult(c) BY <1>21 DEF AgentResult
<1>22. CASE AgentAbandons(c) BY <1>22 DEF AgentAbandons
<1>23. CASE AgentRelease(c) BY <1>23 DEF AgentRelease, ReadToken
<1>24. CASE AgentUnlinksOwner(c)
  <2>1. CASE UnlinkOwn(c, "releasing", "removing")
    BY <1>24, <2>1, UnownedIsBare DEF AgentUnlinksOwner, UnlinkOwn, UnlinkOwner, LosesTo
  <2>2. CASE UnlinkOwn(c, "yielding", "vacating")
    BY <1>24, <2>2, UnownedIsBare DEF AgentUnlinksOwner, UnlinkOwn, UnlinkOwner, LosesTo
  <2> QED BY <1>24, <2>1, <2>2 DEF AgentUnlinksOwner
<1>25. CASE AgentRemovesDir(c)
  BY <1>25 DEF AgentRemovesDir, RemoveDir, IsEmpty, NoLease, LeaveQueue
<1>26. CASE Beat(c) BY <1>26 DEF Beat, Renamed
<1>27. CASE BeatRead(c) BY <1>27 DEF BeatRead
<1>28. CASE BeatOpen(c) BY <1>28 DEF BeatOpen, WithTemp
<1>29. CASE BeatWrite(c) BY <1>29 DEF BeatWrite, Renamed, Robbed, LosesTo
<1>30. CASE AgentArrives(c) BY <1>30 DEF AgentArrives, Arrives
<1> QED BY <1>1, <1>2, <1>3, <1>4, <1>5, <1>6, <1>7, <1>8, <1>9, <1>10, <1>11, <1>12, <1>13,
           <1>14, <1>15, <1>16, <1>17, <1>18, <1>19, <1>20, <1>21, <1>22, <1>23, <1>24,
           <1>25, <1>26, <1>27, <1>28, <1>29, <1>30
        DEF AgentStep, AgentQueues, AgentClaims, AgentHolds, AgentReleases, AgentBeats

LEMMA ExternalStepKeepsAgentsTidy ==
  ASSUME TypeOK, QueueOrder, AgentsTidy, NEW c \in Clients, c \in Externals, ExternalStep(c)
  PROVE  AgentsTidy'
<1>1. c \notin Agents BY KindAssumption
<1> USE <1>1, ClientAssumption, AgentAssumption DEF AgentsTidy, QueueOrder, Arrived, TypeOK,
    LeaseStates, files, engines, history, Using, Holding, Leaving, Ended, Goto
<1>2. CASE ExternalGivesUp(c) BY <1>2 DEF ExternalGivesUp, Aborts, LeaveQueue
<1>3. CASE ExternalLooks(c)
  <2>1. ExternalTurn(c) \in {"probing", "reaping", "polling"} BY DEF ExternalTurn
  <2> QED BY <1>3, <2>1 DEF ExternalLooks
<1>4. CASE ExternalObserve(c) BY <1>4 DEF ExternalObserve, Observe, Answers
<1>5. CASE ExternalBackOff(c) BY <1>5 DEF ExternalBackOff, ExternalHeard
<1>6. CASE ExternalUnlinkStale(c)
  <2>1. CASE pc' = [pc EXCEPT ![c] = "polling"] /\ UNCHANGED <<lease, stolen, strays>>
    BY <1>6, <2>1 DEF ExternalUnlinkStale, ExternalHeard
  <2>2. CASE lease' = Unowned /\ pc' = [pc EXCEPT ![c] = "clearing"]
    BY <1>6, <2>2, UnownedIsBare DEF ExternalUnlinkStale, ExternalHeard, UnlinkOwner, LosesTo
  <2> QED BY <1>6, <2>1, <2>2 DEF ExternalUnlinkStale, UnlinkOwner
<1>7. CASE ExternalRemoveStale(c)
  BY <1>7 DEF ExternalRemoveStale, RemoveDir, IsEmpty, NoLease
<1>8. CASE ExternalMakeLease(c)
  BY <1>8 DEF ExternalMakeLease, ExternalHeard, MakeLease, NoLease, EmptyLease
<1>9. CASE ExternalClaimFails(c) BY <1>9 DEF ExternalClaimFails, Aborts, LeaveQueue
<1>10. CASE ExternalYield(c)
  BY <1>10 DEF ExternalYield, ExternalHeard, ExternalReturns, LeaveQueue
<1>11. CASE ExternalAcquired(c) BY <1>11 DEF ExternalAcquired, ExternalHeard, LeaveQueue
<1>12. CASE ExternalSubmit(c) BY <1>12 DEF ExternalSubmit
<1>13. CASE ExternalResult(c) BY <1>13 DEF ExternalResult
<1>14. CASE BridgeEnds(c) BY <1>14 DEF BridgeEnds
<1>15. CASE ExternalRelease(c) BY <1>15 DEF ExternalRelease, ReadToken
<1>16. CASE ExternalUnlinksOwner(c)
  <2>1. CASE UnlinkOwn(c, "releasing", "done") /\ UNCHANGED <<ticket, lateTickets>>
    BY <1>16, <2>1, UnownedIsBare DEF ExternalUnlinksOwner, UnlinkOwn, UnlinkOwner, LosesTo
  <2>2. CASE UnlinkOwn(c, "releasing", "removing") /\ UNCHANGED <<ticket, lateTickets>>
    BY <1>16, <2>2, UnownedIsBare DEF ExternalUnlinksOwner, UnlinkOwn, UnlinkOwner, LosesTo
  <2>3. CASE UnlinkOwn(c, "yielding", "vacating") /\ UNCHANGED <<ticket, lateTickets>>
    BY <1>16, <2>3, UnownedIsBare DEF ExternalUnlinksOwner, UnlinkOwn, UnlinkOwner, LosesTo
  <2>4. CASE /\ lease.owner = Nobody /\ pc[c] = "yielding"
             /\ ExternalReturns(c) /\ UNCHANGED <<lease, stolen, strays>>
    BY <1>16, <2>4 DEF ExternalUnlinksOwner, ExternalReturns, LeaveQueue
  <2> QED BY <1>16, <2>1, <2>2, <2>3, <2>4 DEF ExternalUnlinksOwner
<1>17. CASE ExternalRemovesDir(c)
  BY <1>17 DEF ExternalRemovesDir, RemoveDir, IsEmpty, NoLease, Aborts, ExternalReturns,
         LeaveQueue
<1>18. CASE ExternalArrives(c) BY <1>18 DEF ExternalArrives, Arrives
<1>19. CASE CommonStep(c) BY <1>19, CommonIsAgents, AgentStepKeepsAgentsTidy
<1> QED BY <1>2, <1>3, <1>4, <1>5, <1>6, <1>7, <1>8, <1>9, <1>10, <1>11, <1>12, <1>13,
           <1>14, <1>15, <1>16, <1>17, <1>18, <1>19
        DEF ExternalStep, ExternalQueues, ExternalClaims, ExternalHolds,
            ExternalReleases, ExternalBeats, CommonStep

\* An agent that has ended leaves neither ticket nor lease nor unfinished file, with
\* requests in the queue beside it whose late heartbeats put their own leases back.
THEOREM AgentsLeaveNothingShared == SharedSpec => []NothingLeftBehind
<1>1. Init => AgentsTidy
  BY ClientAssumption, AgentAssumption DEF Init, AgentsTidy, NoLease, Using, Holding
<1>2. TypeOK /\ QueueOrder /\ AgentsTidy /\ [SharedNext]_vars => AgentsTidy'
  <2> SUFFICES ASSUME TypeOK, QueueOrder, AgentsTidy, [SharedNext]_vars
               PROVE  AgentsTidy'
    OBVIOUS
  <2>1. CASE UNCHANGED vars BY <2>1 DEF AgentsTidy, vars
  <2> QED BY <2>1, StepOfClient, KindAssumption, EnvironmentKeepsAgentsTidy,
             AgentStepKeepsAgentsTidy, ExternalStepKeepsAgentsTidy
<1>3. AgentsTidy => NothingLeftBehind
  BY DEF AgentsTidy, NothingLeftBehind, Using, Holding
<1> QED BY <1>1, <1>2, <1>3, TypesShared, QueueShared, PTL DEF SharedSpec
=============================================================================
