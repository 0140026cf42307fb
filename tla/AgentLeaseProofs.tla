-------------------------- MODULE AgentLeaseProofs --------------------------
(* Proofs about the clients of scheduler.js, for any number of clients.  For *)
(* every invariant: a lemma for the steps of the environment, one for those *)
(* of an agent, and the theorem that puts them together.                    *)
EXTENDS AgentLease, TLAPS

-----------------------------------------------------------------------------
(* Type correctness.                                                       *)

LEMMA UnownedIsBare ==
  ASSUME TypeOK
  PROVE  /\ Unowned \in LeaseStates /\ Unowned.owner = Nobody
         /\ Unowned.dir = lease.dir /\ Unowned.temps = lease.temps
         /\ Unowned.late = (lease.late /\ lease.owner = Nobody)
BY DEF TypeOK, LeaseStates, Unowned

LEMMA EnvironmentType ==
  ASSUME TypeOK, Environment PROVE TypeOK'
<1> USE ClientAssumption DEF TypeOK, files, engines, history, LeaseStates, Places, Queued,
    Claiming, Using, Holding, Leaving, Ended, Goto
<1>1. CASE LeaseLate BY <1>1 DEF LeaseLate
<1>2. ASSUME NEW c \in Clients, NeverArrives(c) PROVE TypeOK'
  BY <1>2 DEF NeverArrives
<1>3. ASSUME NEW c \in Clients, EngineFinishes(c) PROVE TypeOK'
  BY <1>3 DEF EngineFinishes, Running
<1>4. ASSUME NEW c \in Clients, Crash(c) PROVE TypeOK'
  BY <1>4 DEF Crash
<1>5. ASSUME NEW c \in Clients, TicketLate(c) PROVE TypeOK'
  BY <1>5 DEF TicketLate
<1> QED BY <1>1, <1>2, <1>3, <1>4, <1>5 DEF Environment

LEMMA AgentStepType ==
  ASSUME TypeOK, NEW c \in Clients, AgentStep(c)
  PROVE  TypeOK'
<1> USE ClientAssumption DEF TypeOK, files, engines, history, LeaseStates, Places, Queued,
    Claiming, Using, Holding, Leaving, Ended, Goto
<1>1. CASE CountWaiters(c) BY <1>1 DEF CountWaiters, Prune
<1>2. CASE DrawNumber(c) BY <1>2 DEF DrawNumber, Waiters
<1>3. CASE WriteTicket(c) BY <1>3 DEF WriteTicket
<1>4. CASE ReadTicket(c) BY <1>4 DEF ReadTicket
<1>5. CASE RenewTicket(c) BY <1>5 DEF RenewTicket
<1>6. CASE ListWaiters(c) BY <1>6 DEF ListWaiters, Prune, SortsFirst, Waiters
<1>7. CASE AgentGivesUp(c) BY <1>7 DEF AgentGivesUp, LeaveQueue
<1>8. CASE AgentLooks(c) BY <1>8 DEF AgentLooks, AgentTurn
<1>9. CASE AgentObserve(c) BY <1>9 DEF AgentObserve, Observe, Answers
<1>10. CASE AgentBackOff(c) BY <1>10 DEF AgentBackOff, AgentHeard
<1>11. CASE AgentUnlinkStale(c)
  <2>1. CASE /\ pc' = [pc EXCEPT ![c] = "polling"] \/ pc' = [pc EXCEPT ![c] = "probing"]
             /\ UNCHANGED <<lease, stolen, strays>>
    BY <1>11, <2>1 DEF AgentUnlinkStale, AgentHeard
  <2>2. CASE lease' = Unowned /\ pc' = [pc EXCEPT ![c] = "clearing"]
    BY <1>11, <2>2, UnownedIsBare DEF AgentUnlinkStale, AgentHeard, UnlinkOwner, LosesTo
  <2> QED BY <1>11, <2>1, <2>2 DEF AgentUnlinkStale, UnlinkOwner
<1>12. CASE AgentRemoveStale(c)
  BY <1>12 DEF AgentRemoveStale, RemoveDir, IsEmpty, NoLease, LeaveQueue
<1>13. CASE AgentMakeLease(c)
  BY <1>13 DEF AgentMakeLease, AgentHeard, MakeLease, NoLease, EmptyLease
<1>14. CASE AgentClaimFails(c) BY <1>14 DEF AgentClaimFails, LeaveQueue
<1>15. CASE OpenOwner(c) BY <1>15 DEF OpenOwner, WithTemp
<1>16. CASE WriteOwner(c) BY <1>16 DEF WriteOwner, Renamed, Robbed, LosesTo
<1>17. CASE AgentYield(c) BY <1>17 DEF AgentYield, AgentHeard, ReadToken
<1>18. CASE AgentAcquired(c) BY <1>18 DEF AgentAcquired, AgentHeard, LeaveQueue
<1>19. CASE AgentSubmit(c) BY <1>19 DEF AgentSubmit, DelegatedLease
<1>20. CASE AgentRefused(c) BY <1>20 DEF AgentRefused
<1>21. CASE AgentResult(c) BY <1>21 DEF AgentResult
<1>22. CASE AgentAbandons(c) BY <1>22 DEF AgentAbandons
<1>23. CASE AgentRelease(c) BY <1>23 DEF AgentRelease, ReadToken
<1>24. CASE AgentUnlinksOwner(c)
  <2>1. CASE UnlinkOwn(c, "releasing", "removing")
    BY <1>24, <2>1, UnownedIsBare DEF AgentUnlinksOwner, UnlinkOwn, UnlinkOwner, LosesTo
  <2>2. CASE UnlinkOwn(c, "yielding", "vacating")
    BY <1>24, <2>2, UnownedIsBare DEF AgentUnlinksOwner, UnlinkOwn, UnlinkOwner, LosesTo
  <2> QED BY <1>24, <2>1, <2>2 DEF AgentUnlinksOwner
<1>25. CASE AgentRemovesDir(c)
  BY <1>25 DEF AgentRemovesDir, RemoveDir, IsEmpty, NoLease, LeaveQueue
<1>26. CASE Beat(c) BY <1>26 DEF Beat, Renamed
<1>27. CASE BeatRead(c) BY <1>27 DEF BeatRead
<1>28. CASE BeatOpen(c) BY <1>28 DEF BeatOpen, WithTemp
<1>29. CASE BeatWrite(c) BY <1>29 DEF BeatWrite, Renamed, Robbed, LosesTo
<1>30. CASE AgentArrives(c) BY <1>30 DEF AgentArrives, Arrives
<1> QED BY <1>1, <1>2, <1>3, <1>4, <1>5, <1>6, <1>7, <1>8, <1>9, <1>10, <1>11, <1>12, <1>13,
           <1>14, <1>15, <1>16, <1>17, <1>18, <1>19, <1>20, <1>21, <1>22, <1>23, <1>24,
           <1>25, <1>26, <1>27, <1>28, <1>29, <1>30
        DEF AgentStep, AgentQueues, AgentClaims, AgentHolds, AgentReleases, AgentBeats

\* Every reachable state is one of the declared shapes.
THEOREM TypeCorrect == Spec => []TypeOK
<1>1. Init => TypeOK
  BY ClientAssumption DEF Init, TypeOK, NoLease, LeaseStates, Places
<1>2. TypeOK /\ [Next]_vars => TypeOK'
  <2> SUFFICES ASSUME TypeOK, [Next]_vars PROVE TypeOK' OBVIOUS
  <2>1. CASE Environment BY <2>1, EnvironmentType
  <2>2. ASSUME NEW c \in Agents, AgentStep(c) PROVE TypeOK'
    BY <2>2, AgentStepType, AgentAssumption
  <2>3. CASE UNCHANGED vars BY <2>3 DEF TypeOK, vars
  <2> QED BY <2>1, <2>2, <2>3 DEF Next
<1> QED BY <1>1, <1>2, PTL DEF Spec

-----------------------------------------------------------------------------
(* The lease.  From the write of owner.json to its unlink, whoever was not   *)
(* robbed is the owner.  That covers the unlink itself: between the look at  *)
(* the token and the unlink only a robbery can put someone else there.       *)

LeaseHeld ==
  \A c \in Clients :
    pc[c] \in Holding \cup {"confirming", "yielding"} /\ c \notin stolen => lease.owner = c

LEMMA EnvironmentKeepsLease ==
  ASSUME TypeOK, LeaseHeld, Environment PROVE LeaseHeld'
<1> USE ClientAssumption DEF LeaseHeld, TypeOK, files, engines, history, LeaseStates, Using,
    Holding, Leaving, Ended, At, Goto
<1>1. CASE LeaseLate BY <1>1 DEF LeaseLate
<1>2. ASSUME NEW c \in Clients, NeverArrives(c) PROVE LeaseHeld'
  BY <1>2 DEF NeverArrives
<1>3. ASSUME NEW c \in Clients, EngineFinishes(c) PROVE LeaseHeld'
  BY <1>3 DEF EngineFinishes, Running
<1>4. ASSUME NEW c \in Clients, Crash(c) PROVE LeaseHeld'
  BY <1>4 DEF Crash
<1>5. ASSUME NEW c \in Clients, TicketLate(c) PROVE LeaseHeld'
  BY <1>5 DEF TicketLate
<1> QED BY <1>1, <1>2, <1>3, <1>4, <1>5 DEF Environment

LEMMA AgentStepKeepsLease ==
  ASSUME TypeOK, LeaseHeld, NEW c \in Clients, AgentStep(c)
  PROVE  LeaseHeld'
<1> USE ClientAssumption DEF LeaseHeld, TypeOK, files, engines, history, LeaseStates, Using,
    Holding, Leaving, Ended, At, Goto
<1>1. CASE CountWaiters(c) BY <1>1 DEF CountWaiters, Prune
<1>2. CASE DrawNumber(c) BY <1>2 DEF DrawNumber, Waiters
<1>3. CASE WriteTicket(c) BY <1>3 DEF WriteTicket
<1>4. CASE ReadTicket(c) BY <1>4 DEF ReadTicket
<1>5. CASE RenewTicket(c) BY <1>5 DEF RenewTicket
<1>6. CASE ListWaiters(c) BY <1>6 DEF ListWaiters, Prune, SortsFirst, Waiters
<1>7. CASE AgentGivesUp(c) BY <1>7 DEF AgentGivesUp, LeaveQueue
<1>8. CASE AgentLooks(c) BY <1>8 DEF AgentLooks, AgentTurn
<1>9. CASE AgentObserve(c) BY <1>9 DEF AgentObserve, Observe, Answers
<1>10. CASE AgentBackOff(c) BY <1>10 DEF AgentBackOff, AgentHeard
<1>11. CASE AgentUnlinkStale(c)
  <2>1. CASE /\ pc' = [pc EXCEPT ![c] = "polling"] \/ pc' = [pc EXCEPT ![c] = "probing"]
             /\ UNCHANGED <<lease, stolen, strays>>
    BY <1>11, <2>1 DEF AgentUnlinkStale, AgentHeard
  <2>2. CASE lease' = Unowned /\ pc' = [pc EXCEPT ![c] = "clearing"]
    BY <1>11, <2>2, UnownedIsBare DEF AgentUnlinkStale, AgentHeard, UnlinkOwner, LosesTo
  <2> QED BY <1>11, <2>1, <2>2 DEF AgentUnlinkStale, UnlinkOwner
<1>12. CASE AgentRemoveStale(c)
  BY <1>12 DEF AgentRemoveStale, RemoveDir, IsEmpty, NoLease, LeaveQueue
<1>13. CASE AgentMakeLease(c)
  BY <1>13 DEF AgentMakeLease, AgentHeard, MakeLease, NoLease, EmptyLease
<1>14. CASE AgentClaimFails(c) BY <1>14 DEF AgentClaimFails, LeaveQueue
<1>15. CASE OpenOwner(c) BY <1>15 DEF OpenOwner, WithTemp
<1>16. CASE WriteOwner(c) BY <1>16 DEF WriteOwner, Renamed, Robbed, LosesTo
<1>17. CASE AgentYield(c) BY <1>17 DEF AgentYield, AgentHeard, ReadToken
<1>18. CASE AgentAcquired(c) BY <1>18 DEF AgentAcquired, AgentHeard, LeaveQueue
<1>19. CASE AgentSubmit(c) BY <1>19 DEF AgentSubmit, DelegatedLease
<1>20. CASE AgentRefused(c) BY <1>20 DEF AgentRefused
<1>21. CASE AgentResult(c) BY <1>21 DEF AgentResult
<1>22. CASE AgentAbandons(c) BY <1>22 DEF AgentAbandons
<1>23. CASE AgentRelease(c) BY <1>23 DEF AgentRelease, ReadToken
<1>24. CASE AgentUnlinksOwner(c)
  <2>1. CASE UnlinkOwn(c, "releasing", "removing")
    BY <1>24, <2>1, UnownedIsBare DEF AgentUnlinksOwner, UnlinkOwn, UnlinkOwner, LosesTo
  <2>2. CASE UnlinkOwn(c, "yielding", "vacating")
    BY <1>24, <2>2, UnownedIsBare DEF AgentUnlinksOwner, UnlinkOwn, UnlinkOwner, LosesTo
  <2> QED BY <1>24, <2>1, <2>2 DEF AgentUnlinksOwner
<1>25. CASE AgentRemovesDir(c)
  BY <1>25 DEF AgentRemovesDir, RemoveDir, IsEmpty, NoLease, LeaveQueue
<1>26. CASE Beat(c) BY <1>26 DEF Beat, Renamed
<1>27. CASE BeatRead(c) BY <1>27 DEF BeatRead
<1>28. CASE BeatOpen(c) BY <1>28 DEF BeatOpen, WithTemp
<1>29. CASE BeatWrite(c) BY <1>29 DEF BeatWrite, Renamed, Robbed, LosesTo
<1>30. CASE AgentArrives(c) BY <1>30 DEF AgentArrives, Arrives
<1> QED BY <1>1, <1>2, <1>3, <1>4, <1>5, <1>6, <1>7, <1>8, <1>9, <1>10, <1>11, <1>12, <1>13,
           <1>14, <1>15, <1>16, <1>17, <1>18, <1>19, <1>20, <1>21, <1>22, <1>23, <1>24,
           <1>25, <1>26, <1>27, <1>28, <1>29, <1>30
        DEF AgentStep, AgentQueues, AgentClaims, AgentHolds, AgentReleases, AgentBeats

\* Whatever number of clients wait, die or fall behind: a holder loses the lease
\* only to a recovery, to a write over owner.json, or to the unlink of a client
\* that lost it before in one of these ways.
THEOREM HolderKeepsLease == Spec => []HolderOwnsLease
<1>1. Init => LeaseHeld
  BY DEF Init, LeaseHeld, Using, Holding
<1>2. TypeOK /\ LeaseHeld /\ [Next]_vars => LeaseHeld'
  <2> SUFFICES ASSUME TypeOK, LeaseHeld, [Next]_vars PROVE LeaseHeld' OBVIOUS
  <2>1. CASE Environment BY <2>1, EnvironmentKeepsLease
  <2>2. ASSUME NEW c \in Agents, AgentStep(c) PROVE LeaseHeld'
    BY <2>2, AgentStepKeepsLease, AgentAssumption
  <2>3. CASE UNCHANGED vars BY <2>3 DEF LeaseHeld, vars
  <2> QED BY <2>1, <2>2, <2>3 DEF Next
<1>3. LeaseHeld => HolderOwnsLease
  BY DEF LeaseHeld, HolderOwnsLease
<1> QED BY <1>1, <1>2, <1>3, TypeCorrect, PTL DEF Spec

-----------------------------------------------------------------------------
(* Where work is.  What a client gave to an engine, or to the bridge for it, *)
(* is there once, and its client has the acquisition behind it; a client     *)
(* that claims the lease has not probed since.                               *)

WorkPlaced ==
  /\ beating = {}
  /\ \A c \in Clients : pc[c] \in {"claimed", "naming"} => probe[c] = "none"
  /\ \A c \in flying : c \notin Running
  /\ \A c \in flying \cup Running :
       pc[c] \in {"working", "closing", "releasing", "removing", "done", "crashed"}

LEMMA EnvironmentKeepsWork ==
  ASSUME TypeOK, WorkPlaced, Environment PROVE WorkPlaced'
<1> USE ClientAssumption DEF WorkPlaced, Running, TypeOK, files, engines, history, Using,
    Holding, Leaving, Ended, At, Goto
<1>1. CASE LeaseLate BY <1>1 DEF LeaseLate
<1>2. ASSUME NEW c \in Clients, NeverArrives(c) PROVE WorkPlaced'
  BY <1>2 DEF NeverArrives
<1>3. ASSUME NEW c \in Clients, EngineFinishes(c) PROVE WorkPlaced'
  BY <1>3 DEF EngineFinishes, Running
<1>4. ASSUME NEW c \in Clients, Crash(c) PROVE WorkPlaced'
  BY <1>4 DEF Crash
<1>5. ASSUME NEW c \in Clients, TicketLate(c) PROVE WorkPlaced'
  BY <1>5 DEF TicketLate
<1> QED BY <1>1, <1>2, <1>3, <1>4, <1>5 DEF Environment

LEMMA AgentStepKeepsWork ==
  ASSUME Torn = {}, TypeOK, WorkPlaced, NEW c \in Clients, AgentStep(c)
  PROVE  WorkPlaced'
<1> USE ClientAssumption DEF WorkPlaced, Running, TypeOK, files, engines, history, Using,
    Holding, Leaving, Ended, At, Goto
<1>1. CASE CountWaiters(c) BY <1>1 DEF CountWaiters, Prune
<1>2. CASE DrawNumber(c) BY <1>2 DEF DrawNumber, Waiters
<1>3. CASE WriteTicket(c) BY <1>3 DEF WriteTicket
<1>4. CASE ReadTicket(c) BY <1>4 DEF ReadTicket
<1>5. CASE RenewTicket(c) BY <1>5 DEF RenewTicket
<1>6. CASE ListWaiters(c) BY <1>6 DEF ListWaiters, Prune, SortsFirst, Waiters
<1>7. CASE AgentGivesUp(c) BY <1>7 DEF AgentGivesUp, LeaveQueue
<1>8. CASE AgentLooks(c)
  <2>1. AgentTurn \in {"probing", "polling", "reaping", "sweeping"} BY DEF AgentTurn
  <2> QED BY <1>8, <2>1 DEF AgentLooks
<1>9. CASE AgentObserve(c) BY <1>9 DEF AgentObserve, Observe, Answers
<1>10. CASE AgentBackOff(c) BY <1>10 DEF AgentBackOff, AgentHeard
<1>11. CASE AgentUnlinkStale(c)
  BY <1>11 DEF AgentUnlinkStale, AgentHeard, UnlinkOwner, Unowned, LosesTo
<1>12. CASE AgentRemoveStale(c)
  BY <1>12 DEF AgentRemoveStale, RemoveDir, IsEmpty, NoLease, LeaveQueue
<1>13. CASE AgentMakeLease(c)
  BY <1>13 DEF AgentMakeLease, AgentHeard, MakeLease, NoLease, EmptyLease
<1>14. CASE AgentClaimFails(c) BY <1>14 DEF AgentClaimFails, LeaveQueue
<1>15. CASE OpenOwner(c) BY <1>15 DEF OpenOwner, WithTemp
<1>16. CASE WriteOwner(c) BY <1>16 DEF WriteOwner, Renamed, Robbed, LosesTo
<1>17. CASE AgentYield(c) BY <1>17 DEF AgentYield, AgentHeard, ReadToken
<1>18. CASE AgentAcquired(c) BY <1>18 DEF AgentAcquired, AgentHeard, LeaveQueue
<1>19. CASE AgentSubmit(c) BY <1>19 DEF AgentSubmit, DelegatedLease
<1>20. CASE AgentRefused(c) BY <1>20 DEF AgentRefused
<1>21. CASE AgentResult(c) BY <1>21 DEF AgentResult
<1>22. CASE AgentAbandons(c) BY <1>22 DEF AgentAbandons
<1>23. CASE AgentRelease(c) BY <1>23 DEF AgentRelease, ReadToken
<1>24. CASE AgentUnlinksOwner(c)
  BY <1>24 DEF AgentUnlinksOwner, UnlinkOwn, UnlinkOwner, Unowned, LosesTo
<1>25. CASE AgentRemovesDir(c)
  BY <1>25 DEF AgentRemovesDir, RemoveDir, IsEmpty, NoLease, LeaveQueue
<1>26. CASE Beat(c) BY <1>26 DEF Beat, Renamed
<1>27. CASE BeatRead(c) BY <1>27 DEF BeatRead
<1>28. CASE BeatOpen(c) BY <1>28 DEF BeatOpen, WithTemp
<1>29. CASE BeatWrite(c) BY <1>29 DEF BeatWrite, Renamed, Robbed, LosesTo
<1>30. CASE AgentArrives(c) BY <1>30 DEF AgentArrives, Arrives
<1> QED BY <1>1, <1>2, <1>3, <1>4, <1>5, <1>6, <1>7, <1>8, <1>9, <1>10, <1>11, <1>12, <1>13,
           <1>14, <1>15, <1>16, <1>17, <1>18, <1>19, <1>20, <1>21, <1>22, <1>23, <1>24,
           <1>25, <1>26, <1>27, <1>28, <1>29, <1>30
        DEF AgentStep, AgentQueues, AgentClaims, AgentHolds, AgentReleases, AgentBeats

LEMMA WorkIsPlaced == ASSUME Torn = {} PROVE Spec => []WorkPlaced
<1>1. Init => WorkPlaced
  BY DEF Init, WorkPlaced, Running
<1>2. TypeOK /\ WorkPlaced /\ [Next]_vars => WorkPlaced'
  <2> SUFFICES ASSUME TypeOK, WorkPlaced, [Next]_vars PROVE WorkPlaced' OBVIOUS
  <2>1. CASE Environment BY <2>1, EnvironmentKeepsWork
  <2>2. ASSUME NEW c \in Agents, AgentStep(c) PROVE WorkPlaced'
    BY <2>2, AgentStepKeepsWork, AgentAssumption
  <2>3. CASE UNCHANGED vars BY <2>3 DEF WorkPlaced, Running, vars
  <2> QED BY <2>1, <2>2, <2>3 DEF Next
<1> QED BY <1>1, <1>2, TypeCorrect, PTL DEF Spec

-----------------------------------------------------------------------------
(* The engines.  Nobody who is preempted inside a heartbeat, probes that     *)
(* answer: then work on its way to an engine belongs to the owner of the     *)
(* lease or is a stray, and the owner that has seen idle engines, or has     *)
(* work on its way, is alone on them but for strays.                         *)

Confirmed(c) ==
  pc[c] \in Holding \/ (pc[c] = "confirming" /\ probe[c] = "idle")

EnginesFenced ==
  /\ \A c \in flying \ strays : lease.owner = c
  /\ \A c \in Clients :
       lease.owner = c /\ (Confirmed(c) \/ c \in flying) => Running \subseteq {c} \cup strays
  /\ EngineExclusive

LEMMA EnvironmentKeepsFence ==
  ASSUME TypeOK, WorkPlaced, EnginesFenced, Environment PROVE EnginesFenced'
<1> USE ClientAssumption DEF EnginesFenced, EngineExclusive, Confirmed, Running, WorkPlaced,
    TypeOK, files, engines, history, Using, Holding, Ended, At, Goto
<1>1. CASE LeaseLate BY <1>1 DEF LeaseLate
<1>2. ASSUME NEW c \in Clients, NeverArrives(c) PROVE EnginesFenced'
  BY <1>2 DEF NeverArrives
<1>3. ASSUME NEW c \in Clients, EngineFinishes(c) PROVE EnginesFenced'
  BY <1>3 DEF EngineFinishes, Running
<1>4. ASSUME NEW c \in Clients, Crash(c) PROVE EnginesFenced'
  BY <1>4 DEF Crash
<1>5. ASSUME NEW c \in Clients, TicketLate(c) PROVE EnginesFenced'
  BY <1>5 DEF TicketLate
<1> QED BY <1>1, <1>2, <1>3, <1>4, <1>5 DEF Environment

LEMMA AgentStepKeepsFence ==
  ASSUME ProbeMayFail = FALSE, TypeOK, WorkPlaced, EnginesFenced, NEW c \in Clients,
         AgentStep(c)
  PROVE  EnginesFenced'
<1> USE ClientAssumption DEF EnginesFenced, EngineExclusive, Confirmed, Running, WorkPlaced,
    TypeOK, files, engines, history, Using, Holding, Ended, At, Goto
<1>1. CASE CountWaiters(c) BY <1>1 DEF CountWaiters, Prune
<1>2. CASE DrawNumber(c) BY <1>2 DEF DrawNumber, Waiters
<1>3. CASE WriteTicket(c) BY <1>3 DEF WriteTicket
<1>4. CASE ReadTicket(c) BY <1>4 DEF ReadTicket
<1>5. CASE RenewTicket(c) BY <1>5 DEF RenewTicket
<1>6. CASE ListWaiters(c) BY <1>6 DEF ListWaiters, Prune, SortsFirst, Waiters
<1>7. CASE AgentGivesUp(c) BY <1>7 DEF AgentGivesUp, LeaveQueue
<1>8. CASE AgentLooks(c)
  <2>1. AgentTurn \in {"probing", "polling", "reaping", "sweeping"} BY DEF AgentTurn
  <2> QED BY <1>8, <2>1 DEF AgentLooks
<1>9. CASE AgentObserve(c)
  <2>1. PICK answer \in Answers(Running) : probe' = [probe EXCEPT ![c] = answer]
    BY <1>9 DEF AgentObserve, Observe
  <2>2. answer = "idle" => Running = {}
    BY <2>1 DEF Answers
  <2> QED BY <1>9, <2>1, <2>2 DEF AgentObserve, Observe
<1>10. CASE AgentBackOff(c) BY <1>10 DEF AgentBackOff, AgentHeard
<1>11. CASE AgentUnlinkStale(c)
  <2>1. CASE /\ pc' = [pc EXCEPT ![c] = "polling"] \/ pc' = [pc EXCEPT ![c] = "probing"]
             /\ UNCHANGED <<lease, stolen, strays>>
    BY <1>11, <2>1 DEF AgentUnlinkStale, AgentHeard
  <2>2. CASE lease' = Unowned /\ pc' = [pc EXCEPT ![c] = "clearing"]
    BY <1>11, <2>2, UnownedIsBare DEF AgentUnlinkStale, AgentHeard, UnlinkOwner, LosesTo
  <2> QED BY <1>11, <2>1, <2>2 DEF AgentUnlinkStale, UnlinkOwner
<1>12. CASE AgentRemoveStale(c)
  BY <1>12 DEF AgentRemoveStale, RemoveDir, IsEmpty, NoLease, LeaveQueue
<1>13. CASE AgentMakeLease(c)
  <2>1. lease'.owner = lease.owner /\ UNCHANGED <<engines, history, beating>>
    BY <1>13 DEF AgentMakeLease, MakeLease, NoLease, EmptyLease, LeaseStates
  <2>2. \A d \in Clients : Confirmed(d)' => Confirmed(d)
    BY <1>13 DEF AgentMakeLease, AgentHeard, MakeLease
  <2> QED BY <2>1, <2>2
<1>14. CASE AgentClaimFails(c) BY <1>14 DEF AgentClaimFails, LeaveQueue
<1>15. CASE OpenOwner(c) BY <1>15 DEF OpenOwner, WithTemp
<1>16. CASE WriteOwner(c) BY <1>16 DEF WriteOwner, Renamed, Robbed, LosesTo
<1>17. CASE AgentYield(c) BY <1>17 DEF AgentYield, AgentHeard, ReadToken
<1>18. CASE AgentAcquired(c) BY <1>18 DEF AgentAcquired, AgentHeard, LeaveQueue
<1>19. CASE AgentSubmit(c)
  <2>1. lease.owner = c /\ pc[c] = "holding" BY <1>19 DEF AgentSubmit, DelegatedLease
  <2> QED BY <1>19, <2>1 DEF AgentSubmit
<1>20. CASE AgentRefused(c) BY <1>20 DEF AgentRefused
<1>21. CASE AgentResult(c) BY <1>21 DEF AgentResult
<1>22. CASE AgentAbandons(c) BY <1>22 DEF AgentAbandons
<1>23. CASE AgentRelease(c) BY <1>23 DEF AgentRelease, ReadToken
<1>24. CASE AgentUnlinksOwner(c)
  <2>1. CASE UnlinkOwn(c, "releasing", "removing")
    BY <1>24, <2>1, UnownedIsBare DEF AgentUnlinksOwner, UnlinkOwn, UnlinkOwner, LosesTo
  <2>2. CASE UnlinkOwn(c, "yielding", "vacating")
    BY <1>24, <2>2, UnownedIsBare DEF AgentUnlinksOwner, UnlinkOwn, UnlinkOwner, LosesTo
  <2> QED BY <1>24, <2>1, <2>2 DEF AgentUnlinksOwner
<1>25. CASE AgentRemovesDir(c)
  BY <1>25 DEF AgentRemovesDir, RemoveDir, IsEmpty, NoLease, LeaveQueue
<1>26. CASE Beat(c) BY <1>26 DEF Beat, Renamed
<1>27. CASE BeatRead(c) BY <1>27 DEF BeatRead
<1>28. CASE BeatOpen(c) BY <1>28 DEF BeatOpen, WithTemp
<1>29. CASE BeatWrite(c) BY <1>29 DEF BeatWrite, Renamed, Robbed, LosesTo
<1>30. CASE AgentArrives(c)
  <2>1. c \in flying /\ Running' = Running \cup {c} /\ flying' = flying \ {c}
    BY <1>30 DEF AgentArrives, Arrives
  <2>2. UNCHANGED <<files, pc, number, probe, beating, history>>
    BY <1>30 DEF AgentArrives, Arrives
  <2>3. c \in strays \/ Running \subseteq {c} \cup strays BY <2>1
  <2> QED BY <2>1, <2>2, <2>3
<1> QED BY <1>1, <1>2, <1>3, <1>4, <1>5, <1>6, <1>7, <1>8, <1>9, <1>10, <1>11, <1>12, <1>13,
           <1>14, <1>15, <1>16, <1>17, <1>18, <1>19, <1>20, <1>21, <1>22, <1>23, <1>24,
           <1>25, <1>26, <1>27, <1>28, <1>29, <1>30
        DEF AgentStep, AgentQueues, AgentClaims, AgentHolds, AgentReleases, AgentBeats

\* The fence of the engines holds for any number of agents although leases expire
\* under suspended holders and are removed by mistake: requests are checked against
\* owner.json, and the engines are probed again after it was written.  What passes
\* it is a request accepted under a lease that ended before it was delivered.
THEOREM EnginesNotShared ==
  ASSUME Torn = {}, ProbeMayFail = FALSE PROVE Spec => []EngineExclusive
<1>1. Init => EnginesFenced
  BY DEF Init, EnginesFenced, EngineExclusive, Confirmed, Running, Using, Holding, NoLease
<1>2. TypeOK /\ WorkPlaced /\ EnginesFenced /\ [Next]_vars => EnginesFenced'
  <2> SUFFICES ASSUME TypeOK, WorkPlaced, EnginesFenced, [Next]_vars PROVE EnginesFenced'
    OBVIOUS
  <2>1. CASE Environment BY <2>1, EnvironmentKeepsFence
  <2>2. ASSUME NEW c \in Agents, AgentStep(c) PROVE EnginesFenced'
    BY <2>2, AgentStepKeepsFence, AgentAssumption
  <2>3. CASE UNCHANGED vars
    BY <2>3 DEF EnginesFenced, EngineExclusive, Confirmed, Running, vars
  <2> QED BY <2>1, <2>2, <2>3 DEF Next
<1>3. EnginesFenced => EngineExclusive BY DEF EnginesFenced
<1> QED BY <1>1, <1>2, <1>3, TypeCorrect, WorkIsPlaced, PTL DEF Spec

-----------------------------------------------------------------------------
(* The queue.  Numbers grow with every draw, so whoever had a ticket file    *)
(* then has the smaller number, and the head of the queue has none before    *)
(* it; a ticket file that is gone is written again only by a renewal whose   *)
(* client read it before it was pruned.                                      *)

Arrived == {c \in Clients : pc[c] \notin {"new", "counted", "numbered"}}
Headed == {"first", "probing", "reaping", "sweeping", "clearing"} \cup Claiming \cup Holding

QueueOrder ==
  /\ \A c \in Clients : ticket[c] \in {0, number[c]} /\ number[c] <= sequence
  /\ \A c \in Clients \ Arrived : ticket[c] = 0
  /\ \A c \in Clients : \A d \in ahead[c] : d \in Arrived /\ number[d] < number[c]
  /\ \A c \in Clients : pc[c] = "touching" /\ ticket[c] = 0 => c \in pruned
  /\ \A c \in Clients : pc[c] \in Headed => \A d \in ahead[c] : ticket[d] = 0 \/ d \in pruned

LEMMA EnvironmentKeepsOrder ==
  ASSUME TypeOK, QueueOrder, Environment PROVE QueueOrder'
<1> USE ClientAssumption DEF QueueOrder, Arrived, Headed, TypeOK, files, engines, history,
    Using, Holding, Claiming, Leaving, Ended, At, Goto
<1>1. CASE LeaseLate BY <1>1 DEF LeaseLate
<1>2. ASSUME NEW c \in Clients, NeverArrives(c) PROVE QueueOrder'
  BY <1>2 DEF NeverArrives
<1>3. ASSUME NEW c \in Clients, EngineFinishes(c) PROVE QueueOrder'
  BY <1>3 DEF EngineFinishes, Running
<1>4. ASSUME NEW c \in Clients, Crash(c) PROVE QueueOrder'
  BY <1>4 DEF Crash
<1>5. ASSUME NEW c \in Clients, TicketLate(c) PROVE QueueOrder'
  BY <1>5 DEF TicketLate
<1> QED BY <1>1, <1>2, <1>3, <1>4, <1>5 DEF Environment

LEMMA AgentStepKeepsOrder ==
  ASSUME TypeOK, QueueOrder, NEW c \in Clients, AgentStep(c)
  PROVE  QueueOrder'
<1> USE ClientAssumption DEF QueueOrder, Arrived, Headed, TypeOK, files, engines, history,
    Using, Holding, Claiming, Leaving, Ended, At, Goto
<1>1. CASE CountWaiters(c) BY <1>1 DEF CountWaiters, Prune
<1>2. CASE DrawNumber(c) BY <1>2 DEF DrawNumber, Waiters
<1>3. CASE WriteTicket(c) BY <1>3 DEF WriteTicket
<1>4. CASE ReadTicket(c) BY <1>4 DEF ReadTicket
<1>5. CASE RenewTicket(c) BY <1>5 DEF RenewTicket
<1>6. CASE ListWaiters(c)
  <2>1. \A d \in Clients : ticket'[d] = IF d \in lateTickets THEN 0 ELSE ticket[d]
    BY <1>6 DEF ListWaiters, Prune
  <2>2. ASSUME pc'[c] = "first", NEW d \in ahead[c] PROVE ticket'[d] = 0 \/ d \in pruned'
    <3>1. c \in Waiters \ lateTickets /\ SortsFirst(c, lateTickets) BY <1>6, <2>2 DEF ListWaiters
    <3>2. CASE d \in lateTickets BY <1>6, <3>2 DEF ListWaiters
    <3>3. CASE d \in Waiters \ lateTickets
      <4>1. number[c] <= number[d] BY <3>1, <3>3 DEF SortsFirst, Waiters
      <4> QED BY <4>1
    <3> QED BY <2>1, <3>2, <3>3 DEF Waiters
  <2>3. pruned \subseteq pruned' /\ (\A d \in lateTickets : d \in pruned')
    BY <1>6 DEF ListWaiters
  <2>4. UNCHANGED <<sequence, number, ahead>> /\ pc[c] = "listing" BY <1>6 DEF ListWaiters
  <2>5. pc' = [pc EXCEPT ![c] = "first"] \/ pc' = [pc EXCEPT ![c] = "polling"]
    BY <1>6 DEF ListWaiters
  <2> QED BY <2>1, <2>2, <2>3, <2>4, <2>5
<1>7. CASE AgentGivesUp(c) BY <1>7 DEF AgentGivesUp, LeaveQueue
<1>8. CASE AgentLooks(c)
  <2>1. AgentTurn \in {"probing", "polling", "reaping", "sweeping"} BY DEF AgentTurn
  <2> QED BY <1>8, <2>1 DEF AgentLooks
<1>9. CASE AgentObserve(c) BY <1>9 DEF AgentObserve, Observe, Answers
<1>10. CASE AgentBackOff(c) BY <1>10 DEF AgentBackOff, AgentHeard
<1>11. CASE AgentUnlinkStale(c)
  <2>1. CASE /\ pc' = [pc EXCEPT ![c] = "polling"] \/ pc' = [pc EXCEPT ![c] = "probing"]
             /\ UNCHANGED <<lease, stolen, strays>>
    BY <1>11, <2>1 DEF AgentUnlinkStale, AgentHeard
  <2>2. CASE lease' = Unowned /\ pc' = [pc EXCEPT ![c] = "clearing"]
    BY <1>11, <2>2, UnownedIsBare DEF AgentUnlinkStale, AgentHeard, UnlinkOwner, LosesTo
  <2> QED BY <1>11, <2>1, <2>2 DEF AgentUnlinkStale, UnlinkOwner
<1>12. CASE AgentRemoveStale(c)
  BY <1>12 DEF AgentRemoveStale, RemoveDir, IsEmpty, NoLease, LeaveQueue
<1>13. CASE AgentMakeLease(c)
  BY <1>13 DEF AgentMakeLease, AgentHeard, MakeLease, NoLease, EmptyLease
<1>14. CASE AgentClaimFails(c) BY <1>14 DEF AgentClaimFails, LeaveQueue
<1>15. CASE OpenOwner(c) BY <1>15 DEF OpenOwner, WithTemp
<1>16. CASE WriteOwner(c) BY <1>16 DEF WriteOwner, Renamed, Robbed, LosesTo
<1>17. CASE AgentYield(c) BY <1>17 DEF AgentYield, AgentHeard, ReadToken
<1>18. CASE AgentAcquired(c) BY <1>18 DEF AgentAcquired, AgentHeard, LeaveQueue
<1>19. CASE AgentSubmit(c) BY <1>19 DEF AgentSubmit, DelegatedLease
<1>20. CASE AgentRefused(c) BY <1>20 DEF AgentRefused
<1>21. CASE AgentResult(c) BY <1>21 DEF AgentResult
<1>22. CASE AgentAbandons(c) BY <1>22 DEF AgentAbandons
<1>23. CASE AgentRelease(c) BY <1>23 DEF AgentRelease, ReadToken
<1>24. CASE AgentUnlinksOwner(c)
  <2>1. CASE UnlinkOwn(c, "releasing", "removing")
    BY <1>24, <2>1, UnownedIsBare DEF AgentUnlinksOwner, UnlinkOwn, UnlinkOwner, LosesTo
  <2>2. CASE UnlinkOwn(c, "yielding", "vacating")
    BY <1>24, <2>2, UnownedIsBare DEF AgentUnlinksOwner, UnlinkOwn, UnlinkOwner, LosesTo
  <2> QED BY <1>24, <2>1, <2>2 DEF AgentUnlinksOwner
<1>25. CASE AgentRemovesDir(c)
  BY <1>25 DEF AgentRemovesDir, RemoveDir, IsEmpty, NoLease, LeaveQueue
<1>26. CASE Beat(c) BY <1>26 DEF Beat, Renamed
<1>27. CASE BeatRead(c) BY <1>27 DEF BeatRead
<1>28. CASE BeatOpen(c) BY <1>28 DEF BeatOpen, WithTemp
<1>29. CASE BeatWrite(c) BY <1>29 DEF BeatWrite, Renamed, Robbed, LosesTo
<1>30. CASE AgentArrives(c) BY <1>30 DEF AgentArrives, Arrives
<1> QED BY <1>1, <1>2, <1>3, <1>4, <1>5, <1>6, <1>7, <1>8, <1>9, <1>10, <1>11, <1>12, <1>13,
           <1>14, <1>15, <1>16, <1>17, <1>18, <1>19, <1>20, <1>21, <1>22, <1>23, <1>24,
           <1>25, <1>26, <1>27, <1>28, <1>29, <1>30
        DEF AgentStep, AgentQueues, AgentClaims, AgentHolds, AgentReleases, AgentBeats

LEMMA QueueOrdered == Spec => []QueueOrder
<1>1. Init => QueueOrder
  BY DEF Init, QueueOrder, Arrived, Headed, Claiming, Using, Holding
<1>2. TypeOK /\ QueueOrder /\ [Next]_vars => QueueOrder'
  <2> SUFFICES ASSUME TypeOK, QueueOrder, [Next]_vars PROVE QueueOrder' OBVIOUS
  <2>1. CASE Environment BY <2>1, EnvironmentKeepsOrder
  <2>2. ASSUME NEW c \in Agents, AgentStep(c) PROVE QueueOrder'
    BY <2>2, AgentStepKeepsOrder, AgentAssumption
  <2>3. CASE UNCHANGED vars
    BY <2>3 DEF QueueOrder, Arrived, vars
  <2> QED BY <2>1, <2>2, <2>3 DEF Next
<1> QED BY <1>1, <1>2, TypeCorrect, PTL DEF Spec

\* The queue is first in, first out for any number of clients, with tickets pruned
\* and clients lost at any time, but for a pruned ticket its own client restores.
THEOREM FirstInFirstOut == Spec => []NoOvertaking
<1>1. QueueOrder => NoOvertaking BY DEF QueueOrder, Headed, NoOvertaking
<1> QED BY <1>1, QueueOrdered, PTL

-----------------------------------------------------------------------------
(* Exclusion.  When no client dies, falls behind or is preempted inside a   *)
(* heartbeat the lease directory exists exactly while one client is between *)
(* mkdir and rmdir, and nothing is ever recovered.                          *)

Bare == {"claimed", "naming"} \cup Leaving

LeaseUnique ==
  /\ ~lease.late
  /\ beating = {}
  /\ \A c \in Clients : pc[c] \notin {"reaping", "sweeping", "clearing", "crashed"}
  /\ lease.temps = {c \in Clients : pc[c] = "naming"}
  /\ \A c \in Clients : pc[c] \in Bare => lease.dir /\ lease.owner = Nobody
  /\ \A c \in Clients : pc[c] \in Holding \cup {"confirming", "yielding"} <=> lease.owner = c
  /\ \A c, d \in Clients : pc[c] \in Bare /\ pc[d] \in Bare => c = d
  /\ lease.dir /\ lease.owner = Nobody => \E c \in Clients : pc[c] \in Bare

LEMMA EnvironmentKeepsUnique ==
  ASSUME Suspendable = {}, Crashable = {}, TypeOK, LeaseUnique, Environment PROVE
         LeaseUnique'
<1> USE ClientAssumption DEF LeaseUnique, Bare, TypeOK, LeaseStates, Timely, files, engines,
    history, Using, Holding, Claiming, Leaving, Ended, At, Goto
<1>1. CASE LeaseLate BY <1>1 DEF LeaseLate, Midway
<1>2. ASSUME NEW c \in Clients, NeverArrives(c) PROVE LeaseUnique'
  BY <1>2 DEF NeverArrives
<1>3. ASSUME NEW c \in Clients, EngineFinishes(c) PROVE LeaseUnique'
  BY <1>3 DEF EngineFinishes, Running
<1>4. ASSUME NEW c \in Clients, Crash(c) PROVE LeaseUnique'
  BY <1>4 DEF Crash
<1>5. ASSUME NEW c \in Clients, TicketLate(c) PROVE LeaseUnique'
  BY <1>5 DEF TicketLate
<1> QED BY <1>1, <1>2, <1>3, <1>4, <1>5 DEF Environment

LEMMA AgentStepKeepsUnique ==
  ASSUME Torn = {}, TypeOK, LeaseUnique, NEW c \in Clients, AgentStep(c)
  PROVE  LeaseUnique'
<1> USE ClientAssumption DEF LeaseUnique, Bare, TypeOK, LeaseStates, Timely, files, engines,
    history, Using, Holding, Claiming, Leaving, Ended, At, Goto
<1>1. CASE CountWaiters(c) BY <1>1 DEF CountWaiters, Prune
<1>2. CASE DrawNumber(c) BY <1>2 DEF DrawNumber, Waiters
<1>3. CASE WriteTicket(c) BY <1>3 DEF WriteTicket
<1>4. CASE ReadTicket(c) BY <1>4 DEF ReadTicket
<1>5. CASE RenewTicket(c) BY <1>5 DEF RenewTicket
<1>6. CASE ListWaiters(c) BY <1>6 DEF ListWaiters, Prune, SortsFirst, Waiters
<1>7. CASE AgentGivesUp(c) BY <1>7 DEF AgentGivesUp, LeaveQueue
<1>8. CASE AgentLooks(c) BY <1>8 DEF AgentLooks, AgentTurn
<1>9. CASE AgentObserve(c) BY <1>9 DEF AgentObserve, Observe, Answers
<1>10. CASE AgentBackOff(c) BY <1>10 DEF AgentBackOff, AgentHeard
<1>11. CASE AgentUnlinkStale(c)
  <2>1. CASE /\ pc' = [pc EXCEPT ![c] = "polling"] \/ pc' = [pc EXCEPT ![c] = "probing"]
             /\ UNCHANGED <<lease, stolen, strays>>
    BY <1>11, <2>1 DEF AgentUnlinkStale, AgentHeard
  <2>2. CASE lease' = Unowned /\ pc' = [pc EXCEPT ![c] = "clearing"]
    BY <1>11, <2>2, UnownedIsBare DEF AgentUnlinkStale, AgentHeard, UnlinkOwner, LosesTo
  <2> QED BY <1>11, <2>1, <2>2 DEF AgentUnlinkStale, UnlinkOwner
<1>12. CASE AgentRemoveStale(c)
  BY <1>12 DEF AgentRemoveStale, RemoveDir, IsEmpty, NoLease, LeaveQueue
<1>13. CASE AgentMakeLease(c)
  BY <1>13 DEF AgentMakeLease, AgentHeard, MakeLease, NoLease, EmptyLease
<1>14. CASE AgentClaimFails(c) BY <1>14 DEF AgentClaimFails, LeaveQueue
<1>15. CASE OpenOwner(c) BY <1>15 DEF OpenOwner, WithTemp
<1>16. CASE WriteOwner(c) BY <1>16 DEF WriteOwner, Renamed, Robbed, LosesTo
<1>17. CASE AgentYield(c) BY <1>17 DEF AgentYield, AgentHeard, ReadToken
<1>18. CASE AgentAcquired(c) BY <1>18 DEF AgentAcquired, AgentHeard, LeaveQueue
<1>19. CASE AgentSubmit(c) BY <1>19 DEF AgentSubmit, DelegatedLease
<1>20. CASE AgentRefused(c) BY <1>20 DEF AgentRefused
<1>21. CASE AgentResult(c) BY <1>21 DEF AgentResult
<1>22. CASE AgentAbandons(c) BY <1>22 DEF AgentAbandons
<1>23. CASE AgentRelease(c) BY <1>23 DEF AgentRelease, ReadToken
<1>24. CASE AgentUnlinksOwner(c)
  <2>1. CASE UnlinkOwn(c, "releasing", "removing")
    BY <1>24, <2>1, UnownedIsBare DEF AgentUnlinksOwner, UnlinkOwn, UnlinkOwner, LosesTo
  <2>2. CASE UnlinkOwn(c, "yielding", "vacating")
    BY <1>24, <2>2, UnownedIsBare DEF AgentUnlinksOwner, UnlinkOwn, UnlinkOwner, LosesTo
  <2> QED BY <1>24, <2>1, <2>2 DEF AgentUnlinksOwner
<1>25. CASE AgentRemovesDir(c)
  BY <1>25 DEF AgentRemovesDir, RemoveDir, IsEmpty, NoLease, LeaveQueue
<1>26. CASE Beat(c) BY <1>26 DEF Beat, Renamed
<1>27. CASE BeatRead(c) BY <1>27 DEF BeatRead
<1>28. CASE BeatOpen(c) BY <1>28 DEF BeatOpen, WithTemp
<1>29. CASE BeatWrite(c) BY <1>29 DEF BeatWrite, Renamed, Robbed, LosesTo
<1>30. CASE AgentArrives(c) BY <1>30 DEF AgentArrives, Arrives
<1> QED BY <1>1, <1>2, <1>3, <1>4, <1>5, <1>6, <1>7, <1>8, <1>9, <1>10, <1>11, <1>12, <1>13,
           <1>14, <1>15, <1>16, <1>17, <1>18, <1>19, <1>20, <1>21, <1>22, <1>23, <1>24,
           <1>25, <1>26, <1>27, <1>28, <1>29, <1>30
        DEF AgentStep, AgentQueues, AgentClaims, AgentHolds, AgentReleases, AgentBeats

\* One lease, one holder: for any number of clients that live and keep their
\* heartbeats, whatever the engines answer to a probe.
THEOREM AtMostOneHolder ==
  ASSUME Suspendable = {}, Crashable = {}, Torn = {} PROVE Spec => []MutualExclusion
<1>1. Init => LeaseUnique
  BY ClientAssumption DEF Init, LeaseUnique, Bare, Leaving, NoLease, Using, Holding
<1>2. TypeOK /\ LeaseUnique /\ [Next]_vars => LeaseUnique'
  <2> SUFFICES ASSUME TypeOK, LeaseUnique, [Next]_vars PROVE LeaseUnique' OBVIOUS
  <2>1. CASE Environment BY <2>1, EnvironmentKeepsUnique
  <2>2. ASSUME NEW c \in Agents, AgentStep(c) PROVE LeaseUnique'
    BY <2>2, AgentStepKeepsUnique, AgentAssumption
  <2>3. CASE UNCHANGED vars
    BY <2>3 DEF LeaseUnique, vars
  <2> QED BY <2>1, <2>2, <2>3 DEF Next
<1>3. LeaseUnique => MutualExclusion
  BY ClientAssumption DEF LeaseUnique, Bare, MutualExclusion, Claiming, Holding, Leaving
<1> QED BY <1>1, <1>2, <1>3, TypeCorrect, PTL DEF Spec

-----------------------------------------------------------------------------
(* What an agent leaves behind.                                             *)

Tidy ==
  /\ \A c \in beating : pc[c] \in Using
  /\ \A c \in Clients : pc[c] \in Holding \cup {"removing", "done", "gone"} => ticket[c] = 0
  /\ \A c \in Clients :
       lease.owner = c => pc[c] \in Holding \cup {"confirming", "yielding", "crashed"}
  /\ \A c \in lease.temps : pc[c] \in {"naming", "crashed"} \/ c \in beating

LEMMA EnvironmentKeepsTidy ==
  ASSUME TypeOK, QueueOrder, Tidy, Environment PROVE Tidy'
<1> USE ClientAssumption DEF Tidy, QueueOrder, Arrived, TypeOK, LeaseStates, files, engines,
    history, Using, Holding, Claiming, Leaving, Ended, At, Goto
<1>1. CASE LeaseLate BY <1>1 DEF LeaseLate
<1>2. ASSUME NEW c \in Clients, NeverArrives(c) PROVE Tidy'
  BY <1>2 DEF NeverArrives
<1>3. ASSUME NEW c \in Clients, EngineFinishes(c) PROVE Tidy'
  BY <1>3 DEF EngineFinishes, Running
<1>4. ASSUME NEW c \in Clients, Crash(c) PROVE Tidy'
  BY <1>4 DEF Crash
<1>5. ASSUME NEW c \in Clients, TicketLate(c) PROVE Tidy'
  BY <1>5 DEF TicketLate
<1> QED BY <1>1, <1>2, <1>3, <1>4, <1>5 DEF Environment

LEMMA AgentStepKeepsTidy ==
  ASSUME TypeOK, QueueOrder, Tidy, NEW c \in Clients, AgentStep(c)
  PROVE  Tidy'
<1> USE ClientAssumption DEF Tidy, QueueOrder, Arrived, TypeOK, LeaseStates, files, engines,
    history, Using, Holding, Claiming, Leaving, Ended, At, Goto
<1>1. CASE CountWaiters(c) BY <1>1 DEF CountWaiters, Prune
<1>2. CASE DrawNumber(c) BY <1>2 DEF DrawNumber, Waiters
<1>3. CASE WriteTicket(c) BY <1>3 DEF WriteTicket
<1>4. CASE ReadTicket(c) BY <1>4 DEF ReadTicket
<1>5. CASE RenewTicket(c) BY <1>5 DEF RenewTicket
<1>6. CASE ListWaiters(c) BY <1>6 DEF ListWaiters, Prune, SortsFirst, Waiters
<1>7. CASE AgentGivesUp(c) BY <1>7 DEF AgentGivesUp, LeaveQueue
<1>8. CASE AgentLooks(c)
  <2>1. AgentTurn \in {"probing", "polling", "reaping", "sweeping"} BY DEF AgentTurn
  <2> QED BY <1>8, <2>1 DEF AgentLooks
<1>9. CASE AgentObserve(c) BY <1>9 DEF AgentObserve, Observe, Answers
<1>10. CASE AgentBackOff(c) BY <1>10 DEF AgentBackOff, AgentHeard
<1>11. CASE AgentUnlinkStale(c)
  <2>1. CASE /\ pc' = [pc EXCEPT ![c] = "polling"] \/ pc' = [pc EXCEPT ![c] = "probing"]
             /\ UNCHANGED <<lease, stolen, strays>>
    BY <1>11, <2>1 DEF AgentUnlinkStale, AgentHeard
  <2>2. CASE lease' = Unowned /\ pc' = [pc EXCEPT ![c] = "clearing"]
    BY <1>11, <2>2, UnownedIsBare DEF AgentUnlinkStale, AgentHeard, UnlinkOwner, LosesTo
  <2> QED BY <1>11, <2>1, <2>2 DEF AgentUnlinkStale, UnlinkOwner
<1>12. CASE AgentRemoveStale(c)
  BY <1>12 DEF AgentRemoveStale, RemoveDir, IsEmpty, NoLease, LeaveQueue
<1>13. CASE AgentMakeLease(c)
  BY <1>13 DEF AgentMakeLease, AgentHeard, MakeLease, NoLease, EmptyLease
<1>14. CASE AgentClaimFails(c) BY <1>14 DEF AgentClaimFails, LeaveQueue
<1>15. CASE OpenOwner(c) BY <1>15 DEF OpenOwner, WithTemp
<1>16. CASE WriteOwner(c) BY <1>16 DEF WriteOwner, Renamed, Robbed, LosesTo
<1>17. CASE AgentYield(c) BY <1>17 DEF AgentYield, AgentHeard, ReadToken
<1>18. CASE AgentAcquired(c) BY <1>18 DEF AgentAcquired, AgentHeard, LeaveQueue
<1>19. CASE AgentSubmit(c) BY <1>19 DEF AgentSubmit, DelegatedLease
<1>20. CASE AgentRefused(c) BY <1>20 DEF AgentRefused
<1>21. CASE AgentResult(c) BY <1>21 DEF AgentResult
<1>22. CASE AgentAbandons(c) BY <1>22 DEF AgentAbandons
<1>23. CASE AgentRelease(c) BY <1>23 DEF AgentRelease, ReadToken
<1>24. CASE AgentUnlinksOwner(c)
  <2>1. CASE UnlinkOwn(c, "releasing", "removing")
    BY <1>24, <2>1, UnownedIsBare DEF AgentUnlinksOwner, UnlinkOwn, UnlinkOwner, LosesTo
  <2>2. CASE UnlinkOwn(c, "yielding", "vacating")
    BY <1>24, <2>2, UnownedIsBare DEF AgentUnlinksOwner, UnlinkOwn, UnlinkOwner, LosesTo
  <2> QED BY <1>24, <2>1, <2>2 DEF AgentUnlinksOwner
<1>25. CASE AgentRemovesDir(c)
  BY <1>25 DEF AgentRemovesDir, RemoveDir, IsEmpty, NoLease, LeaveQueue
<1>26. CASE Beat(c) BY <1>26 DEF Beat, Renamed
<1>27. CASE BeatRead(c) BY <1>27 DEF BeatRead
<1>28. CASE BeatOpen(c) BY <1>28 DEF BeatOpen, WithTemp
<1>29. CASE BeatWrite(c) BY <1>29 DEF BeatWrite, Renamed, Robbed, LosesTo
<1>30. CASE AgentArrives(c) BY <1>30 DEF AgentArrives, Arrives
<1> QED BY <1>1, <1>2, <1>3, <1>4, <1>5, <1>6, <1>7, <1>8, <1>9, <1>10, <1>11, <1>12, <1>13,
           <1>14, <1>15, <1>16, <1>17, <1>18, <1>19, <1>20, <1>21, <1>22, <1>23, <1>24,
           <1>25, <1>26, <1>27, <1>28, <1>29, <1>30
        DEF AgentStep, AgentQueues, AgentClaims, AgentHolds, AgentReleases, AgentBeats

\* An agent that has left the queue or released the lease leaves no ticket, no lease
\* in its name and no unfinished owner.json, whether it was served, refused,
\* cancelled or robbed.
THEOREM AgentsLeaveNothing == Spec => []NothingLeftBehind
<1>1. Init => Tidy
  BY ClientAssumption DEF Init, Tidy, NoLease, Using, Holding
<1>2. TypeOK /\ QueueOrder /\ Tidy /\ [Next]_vars => Tidy'
  <2> SUFFICES ASSUME TypeOK, QueueOrder, Tidy, [Next]_vars PROVE Tidy' OBVIOUS
  <2>1. CASE Environment BY <2>1, EnvironmentKeepsTidy
  <2>2. ASSUME NEW c \in Agents, AgentStep(c) PROVE Tidy'
    BY <2>2, AgentStepKeepsTidy, AgentAssumption
  <2>3. CASE UNCHANGED vars
    BY <2>3 DEF Tidy, vars
  <2> QED BY <2>1, <2>2, <2>3 DEF Next
<1>3. Tidy => NothingLeftBehind
  BY AgentAssumption DEF Tidy, NothingLeftBehind, Using, Holding
<1> QED BY <1>1, <1>2, <1>3, TypeCorrect, QueueOrdered, PTL DEF Spec
=============================================================================
