----------------------------- MODULE TaskProofs -----------------------------
(***************************************************************************)
(* The inductive invariant of an image job that is not a batch: what its   *)
(* call, its cancellation and its recovery rely on at each of their        *)
(* places, for every number of images, calls, cancellations and restarts.  *)
(* PresentationProofs states the theorems.                                 *)
(***************************************************************************)
EXTENDS TaskRecovery, TLAPS

\* The places of the call that made the job.
Underway == {"planning", "waiting", "leased", "aborting", "sweeping"} \cup Executing
Claimed == Underway \cup {"unplanned", "done"}

\* The places from which an actor goes on without an await.
Atomic == {"planning", "aborting", "sweeping", "starting", "rejected", "verified", "committing",
           "finishing", "staging", "staged", "recovered", "binding"}

BusyAgrees ==
  /\ \A a \in Actors : pc[a] \in Atomic => busy = a
  /\ busy # Nobody => pc[busy] \in Atomic

\* Who can be where.
RolesAgree ==
  /\ \A t \in Turns : pc[t] \notin Recovering
  /\ \A k \in Cancellers : pc[k] \in {"new", "sweeping", "answered", "done", "dead"}
  /\ pc[R] \in {"new"} \cup Recovering
  /\ \A a \in Actors : pc[a] \in {"new", "capturing"} \cup Recovering => at[a] = 0

\* One call makes the job, and while it is at it the process that runs made it.
ClaimAgrees ==
  /\ \A t, u \in Turns : pc[t] \in Claimed /\ pc[u] \in Claimed => t = u
  /\ \A t \in Turns : pc[t] \in Claimed => claim
  /\ \A t \in Turns : pc[t] \in Underway => fresh /\ old = {}
  /\ ~claim => /\ parent = NoParent /\ old = {}
               /\ \A i \in Children : child[i] = Missing

LeaseAgrees == \A t \in Turns : pc[t] \in {"leased"} \cup Executing => holder = t

\* The first n children are verified and listed, those behind m have not begun.
Reached(n, m) ==
  /\ mine = parent /\ parent.status = "RUNNING" /\ parent.artifacts = 1 .. n
  /\ \A i \in 1 .. n : child[i] = "COMPLETED"
  /\ \A i \in m + 1 .. form.count : child[i] = "QUEUED"

\* What a call relies on at each of its places.
PlanningAgrees(t) ==
  /\ parent = [NoParent EXCEPT !.status = "CREATED"]
  /\ at[t] \in 0 .. form.count
  /\ \A i \in 1 .. at[t] : child[i] = "QUEUED"
  /\ \A i \in Children : child[i] # "COMPLETED"

WaitingAgrees(t) ==
  /\ at[t] = 0 /\ mine = [NoParent EXCEPT !.status = "QUEUED"]
  /\ parent.status \in {"QUEUED", "CANCELLED"} /\ parent.artifacts = {}
  /\ parent.status = "QUEUED" => mine = parent /\ \A i \in 1 .. form.count : child[i] = "QUEUED"

StartingAgrees(t) == at[t] \in 0 .. form.count - 1 /\ Reached(at[t], at[t])

WorkingAgrees(t) ==
  at[t] \in 1 .. form.count /\ Reached(at[t] - 1, at[t]) /\ child[at[t]] = "RUNNING"

CommittingAgrees(t) ==
  at[t] \in 1 .. form.count /\ Reached(at[t] - 1, at[t]) /\ child[at[t]] = "COMPLETED"

FinishingAgrees(t) == at[t] = form.count /\ Reached(at[t], at[t])

AbortingAgrees(t) ==
  /\ at[t] \in 1 .. form.count /\ child[at[t]] \in {"FAILED", "TIMED_OUT", "CANCELLED"}
  /\ parent.status = "RUNNING"

SweepingAgrees(a) ==
  /\ at[a] \in 0 .. form.count /\ parent.status \in TERMINAL \ {"COMPLETED"}
  /\ \A i \in 1 .. at[a] : child[i] \in TERMINAL
  /\ a \in Cancellers => parent.status = "CANCELLED"

TurnAgreesAt(t) ==
  /\ pc[t] = "planning" => PlanningAgrees(t)
  /\ pc[t] \in {"waiting", "leased"} => WaitingAgrees(t)
  /\ pc[t] = "starting" => StartingAgrees(t)
  /\ pc[t] \in {"working", "rejected", "enhancing", "verified"} => WorkingAgrees(t)
  /\ pc[t] = "committing" => CommittingAgrees(t)
  /\ pc[t] = "finishing" => FinishingAgrees(t)
  /\ pc[t] = "aborting" => AbortingAgrees(t)

TurnAgrees == \A t \in Turns : TurnAgreesAt(t)

SweepsAgree == \A a \in Actors : pc[a] = "sweeping" => SweepingAgrees(a)

\* A recovery works on a job of an earlier process that only recoverStale knows of.
RecoveryAgrees ==
  pc[R] \in Recovering =>
    /\ claim /\ ~fresh /\ form.count = 1 /\ copy.status = "RUNNING"
    /\ parent.status \in {"RUNNING", "FAILED"}
    /\ \A t \in Turns : pc[t] # "done"
    /\ child[1] \in IF pc[R] = "binding" THEN {"COMPLETED"} ELSE {"RUNNING", "FAILED"}

JobInv ==
  /\ TaskTypeOK /\ BusyAgrees /\ RolesAgree /\ ClaimAgrees /\ LeaseAgrees
  /\ TurnAgrees /\ SweepsAgree /\ RecoveryAgrees /\ CompletedIsWhole /\ EndedIsTerminal

-----------------------------------------------------------------------------

LEMMA JobInit == TaskInit => JobInv
<1> SUFFICES ASSUME TaskInit PROVE JobInv
  OBVIOUS
<1> USE TaskAssumption
<1>1. TaskTypeOK
  <2>1. NoParent \in ParentRecords
    BY DEF NoParent, ParentRecords, OnDisk
  <2>2. Missing \in OnDisk \ {"CREATED"} /\ "new" \in Places
    BY DEF OnDisk, Missing, Places
  <2>3. 0 \in 0 .. MaxCount /\ 0 \in 0 .. MaxCrashes
    OBVIOUS
  <2>4. child \in [Children -> OnDisk \ {"CREATED"}] /\ pc \in [Actors -> Places]
        /\ at \in [Actors -> 0 .. MaxCount]
    BY <2>2, <2>3 DEF TaskInit
  <2>5. claim \in BOOLEAN /\ fresh \in BOOLEAN /\ marker \in BOOLEAN /\ prompt \in BOOLEAN
        /\ ack \in BOOLEAN
    BY DEF TaskInit
  <2> QED BY <2>1, <2>3, <2>4, <2>5 DEF TaskInit, TaskTypeOK
<1>2. \A a \in Actors : pc[a] = "new"
  BY DEF TaskInit
<1>3. R \in Actors /\ Turns \subseteq Actors /\ Cancellers \subseteq Actors
  BY DEF R, Actors
<1>4. BusyAgrees /\ RolesAgree /\ LeaseAgrees /\ TurnAgrees /\ SweepsAgree /\ RecoveryAgrees
  BY <1>2, <1>3 DEF TaskInit, BusyAgrees, RolesAgree, LeaseAgrees, TurnAgrees, TurnAgreesAt,
     SweepsAgree, RecoveryAgrees, Atomic, Recovering, Executing
<1>5. ClaimAgrees
  BY <1>2, <1>3 DEF TaskInit, ClaimAgrees, Claimed, Underway, Executing
<1>6. CompletedIsWhole /\ EndedIsTerminal
  BY <1>2, <1>3 DEF TaskInit, CompletedIsWhole, EndedIsTerminal, NoParent, Missing
<1> QED BY <1>1, <1>4, <1>5, <1>6 DEF JobInv

-----------------------------------------------------------------------------
(* A step of the call that made the job.                                   *)

\* Nobody else is between two awaits, and no other call made the job.
Alone(t) ==
  /\ \A u \in Turns \ {t} : pc[u] \notin Claimed
  /\ \A a \in Actors \ {t} : pc[a] \notin Atomic
  /\ pc[R] = "new"

LEMMA UnderwayAlone ==
  ASSUME JobInv, NEW t \in Turns, pc[t] \in Underway, busy \in {t, Nobody}
  PROVE  Alone(t) /\ claim /\ fresh /\ old = {} /\ parent.status # "COMPLETED"
<1> USE TaskAssumption
<1>1. R \in Actors /\ t \in Actors
  BY DEF R, Actors
<1>2. claim /\ fresh /\ old = {} /\ \A u \in Turns \ {t} : pc[u] \notin Claimed
  BY DEF JobInv, ClaimAgrees, Claimed
<1>3. \A a \in Actors \ {t} : pc[a] \notin Atomic
  BY DEF JobInv, BusyAgrees
<1>4. pc[R] = "new"
  BY <1>2 DEF JobInv, RolesAgree, RecoveryAgrees
<1>5. parent.status # "COMPLETED"
  <2>1. TurnAgreesAt(t) /\ (pc[t] = "sweeping" => SweepingAgrees(t))
    BY <1>1 DEF JobInv, TurnAgrees, SweepsAgree
  <2>2. pc[t] = "planning" => parent.status = "CREATED"
    BY <2>1 DEF TurnAgreesAt, PlanningAgrees, NoParent
  <2> QED BY <2>1, <2>2 DEF TurnAgreesAt, WaitingAgrees, StartingAgrees, WorkingAgrees,
       CommittingAgrees, FinishingAgrees, AbortingAgrees, SweepingAgrees, Reached, Underway, Executing
<1> QED BY <1>2, <1>3, <1>4, <1>5 DEF Alone

\* So it is enough that it finds at its next place what it relies on there.
LEMMA TurnGoes ==
  ASSUME TaskTypeOK, RolesAgree, NEW t \in Turns, Alone(t),
         NEW place \in Claimed, pc' = [pc EXCEPT ![t] = place],
         busy' = IF place \in Atomic THEN t ELSE Nobody,
         \A a \in Actors \ {t} : at'[a] = at[a],
         form' = form, claim', fresh', old' = {}, TaskTypeOK',
         place \in {"leased"} \cup Executing => holder' = t,
         TurnAgreesAt(t)',
         place = "sweeping" => SweepingAgrees(t)',
         CompletedIsWhole',
         place = "done" => /\ parent'.status \in TERMINAL
                           /\ \A i \in 1 .. form.count : child'[i] \in TERMINAL
  PROVE  JobInv'
<1> USE TaskAssumption
<1>1. R \in Actors /\ t \in Actors /\ Turns \subseteq Actors /\ t # R /\ t \notin Cancellers
      /\ Cancellers \subseteq Actors
  BY DEF R, Actors
<1>2. /\ \A u \in Turns \ {t} : pc[u] \notin Claimed
      /\ \A a \in Actors \ {t} : pc[a] \notin Atomic
      /\ pc[R] = "new"
  BY DEF Alone
<1>3. pc \in [Actors -> Places]
  BY DEF TaskTypeOK
<1>4. pc'[t] = place /\ \A a \in Actors \ {t} : pc'[a] = pc[a]
  BY <1>1, <1>3
<1>5. BusyAgrees'
  BY <1>1, <1>2, <1>4 DEF BusyAgrees
<1>6. RolesAgree'
  <2>1. place \notin {"new", "capturing"} \cup Recovering
    BY DEF Claimed, Underway, Executing, Recovering
  <2> QED BY <1>1, <1>4, <2>1 DEF RolesAgree
<1>7. ClaimAgrees'
  <2>1. \A u \in Turns : pc'[u] \in Claimed => u = t
    BY <1>1, <1>2, <1>4
  <2> QED BY <2>1 DEF ClaimAgrees
<1>8. LeaseAgrees' /\ TurnAgrees'
  <2> SUFFICES ASSUME NEW u \in Turns, u # t
               PROVE  TurnAgreesAt(u)' /\ pc'[u] \notin {"leased"} \cup Executing
    BY <1>4 DEF LeaseAgrees, TurnAgrees
  <2>1. pc'[u] \notin Claimed
    BY <1>1, <1>2, <1>4
  <2> QED BY <2>1 DEF TurnAgreesAt, Claimed, Underway, Executing
<1>9. SweepsAgree'
  BY <1>1, <1>2, <1>4 DEF SweepsAgree, Atomic
<1>10. RecoveryAgrees'
  BY <1>1, <1>2, <1>4 DEF RecoveryAgrees, Recovering
<1>11. EndedIsTerminal'
  <2>1. \A u \in Turns : pc'[u] = "done" => u = t
    BY <1>1, <1>2, <1>4 DEF Claimed
  <2> QED BY <1>4, <2>1 DEF EndedIsTerminal
<1> QED BY <1>5, <1>6, <1>7, <1>8, <1>9, <1>10, <1>11 DEF JobInv

\* A call that did not make the job leaves it alone.
LEMMA TurnStaysOut ==
  ASSUME JobInv, NEW t \in Turns, pc[t] \in {"new", "capturing"}, busy \in {t, Nobody},
         NEW place \in {"capturing", "answered"}, pc' = [pc EXCEPT ![t] = place],
         busy' = Nobody,
         UNCHANGED <<form, records, claim, fresh, outside, at, mine, copy, holder, crashes>>
  PROVE  JobInv'
<1> USE TaskAssumption
<1>1. R \in Actors /\ t \in Actors /\ Turns \subseteq Actors /\ t # R /\ t \notin Cancellers
      /\ Cancellers \subseteq Actors
  BY DEF R, Actors
<1>2. TaskTypeOK'
  BY <1>1 DEF JobInv, TaskTypeOK, records, outside, Places, Live
<1>3. pc'[t] = place /\ \A a \in Actors \ {t} : pc'[a] = pc[a]
  BY <1>1 DEF JobInv, TaskTypeOK
<1>4. place \notin Claimed \cup Atomic \cup Recovering
  BY DEF Claimed, Underway, Executing, Atomic, Recovering
<1>5. pc[t] \notin Atomic
  BY DEF Atomic
<1>6. BusyAgrees'
  BY <1>1, <1>3, <1>4 DEF JobInv, BusyAgrees
<1>7. RolesAgree' /\ ClaimAgrees' /\ LeaseAgrees'
  <2>1. RolesAgree'
    BY <1>1, <1>3, <1>4 DEF JobInv, RolesAgree
  <2>2. ClaimAgrees'
    BY <1>1, <1>3, <1>4 DEF JobInv, ClaimAgrees, records, Claimed
  <2>3. LeaseAgrees'
    BY <1>1, <1>3, <1>4 DEF JobInv, LeaseAgrees, Claimed, Underway
  <2> QED BY <2>1, <2>2, <2>3
<1>8. TurnAgrees'
  <2> SUFFICES ASSUME NEW u \in Turns PROVE TurnAgreesAt(u)'
    BY DEF TurnAgrees
  <2>1. CASE u = t
    BY <2>1, <1>3 DEF TurnAgreesAt
  <2>2. CASE u # t
    <3>1. TurnAgreesAt(u) /\ pc'[u] = pc[u]
      BY <1>1, <1>3, <2>2 DEF JobInv, TurnAgrees
    <3> QED BY <3>1 DEF TurnAgreesAt, PlanningAgrees, WaitingAgrees, StartingAgrees, WorkingAgrees,
         CommittingAgrees, FinishingAgrees, AbortingAgrees, Reached, records
  <2> QED BY <2>1, <2>2
<1>9. SweepsAgree'
  BY <1>1, <1>3 DEF JobInv, SweepsAgree, SweepingAgrees, records
<1>10. RecoveryAgrees'
  BY <1>1, <1>3 DEF JobInv, RecoveryAgrees, records
<1>11. CompletedIsWhole' /\ EndedIsTerminal'
  BY <1>1, <1>3 DEF JobInv, CompletedIsWhole, EndedIsTerminal, records
<1> QED BY <1>2, <1>6, <1>7, <1>8, <1>9, <1>10, <1>11 DEF JobInv

-----------------------------------------------------------------------------
(* createTask, place by place.                                             *)

LEMMA StatusTypes ==
  /\ TERMINAL \subseteq OnDisk \ {"CREATED"}
  /\ {"QUEUED", "RUNNING"} \subseteq OnDisk \ {"CREATED"}
  /\ "CREATED" \in OnDisk /\ Missing \in OnDisk \ {"CREATED"} /\ Missing \notin TERMINAL
  /\ TERMINAL \cap {"CREATED", "QUEUED", "RUNNING"} = {}
BY DEF TERMINAL, OnDisk, Statuses, Missing

LEMMA CountTypes ==
  ASSUME TaskTypeOK
  PROVE  /\ form.count \in 1 .. MaxCount /\ form.count \in Nat
         /\ 1 .. form.count \subseteq Children
BY TaskAssumption DEF TaskTypeOK, Children

LEMMA CheckPriorStep ==
  ASSUME JobInv, NEW t \in Turns, CheckPrior(t)
  PROVE  JobInv'
<1>1. DEFINE place == IF claim THEN "answered" ELSE "capturing"
<1>2. place \in {"capturing", "answered"} /\ pc' = [pc EXCEPT ![t] = place] /\ busy' = Nobody
  BY DEF CheckPrior, Awaits
<1>3. pc[t] \in {"new", "capturing"} /\ busy \in {t, Nobody}
  BY DEF CheckPrior, At
<1>4. UNCHANGED <<form, records, claim, fresh, outside, at, mine, copy, holder, crashes>>
  BY DEF CheckPrior
<1> QED BY <1>2, <1>3, <1>4, TurnStaysOut

\* The call whose claim is the first finds nothing of the job on the disk.
LEMMA ClaimStep ==
  ASSUME JobInv, NEW t \in Turns, Claim(t)
  PROVE  JobInv'
<1> USE TaskAssumption
<1>1. pc[t] = "capturing" /\ pc[t] \notin Claimed /\ busy \in {t, Nobody}
  BY DEF Claim, At, Claimed, Underway, Executing
<1>2. CASE claim
  <2>1. /\ pc' = [pc EXCEPT ![t] = "answered"] /\ busy' = Nobody
        /\ UNCHANGED <<form, records, claim, fresh, outside, at, mine, copy, holder, crashes>>
    BY <1>2 DEF Claim, Awaits, records
  <2> QED BY <2>1, <1>1, TurnStaysOut
<1>3. CASE ~claim
  <2>1. t \in Actors /\ R \in Actors /\ Turns \subseteq Actors /\ Cancellers \subseteq Actors
    BY DEF Actors, R
  <2>2. /\ parent = NoParent /\ old = {} /\ \A i \in Children : child[i] = Missing
        /\ \A u \in Turns : pc[u] \notin Claimed
    BY <1>3 DEF JobInv, ClaimAgrees
  <2>3. pc[R] = "new"
    BY <1>3 DEF JobInv, RolesAgree, RecoveryAgrees
  <2>4. \A a \in Actors \ {t} : pc[a] \notin Atomic
    BY <1>1 DEF JobInv, BusyAgrees
  <2>5. Alone(t)
    BY <2>2, <2>3, <2>4 DEF Alone
  <2>6. /\ pc' = [pc EXCEPT ![t] = "planning"] /\ busy' = t /\ claim' /\ fresh' /\ old' = {}
        /\ parent' = [NoParent EXCEPT !.status = "CREATED"]
        /\ UNCHANGED <<form, child, outside, at, mine, copy, holder, crashes>>
    BY <1>3, <2>2 DEF Claim, GoesOn, SaveParent
  <2>7. TaskTypeOK'
    <3>1. parent' \in ParentRecords
      BY <2>6, StatusTypes DEF NoParent, ParentRecords
    <3>2. claim' = TRUE /\ fresh' = TRUE
      BY <1>3 DEF Claim
    <3>3. pc' \in [Actors -> Places]
      BY <2>1, <2>6 DEF JobInv, TaskTypeOK, Places, Live
    <3> QED BY <2>1, <2>6, <3>1, <3>2, <3>3 DEF JobInv, TaskTypeOK, outside
  <2>8. TurnAgreesAt(t)'
    <3>0. at[t] = 0
      BY <1>1, <2>1 DEF JobInv, RolesAgree
    <3>1. pc'[t] = "planning"
      BY <2>1, <2>6 DEF JobInv, TaskTypeOK
    <3>2. PlanningAgrees(t)'
      BY <2>1, <2>2, <2>6, <3>0, CountTypes DEF JobInv, TaskTypeOK, PlanningAgrees, Missing
    <3> QED BY <3>1, <3>2 DEF TurnAgreesAt
  <2>9. CompletedIsWhole'
    BY <2>6 DEF CompletedIsWhole, NoParent
  <2>10. "planning" \in Claimed /\ "planning" \in Atomic /\ "planning" \notin {"leased"} \cup Executing
    BY DEF Claimed, Underway, Executing, Atomic
  <2> QED BY <2>5, <2>6, <2>7, <2>8, <2>9, <2>10, TurnGoes DEF JobInv
<1> QED BY <1>2, <1>3

LEMMA PlaceTypes ==
  /\ \A p \in Underway : p \in Claimed /\ p \in Places
  /\ {"unplanned", "done"} \subseteq Claimed /\ {"unplanned", "done"} \subseteq Places
  /\ {"planning", "aborting", "sweeping", "starting", "rejected", "verified", "committing",
      "finishing"} \subseteq Atomic
  /\ {"waiting", "leased", "working", "enhancing", "unplanned", "done"} \cap Atomic = {}
  /\ {"planning", "waiting", "leased", "aborting", "sweeping", "starting", "working", "rejected",
      "enhancing", "verified", "committing", "finishing"} \subseteq Underway
  /\ {"planning", "waiting", "aborting", "sweeping", "unplanned", "done"}
       \cap ({"leased"} \cup Executing) = {}
BY DEF Underway, Claimed, Executing, Atomic, Places, Live

LEMMA PlanChildStep ==
  ASSUME JobInv, NEW t \in Turns, PlanChild(t)
  PROVE  JobInv'
<1> USE TaskAssumption
<1>1. pc[t] = "planning" /\ pc[t] \in Underway /\ busy \in {t, Nobody} /\ t \in Actors
  BY PlaceTypes DEF PlanChild, At, Actors
<1>2. Alone(t) /\ claim /\ fresh /\ old = {}
  BY <1>1, UnderwayAlone
<1>3. TaskTypeOK /\ PlanningAgrees(t)
  BY <1>1 DEF JobInv, TurnAgrees, TurnAgreesAt
<1>4. /\ at[t] < form.count /\ child' = [child EXCEPT ![at[t] + 1] = "QUEUED"]
      /\ at' = [at EXCEPT ![t] = at[t] + 1] /\ old' = {}
      /\ pc' = [pc EXCEPT ![t] = "planning"] /\ busy' = t
      /\ UNCHANGED <<form, parent, claim, fresh, outside, mine, copy, holder, crashes>>
  BY <1>2 DEF PlanChild, SaveChild, From, GoesOn
<1>5. TaskTypeOK'
  BY <1>1, <1>3, <1>4, CountTypes, StatusTypes, PlaceTypes DEF TaskTypeOK, outside
<1>6. PlanningAgrees(t)'
  BY <1>1, <1>3, <1>4, CountTypes DEF PlanningAgrees, TaskTypeOK
<1>7. TurnAgreesAt(t)'
  BY <1>1, <1>3, <1>4, <1>6 DEF TurnAgreesAt, TaskTypeOK
<1>8. CompletedIsWhole'
  BY <1>6 DEF CompletedIsWhole, PlanningAgrees, NoParent
<1> QED BY <1>1, <1>2, <1>3, <1>4, <1>5, <1>7, <1>8, PlaceTypes, TurnGoes DEF JobInv, TaskTypeOK

LEMMA PlanParentStep ==
  ASSUME JobInv, NEW t \in Turns, PlanParent(t)
  PROVE  JobInv'
<1> USE TaskAssumption
<1>1. pc[t] = "planning" /\ pc[t] \in Underway /\ busy \in {t, Nobody} /\ t \in Actors
  BY PlaceTypes DEF PlanParent, At, Actors
<1>2. Alone(t) /\ claim /\ fresh /\ old = {}
  BY <1>1, UnderwayAlone
<1>3. TaskTypeOK /\ PlanningAgrees(t)
  BY <1>1 DEF JobInv, TurnAgrees, TurnAgreesAt
<1>4. /\ at[t] = form.count /\ mine' = [parent EXCEPT !.status = "QUEUED"] /\ parent' = mine'
      /\ at' = [at EXCEPT ![t] = 0] /\ old' = {}
      /\ pc' = [pc EXCEPT ![t] = "waiting"] /\ busy' = Nobody
      /\ UNCHANGED <<form, child, claim, fresh, outside, copy, holder, crashes>>
  BY <1>2 DEF PlanParent, SaveParent, From, Awaits
<1>5. mine' = [NoParent EXCEPT !.status = "QUEUED"]
  BY <1>3, <1>4 DEF PlanningAgrees, NoParent
<1>6. mine' \in ParentRecords /\ mine'.status = "QUEUED" /\ mine'.artifacts = {}
  BY <1>5, StatusTypes DEF ParentRecords, NoParent
<1>7. TaskTypeOK'
  BY <1>1, <1>3, <1>4, <1>6, PlaceTypes DEF TaskTypeOK, outside
<1>8. WaitingAgrees(t)'
  BY <1>1, <1>3, <1>4, <1>5, <1>6 DEF WaitingAgrees, PlanningAgrees, TaskTypeOK
<1>9. TurnAgreesAt(t)'
  BY <1>1, <1>3, <1>4, <1>8 DEF TurnAgreesAt, TaskTypeOK
<1>10. CompletedIsWhole'
  BY <1>4, <1>6 DEF CompletedIsWhole
<1> QED BY <1>1, <1>2, <1>3, <1>4, <1>7, <1>9, <1>10, PlaceTypes, TurnGoes DEF JobInv, TaskTypeOK

LEMMA PlanFailsStep ==
  ASSUME JobInv, NEW t \in Turns, PlanFails(t)
  PROVE  JobInv'
<1> USE TaskAssumption
<1>1. pc[t] = "planning" /\ pc[t] \in Underway /\ busy \in {t, Nobody} /\ t \in Actors
  BY PlaceTypes DEF PlanFails, At, Actors
<1>2. Alone(t) /\ claim /\ fresh /\ old = {}
  BY <1>1, UnderwayAlone
<1>3. TaskTypeOK
  BY DEF JobInv
<1>4. /\ parent' = [parent EXCEPT !.status = "FAILED"] /\ old' = {}
      /\ pc' = [pc EXCEPT ![t] = "unplanned"] /\ busy' = Nobody
      /\ UNCHANGED <<form, child, claim, fresh, outside, at, mine, copy, holder, crashes>>
  BY <1>2 DEF PlanFails, SaveParent, Awaits
<1>5. parent' \in ParentRecords /\ parent'.status = "FAILED"
  BY <1>3, <1>4, StatusTypes DEF TaskTypeOK, ParentRecords, TERMINAL
<1>6. TaskTypeOK'
  BY <1>1, <1>3, <1>4, <1>5, PlaceTypes DEF TaskTypeOK, outside
<1>7. TurnAgreesAt(t)'
  BY <1>1, <1>3, <1>4 DEF TurnAgreesAt, TaskTypeOK
<1>8. CompletedIsWhole'
  BY <1>5 DEF CompletedIsWhole
<1> QED BY <1>1, <1>2, <1>3, <1>4, <1>6, <1>7, <1>8, PlaceTypes, TurnGoes DEF JobInv, TaskTypeOK

\* The catch clause leaves a terminal record, and a call that sweeps its children.
LEMMA AbortStep ==
  ASSUME JobInv, NEW t \in Turns, pc[t] \in Underway, busy \in {t, Nobody},
         NEW status \in {"FAILED", "TIMED_OUT", "CANCELLED"}, Abort(t, status)
  PROVE  JobInv'
<1> USE TaskAssumption
<1>1. t \in Actors /\ t \notin Cancellers
  BY DEF Actors
<1>2. Alone(t) /\ claim /\ fresh /\ old = {} /\ parent.status # "COMPLETED"
  BY UnderwayAlone
<1>3. TaskTypeOK
  BY DEF JobInv
<1>4. /\ parent' = [parent EXCEPT !.status = IF @ \in TERMINAL THEN @ ELSE status] /\ old' = {}
      /\ at' = [at EXCEPT ![t] = 0]
      /\ pc' = [pc EXCEPT ![t] = "sweeping"] /\ busy' = t
      /\ UNCHANGED <<form, child, claim, fresh, outside, mine, copy, holder, crashes>>
  BY <1>2 DEF Abort, SaveParent, From, GoesOn
<1>5. status \in TERMINAL \ {"COMPLETED"}
  BY DEF TERMINAL
<1>6. parent' \in ParentRecords /\ parent'.status \in TERMINAL \ {"COMPLETED"}
  BY <1>2, <1>3, <1>4, <1>5, StatusTypes DEF TaskTypeOK, ParentRecords
<1>7. TaskTypeOK'
  BY <1>1, <1>3, <1>4, <1>6, PlaceTypes DEF TaskTypeOK, outside
<1>8. SweepingAgrees(t)'
  BY <1>1, <1>3, <1>4, <1>6, CountTypes DEF SweepingAgrees, TaskTypeOK
<1>9. TurnAgreesAt(t)'
  BY <1>1, <1>3, <1>4 DEF TurnAgreesAt, TaskTypeOK
<1>10. CompletedIsWhole'
  BY <1>6 DEF CompletedIsWhole
<1> QED BY <1>1, <1>2, <1>3, <1>4, <1>7, <1>8, <1>9, <1>10, PlaceTypes, TurnGoes DEF JobInv, TaskTypeOK

LEMMA WaitStopsStep ==
  ASSUME JobInv, NEW t \in Turns, WaitStops(t) \/ StartCancelled(t) \/ AbortByChild(t)
  PROVE  JobInv'
<1>1. CASE WaitStops(t)
  <2>1. pc[t] \in Underway /\ busy \in {t, Nobody}
    BY <1>1, PlaceTypes DEF WaitStops, At
  <2> QED BY <1>1, <2>1, AbortStep DEF WaitStops
<1>2. CASE StartCancelled(t)
  <2>1. pc[t] \in Underway /\ busy \in {t, Nobody}
    BY <1>2, PlaceTypes DEF StartCancelled, At
  <2> QED BY <1>2, <2>1, AbortStep DEF StartCancelled
<1>3. CASE AbortByChild(t)
  <2>1. pc[t] = "aborting" /\ pc[t] \in Underway /\ busy \in {t, Nobody}
    BY <1>3, PlaceTypes DEF AbortByChild, At
  <2>2. child[at[t]] \in {"FAILED", "TIMED_OUT", "CANCELLED"}
    BY <2>1 DEF JobInv, TurnAgrees, TurnAgreesAt, AbortingAgrees
  <2> QED BY <1>3, <2>1, <2>2, AbortStep DEF AbortByChild
<1> QED BY <1>1, <1>2, <1>3

LEMMA AcquireStep ==
  ASSUME JobInv, NEW t \in Turns, Acquire(t)
  PROVE  JobInv'
<1> USE TaskAssumption
<1>1. pc[t] = "waiting" /\ pc[t] \in Underway /\ busy \in {t, Nobody} /\ t \in Actors
  BY PlaceTypes DEF Acquire, At, Actors
<1>2. Alone(t) /\ claim /\ fresh /\ old = {} /\ parent.status # "COMPLETED"
  BY <1>1, UnderwayAlone
<1>3. TaskTypeOK /\ WaitingAgrees(t)
  BY <1>1 DEF JobInv, TurnAgrees, TurnAgreesAt
<1>4. /\ holder' = t /\ pc' = [pc EXCEPT ![t] = "leased"] /\ busy' = Nobody
      /\ UNCHANGED <<form, parent, child, old, claim, fresh, outside, at, mine, copy, crashes>>
  BY DEF Acquire, Awaits, records
<1>5. TaskTypeOK'
  BY <1>1, <1>3, <1>4, PlaceTypes DEF TaskTypeOK, outside
<1>6. TurnAgreesAt(t)'
  BY <1>1, <1>3, <1>4 DEF TurnAgreesAt, TaskTypeOK, WaitingAgrees
<1>7. CompletedIsWhole'
  BY <1>2, <1>4 DEF CompletedIsWhole
<1> QED BY <1>1, <1>2, <1>3, <1>4, <1>5, <1>6, <1>7, PlaceTypes, TurnGoes DEF JobInv, TaskTypeOK

LEMMA StartStep ==
  ASSUME JobInv, NEW t \in Turns, Start(t)
  PROVE  JobInv'
<1> USE TaskAssumption
<1>1. pc[t] = "leased" /\ pc[t] \in Underway /\ busy \in {t, Nobody} /\ t \in Actors
  BY PlaceTypes DEF Start, At, Actors
<1>2. Alone(t) /\ claim /\ fresh /\ old = {}
  BY <1>1, UnderwayAlone
<1>3. TaskTypeOK /\ WaitingAgrees(t) /\ holder = t
  BY <1>1 DEF JobInv, TurnAgrees, TurnAgreesAt, LeaseAgrees
<1>4. /\ parent.status # "CANCELLED" /\ mine' = [mine EXCEPT !.status = "RUNNING"] /\ parent' = mine'
      /\ old' = {} /\ pc' = [pc EXCEPT ![t] = "starting"] /\ busy' = t
      /\ UNCHANGED <<form, child, claim, fresh, outside, at, copy, holder, crashes>>
  BY <1>2 DEF Start, SaveParent, GoesOn
<1>5. mine' = [NoParent EXCEPT !.status = "RUNNING"]
  BY <1>3, <1>4 DEF WaitingAgrees, NoParent
<1>6. mine' \in ParentRecords /\ mine'.status = "RUNNING" /\ mine'.artifacts = {}
  BY <1>5, StatusTypes DEF ParentRecords, NoParent
<1>7. TaskTypeOK'
  BY <1>1, <1>3, <1>4, <1>6, PlaceTypes DEF TaskTypeOK, outside
<1>8. StartingAgrees(t)'
  <2>1. at[t] = 0 /\ \A i \in 1 .. form.count : child[i] = "QUEUED"
    BY <1>3, <1>4 DEF WaitingAgrees
  <2>2. 0 \in 0 .. form.count - 1 /\ 1 .. 0 = {} /\ 0 + 1 = 1
    BY <1>3, CountTypes
  <2> QED BY <1>4, <1>6, <2>1, <2>2 DEF StartingAgrees, Reached
<1>9. TurnAgreesAt(t)'
  BY <1>1, <1>3, <1>4, <1>8 DEF TurnAgreesAt, TaskTypeOK
<1>10. CompletedIsWhole'
  BY <1>4, <1>6 DEF CompletedIsWhole
<1> QED BY <1>1, <1>2, <1>3, <1>4, <1>7, <1>9, <1>10, PlaceTypes, TurnGoes DEF JobInv, TaskTypeOK

LEMMA StartChildStep ==
  ASSUME JobInv, NEW t \in Turns, StartChild(t)
  PROVE  JobInv'
<1> USE TaskAssumption
<1>1. pc[t] = "starting" /\ pc[t] \in Underway /\ busy \in {t, Nobody} /\ t \in Actors
  BY PlaceTypes DEF StartChild, At, Actors
<1>2. Alone(t) /\ claim /\ fresh /\ old = {}
  BY <1>1, UnderwayAlone
<1>3. TaskTypeOK /\ StartingAgrees(t) /\ holder = t
  BY <1>1 DEF JobInv, TurnAgrees, TurnAgreesAt, LeaseAgrees, Executing
<1>4. /\ child' = [child EXCEPT ![at[t] + 1] = "RUNNING"] /\ at' = [at EXCEPT ![t] = at[t] + 1]
      /\ engine' = "none" /\ prompt' = FALSE /\ ack' = FALSE
      /\ old' = {} /\ pc' = [pc EXCEPT ![t] = "working"] /\ busy' = Nobody
      /\ UNCHANGED <<form, parent, claim, fresh, marker, mine, copy, holder, crashes>>
  BY <1>2 DEF StartChild, SaveChild, From, Awaits
<1>5. /\ at[t] \in 0 .. form.count - 1 /\ mine = parent /\ parent.status = "RUNNING"
      /\ parent.artifacts = 1 .. at[t]
      /\ \A i \in 1 .. at[t] : child[i] = "COMPLETED"
      /\ \A i \in at[t] + 1 .. form.count : child[i] = "QUEUED"
  BY <1>3 DEF StartingAgrees, Reached
<1>6. TaskTypeOK'
  <2>1. child' \in [Children -> OnDisk \ {"CREATED"}] /\ at' \in [Actors -> 0 .. MaxCount]
    BY <1>1, <1>3, <1>4, <1>5, CountTypes, StatusTypes DEF TaskTypeOK
  <2>2. prompt' \in BOOLEAN /\ ack' \in BOOLEAN /\ engine' \in {"none", "running", "completed", "failed"}
    BY <1>4
  <2> QED BY <1>1, <1>3, <1>4, <2>1, <2>2, PlaceTypes DEF TaskTypeOK
<1>7. WorkingAgrees(t)'
  <2>1. at'[t] = at[t] + 1 /\ at'[t] \in 1 .. form.count /\ at'[t] - 1 = at[t]
    BY <1>1, <1>3, <1>4, <1>5, CountTypes DEF TaskTypeOK
  <2>2. child'[at'[t]] = "RUNNING" /\ \A i \in Children : i # at'[t] => child'[i] = child[i]
    BY <1>3, <1>4, <2>1, CountTypes DEF TaskTypeOK
  <2>3. \A i \in 1 .. at[t] : child'[i] = "COMPLETED"
    BY <1>5, <2>1, <2>2, CountTypes, <1>3
  <2>4. \A i \in at'[t] + 1 .. form.count : child'[i] = "QUEUED"
    BY <1>5, <2>1, <2>2, CountTypes, <1>3
  <2> QED BY <1>4, <1>5, <2>1, <2>2, <2>3, <2>4 DEF WorkingAgrees, Reached
<1>8. TurnAgreesAt(t)'
  BY <1>1, <1>3, <1>4, <1>7 DEF TurnAgreesAt, TaskTypeOK
<1>9. CompletedIsWhole'
  BY <1>4, <1>5 DEF CompletedIsWhole
<1> QED BY <1>1, <1>2, <1>3, <1>4, <1>6, <1>8, <1>9, PlaceTypes, TurnGoes DEF JobInv, TaskTypeOK

\* While the engine works, and until its result is written, only the child's record changes.
LEMMA EngineStep ==
  ASSUME JobInv, NEW t \in Turns, Submit(t) \/ RecordPrompt(t) \/ Verify(t) \/ Enhance(t)
  PROVE  JobInv'
<1> USE TaskAssumption
<1>1. /\ pc[t] \in {"working", "enhancing"} /\ pc[t] \in Underway /\ pc[t] \in Executing
      /\ busy \in {t, Nobody} /\ t \in Actors
  BY PlaceTypes DEF Submit, RecordPrompt, Verify, Enhance, At, Actors, Executing
<1>2. Alone(t) /\ claim /\ fresh /\ old = {} /\ parent.status # "COMPLETED"
  BY <1>1, UnderwayAlone
<1>3. TaskTypeOK /\ WorkingAgrees(t) /\ holder = t
  BY <1>1 DEF JobInv, TurnAgrees, TurnAgreesAt, LeaseAgrees
<1>4. busy # t
  BY <1>1, TaskAssumption, PlaceTypes DEF JobInv, BusyAgrees, Actors
<1>5. child' = child
  <2>1. child[at[t]] = "RUNNING" /\ child \in [Children -> OnDisk \ {"CREATED"}]
    BY <1>3 DEF WorkingAgrees, TaskTypeOK
  <2> QED BY <2>1 DEF Submit, RecordPrompt, Verify, Enhance, SaveChild, records
<1>6. UNCHANGED <<form, parent, claim, fresh, at, mine, copy, holder, crashes, marker>> /\ old' = {}
  BY <1>2 DEF Submit, RecordPrompt, Verify, Enhance, SaveChild, records, outside
<1>7. \E place \in {"working", "rejected", "enhancing", "verified"} :
        pc' = [pc EXCEPT ![t] = place] /\ busy' = IF place \in Atomic THEN t ELSE Nobody
  <2>1. CASE Submit(t) \/ RecordPrompt(t)
    BY <1>1, <1>3, <1>4, <2>1, PlaceTypes DEF Submit, RecordPrompt, At, TaskTypeOK
  <2>2. CASE Verify(t)
    BY <2>2, PlaceTypes DEF Verify, GoesOn, Awaits
  <2>3. CASE Enhance(t)
    BY <2>3, PlaceTypes DEF Enhance, GoesOn
  <2> QED BY <2>1, <2>2, <2>3
<1>8. PICK place \in {"working", "rejected", "enhancing", "verified"} :
        pc' = [pc EXCEPT ![t] = place] /\ busy' = IF place \in Atomic THEN t ELSE Nobody
  BY <1>7
<1>9. place \in Claimed /\ place \in Places
  BY PlaceTypes
<1>10. TaskTypeOK'
  <2>1. engine' \in {"none", "running", "completed", "failed"}
    BY <1>3 DEF TaskTypeOK, Submit, RecordPrompt, Verify, Enhance, outside
  <2>2. prompt' \in BOOLEAN
    BY <1>3 DEF TaskTypeOK, Submit, RecordPrompt, Verify, Enhance, outside
  <2>3. ack' \in BOOLEAN
    BY <1>3 DEF TaskTypeOK, Submit, RecordPrompt, Verify, Enhance, outside
  <2> QED BY <1>1, <1>2, <1>3, <1>5, <1>6, <1>8, <1>9, <2>1, <2>2, <2>3 DEF TaskTypeOK
<1>11. TurnAgreesAt(t)'
  <2>1. WorkingAgrees(t)'
    BY <1>3, <1>5, <1>6 DEF WorkingAgrees, Reached
  <2>2. pc'[t] = place
    BY <1>1, <1>3, <1>8 DEF TaskTypeOK
  <2> QED BY <2>1, <2>2 DEF TurnAgreesAt
<1>12. CompletedIsWhole'
  BY <1>2, <1>6 DEF CompletedIsWhole
<1> QED BY <1>1, <1>2, <1>3, <1>6, <1>8, <1>9, <1>10, <1>11, <1>12, TurnGoes DEF JobInv

LEMMA ChildFailsStep ==
  ASSUME JobInv, NEW t \in Turns, ChildFails(t)
  PROVE  JobInv'
<1> USE TaskAssumption
<1>1. /\ pc[t] \in {"working", "rejected", "enhancing"} /\ pc[t] \in Underway
      /\ busy \in {t, Nobody} /\ t \in Actors
  BY PlaceTypes DEF ChildFails, At, Actors
<1>2. Alone(t) /\ claim /\ fresh /\ old = {} /\ parent.status # "COMPLETED"
  BY <1>1, UnderwayAlone
<1>3. TaskTypeOK /\ WorkingAgrees(t)
  BY <1>1 DEF JobInv, TurnAgrees, TurnAgreesAt
<1>4. PICK status \in FailedAs(t) : SaveChild(at[t], status)
  BY DEF ChildFails
<1>5. status \in {"FAILED", "TIMED_OUT", "CANCELLED"} /\ status \in OnDisk \ {"CREATED"}
  BY <1>4, StatusTypes DEF FailedAs, TERMINAL
<1>6. /\ child' = [child EXCEPT ![at[t]] = status] /\ old' = {}
      /\ pc' = [pc EXCEPT ![t] = "aborting"] /\ busy' = t
      /\ UNCHANGED <<form, parent, claim, fresh, outside, at, mine, copy, holder, crashes>>
  BY <1>2, <1>4 DEF ChildFails, SaveChild, GoesOn
<1>7. at[t] \in 1 .. form.count /\ parent.status = "RUNNING"
  BY <1>3 DEF WorkingAgrees, Reached
<1>8. TaskTypeOK'
  BY <1>1, <1>3, <1>5, <1>6, PlaceTypes DEF TaskTypeOK, outside
<1>9. AbortingAgrees(t)'
  BY <1>3, <1>5, <1>6, <1>7, CountTypes DEF AbortingAgrees, TaskTypeOK
<1>10. TurnAgreesAt(t)'
  BY <1>1, <1>3, <1>6, <1>9 DEF TurnAgreesAt, TaskTypeOK
<1>11. CompletedIsWhole'
  BY <1>2, <1>6 DEF CompletedIsWhole
<1> QED BY <1>1, <1>2, <1>3, <1>6, <1>8, <1>10, <1>11, PlaceTypes, TurnGoes DEF JobInv, TaskTypeOK

LEMMA CommitChildStep ==
  ASSUME JobInv, NEW t \in Turns, CommitChild(t)
  PROVE  JobInv'
<1> USE TaskAssumption
<1>1. pc[t] = "verified" /\ pc[t] \in Underway /\ busy \in {t, Nobody} /\ t \in Actors
  BY PlaceTypes DEF CommitChild, At, Actors
<1>2. Alone(t) /\ claim /\ fresh /\ old = {} /\ parent.status # "COMPLETED"
  BY <1>1, UnderwayAlone
<1>3. TaskTypeOK /\ WorkingAgrees(t) /\ holder = t
  BY <1>1 DEF JobInv, TurnAgrees, TurnAgreesAt, LeaseAgrees, Executing
<1>4. /\ child' = [child EXCEPT ![at[t]] = "COMPLETED"] /\ old' = {}
      /\ pc' = [pc EXCEPT ![t] = "committing"] /\ busy' = t
      /\ UNCHANGED <<form, parent, claim, fresh, outside, at, mine, copy, holder, crashes>>
  BY <1>2 DEF CommitChild, SaveChild, GoesOn
<1>5. at[t] \in 1 .. form.count /\ Reached(at[t] - 1, at[t])
  BY <1>3 DEF WorkingAgrees
<1>6. TaskTypeOK'
  BY <1>1, <1>3, <1>4, StatusTypes, PlaceTypes DEF TaskTypeOK, outside, TERMINAL
<1>7. CommittingAgrees(t)'
  <2>1. child'[at[t]] = "COMPLETED" /\ \A i \in Children : i # at[t] => child'[i] = child[i]
    BY <1>3, <1>4, <1>5, CountTypes DEF TaskTypeOK
  <2>2. \A i \in at[t] + 1 .. form.count : child'[i] = "QUEUED"
    BY <1>3, <1>5, <2>1, CountTypes DEF Reached
  <2>3. \A i \in 1 .. at[t] - 1 : child'[i] = "COMPLETED"
    BY <1>3, <1>5, <2>1, CountTypes DEF Reached
  <2> QED BY <1>4, <1>5, <2>1, <2>2, <2>3 DEF CommittingAgrees, Reached
<1>8. TurnAgreesAt(t)'
  BY <1>1, <1>3, <1>4, <1>7 DEF TurnAgreesAt, TaskTypeOK
<1>9. CompletedIsWhole'
  BY <1>2, <1>4 DEF CompletedIsWhole
<1> QED BY <1>1, <1>2, <1>3, <1>4, <1>6, <1>8, <1>9, PlaceTypes, TurnGoes DEF JobInv, TaskTypeOK

LEMMA CommitParentStep ==
  ASSUME JobInv, NEW t \in Turns, CommitParent(t)
  PROVE  JobInv'
<1> USE TaskAssumption
<1>1. pc[t] = "committing" /\ pc[t] \in Underway /\ busy \in {t, Nobody} /\ t \in Actors
  BY PlaceTypes DEF CommitParent, At, Actors
<1>2. Alone(t) /\ claim /\ fresh /\ old = {}
  BY <1>1, UnderwayAlone
<1>3. TaskTypeOK /\ CommittingAgrees(t) /\ holder = t
  BY <1>1 DEF JobInv, TurnAgrees, TurnAgreesAt, LeaseAgrees, Executing
<1> DEFINE place == IF at[t] < form.count THEN "starting" ELSE "finishing"
<1>4. /\ mine' = [mine EXCEPT !.artifacts = @ \cup {at[t]}] /\ parent' = mine' /\ old' = {}
      /\ pc' = [pc EXCEPT ![t] = place] /\ busy' = t
      /\ UNCHANGED <<form, child, claim, fresh, outside, at, copy, holder, crashes>>
  BY <1>2 DEF CommitParent, SaveParent, GoesOn
<1>5. /\ at[t] \in 1 .. form.count /\ mine.status = "RUNNING" /\ mine.artifacts = 1 .. at[t] - 1
      /\ \A i \in 1 .. at[t] - 1 : child[i] = "COMPLETED"
      /\ child[at[t]] = "COMPLETED"
      /\ \A i \in at[t] + 1 .. form.count : child[i] = "QUEUED"
  BY <1>3 DEF CommittingAgrees, Reached
<1>6. at[t] \in Children /\ at[t] \in Nat /\ form.count \in Nat
  BY <1>3, <1>5, CountTypes
<1>7. mine' \in ParentRecords /\ mine'.status = "RUNNING" /\ mine'.artifacts = 1 .. at[t]
  <2>1. (1 .. at[t] - 1) \cup {at[t]} = 1 .. at[t]
    BY <1>5, <1>6
  <2> QED BY <1>3, <1>4, <1>5, <1>6, <2>1 DEF ParentRecords, TaskTypeOK
<1>8. place \in {"starting", "finishing"}
  OBVIOUS
<1>9. TaskTypeOK'
  BY <1>1, <1>3, <1>4, <1>7, <1>8, PlaceTypes DEF TaskTypeOK, outside
<1>10. Reached(at[t], at[t])'
  <2>1. \A i \in 1 .. at[t] : child[i] = "COMPLETED"
    BY <1>5, <1>6
  <2> QED BY <1>4, <1>5, <1>7, <2>1 DEF Reached
<1>11. TurnAgreesAt(t)'
  <2>1. place = "starting" => StartingAgrees(t)'
    BY <1>4, <1>5, <1>6, <1>10 DEF StartingAgrees
  <2>2. place = "finishing" => FinishingAgrees(t)'
    BY <1>4, <1>5, <1>6, <1>10 DEF FinishingAgrees
  <2>3. pc'[t] = place
    BY <1>1, <1>3, <1>4 DEF TaskTypeOK
  <2> HIDE DEF place
  <2> QED BY <1>8, <2>1, <2>2, <2>3 DEF TurnAgreesAt
<1>12. CompletedIsWhole'
  BY <1>4, <1>7 DEF CompletedIsWhole
<1> HIDE DEF place
<1> QED BY <1>1, <1>2, <1>3, <1>4, <1>8, <1>9, <1>11, <1>12, PlaceTypes, TurnGoes
     DEF JobInv, TaskTypeOK

LEMMA FinishStep ==
  ASSUME JobInv, NEW t \in Turns, Finish(t)
  PROVE  JobInv'
<1> USE TaskAssumption
<1>1. pc[t] = "finishing" /\ pc[t] \in Underway /\ busy \in {t, Nobody} /\ t \in Actors
  BY PlaceTypes DEF Finish, At, Actors
<1>2. Alone(t) /\ claim /\ fresh /\ old = {}
  BY <1>1, UnderwayAlone
<1>3. TaskTypeOK /\ FinishingAgrees(t)
  BY <1>1 DEF JobInv, TurnAgrees, TurnAgreesAt
<1>4. Whole
  BY <1>3 DEF FinishingAgrees, Reached, Whole
<1>5. /\ mine' = [mine EXCEPT !.status = "COMPLETED"] /\ parent' = mine' /\ old' = {}
      /\ holder' = Free(t) /\ pc' = [pc EXCEPT ![t] = "done"] /\ busy' = Nobody
      /\ UNCHANGED <<form, child, claim, fresh, outside, at, copy, crashes>>
  BY <1>2, <1>4 DEF Finish, SaveParent, Awaits
<1>6. mine' \in ParentRecords /\ mine'.status = "COMPLETED" /\ mine'.artifacts = 1 .. form.count
  BY <1>3, <1>4, <1>5, StatusTypes DEF TaskTypeOK, ParentRecords, TERMINAL, Whole
<1>7. TaskTypeOK'
  BY <1>1, <1>3, <1>5, <1>6, PlaceTypes DEF TaskTypeOK, outside, Free
<1>8. TurnAgreesAt(t)'
  BY <1>1, <1>3, <1>5 DEF TurnAgreesAt, TaskTypeOK
<1>9. CompletedIsWhole'
  BY <1>4, <1>5, <1>6 DEF CompletedIsWhole, Whole
<1>10. parent'.status \in TERMINAL /\ \A i \in 1 .. form.count : child'[i] \in TERMINAL
  BY <1>4, <1>5, <1>6 DEF Whole, TERMINAL
<1> QED BY <1>1, <1>2, <1>3, <1>5, <1>7, <1>8, <1>9, <1>10, PlaceTypes, TurnGoes DEF JobInv, TaskTypeOK

-----------------------------------------------------------------------------
(* The sweep of the children, by a call or by a cancellation.              *)

\* Each child is terminal when the sweep is past it, and what is terminal stays.
LEMMA SweepChildWrites ==
  ASSUME JobInv, NEW a \in Actors, SweepChild(a)
  PROVE  /\ pc[a] = "sweeping" /\ busy \in {a, Nobody} /\ SweepingAgrees(a)
         /\ pc' = [pc EXCEPT ![a] = "sweeping"] /\ busy' = a /\ pc' = pc
         /\ \A b \in Actors \ {a} : at'[b] = at[b]
         /\ \A i \in Children : child[i] \in TERMINAL => child'[i] = child[i]
         /\ UNCHANGED <<form, parent, claim, fresh, outside, mine, copy, holder, crashes>>
         /\ old' \in SUBSET old
         /\ TaskTypeOK' /\ SweepingAgrees(a)'
<1> USE TaskAssumption
<1>1. pc[a] = "sweeping" /\ busy \in {a, Nobody}
  BY DEF SweepChild, At
<1>2. TaskTypeOK /\ SweepingAgrees(a)
  BY <1>1 DEF JobInv, SweepsAgree
<1>3. /\ at[a] < form.count /\ at' = [at EXCEPT ![a] = at[a] + 1]
      /\ pc' = [pc EXCEPT ![a] = "sweeping"] /\ busy' = a
      /\ UNCHANGED <<form, parent, claim, fresh, outside, mine, copy, holder, crashes>>
  BY DEF SweepChild, From, GoesOn
<1>4. at[a] + 1 \in 1 .. form.count /\ at[a] + 1 \in Children /\ at[a] \in Nat
  BY <1>2, <1>3, CountTypes DEF SweepingAgrees
<1>5. /\ child' \in [Children -> OnDisk \ {"CREATED"}]
      /\ \A i \in Children : i # at[a] + 1 => child'[i] = child[i]
      /\ \A i \in Children : child[i] \in TERMINAL => child'[i] = child[i]
      /\ child'[at[a] + 1] \in TERMINAL
  <2>1. CASE child[at[a] + 1] \in TERMINAL
    BY <2>1, <1>2 DEF SweepChild, TaskTypeOK
  <2>2. CASE child[at[a] + 1] \notin TERMINAL
    <3>1. child' = [child EXCEPT ![at[a] + 1] = "CANCELLED"]
      BY <2>2 DEF SweepChild, SaveChild
    <3>2. "CANCELLED" \in TERMINAL /\ "CANCELLED" \in OnDisk \ {"CREATED"}
      BY StatusTypes DEF TERMINAL
    <3> QED BY <2>2, <3>1, <3>2, <1>2, <1>4 DEF TaskTypeOK
  <2> QED BY <2>1, <2>2
<1>6. old' \in SUBSET old
  BY DEF SweepChild, SaveChild
<1>7. pc' = pc
  BY <1>1, <1>2, <1>3 DEF TaskTypeOK
<1>8. at' \in [Actors -> 0 .. MaxCount] /\ at'[a] = at[a] + 1
      /\ \A b \in Actors \ {a} : at'[b] = at[b]
  BY <1>2, <1>3, <1>4, CountTypes DEF TaskTypeOK
<1>9. TaskTypeOK'
  BY <1>2, <1>3, <1>5, <1>6, <1>7, <1>8 DEF TaskTypeOK, outside
<1>10. SweepingAgrees(a)'
  <2>1. \A i \in 1 .. at'[a] : child'[i] \in TERMINAL
    BY <1>2, <1>4, <1>5, <1>8, CountTypes DEF SweepingAgrees
  <2> QED BY <1>2, <1>3, <1>4, <1>8, <2>1 DEF SweepingAgrees
<1> QED BY <1>1, <1>2, <1>3, <1>5, <1>6, <1>7, <1>8, <1>9, <1>10

LEMMA TurnSweepsStep ==
  ASSUME JobInv, NEW t \in Turns, Sweeps(t)
  PROVE  JobInv'
<1> USE TaskAssumption
<1>1. pc[t] = "sweeping" /\ pc[t] \in Underway /\ busy \in {t, Nobody} /\ t \in Actors
  BY PlaceTypes DEF Sweeps, SweepChild, SweepDone, At, Actors
<1>2. Alone(t) /\ claim /\ fresh /\ old = {} /\ parent.status # "COMPLETED"
  BY <1>1, UnderwayAlone
<1>3. TaskTypeOK /\ SweepingAgrees(t) /\ RolesAgree
  BY <1>1 DEF JobInv, SweepsAgree
<1>4. CASE SweepChild(t)
  <2>1. /\ pc' = [pc EXCEPT ![t] = "sweeping"] /\ busy' = t /\ pc' = pc
        /\ \A b \in Actors \ {t} : at'[b] = at[b]
        /\ UNCHANGED <<form, parent, claim, fresh, outside, mine, copy, holder, crashes>>
        /\ old' \in SUBSET old /\ TaskTypeOK' /\ SweepingAgrees(t)'
    BY <1>1, <1>4, SweepChildWrites
  <2>2. TurnAgreesAt(t)'
    BY <1>1, <2>1 DEF TurnAgreesAt
  <2>3. CompletedIsWhole'
    BY <1>2, <2>1 DEF CompletedIsWhole
  <2> QED BY <1>2, <1>3, <2>1, <2>2, <2>3, PlaceTypes, TurnGoes
<1>5. CASE SweepDone(t)
  <2>1. /\ at[t] = form.count /\ holder' = Free(t)
        /\ pc' = [pc EXCEPT ![t] = "done"] /\ busy' = Nobody
        /\ UNCHANGED <<form, parent, child, old, claim, fresh, outside, at, mine, copy, crashes>>
    BY <1>5 DEF SweepDone, Awaits, records
  <2>2. TaskTypeOK'
    BY <1>1, <1>3, <2>1, PlaceTypes DEF TaskTypeOK, outside, Free
  <2>3. TurnAgreesAt(t)'
    BY <1>1, <1>3, <2>1 DEF TurnAgreesAt, TaskTypeOK
  <2>4. CompletedIsWhole'
    BY <1>2, <2>1 DEF CompletedIsWhole
  <2>5. parent'.status \in TERMINAL /\ \A i \in 1 .. form.count : child'[i] \in TERMINAL
    BY <1>3, <2>1 DEF SweepingAgrees
  <2> QED BY <1>2, <1>3, <2>1, <2>2, <2>3, <2>4, <2>5, PlaceTypes, TurnGoes
<1> QED BY <1>4, <1>5 DEF Sweeps

-----------------------------------------------------------------------------
(* The cancellation.                                                       *)

\* A canceller that steps is alone between two awaits.
LEMMA CancellerAlone ==
  ASSUME JobInv, NEW k \in Cancellers, busy \in {k, Nobody}
  PROVE  /\ k \in Actors /\ k \notin Turns /\ k # R
         /\ \A a \in Actors \ {k} : pc[a] \notin Atomic
BY TaskAssumption DEF JobInv, BusyAgrees, Actors, R

\* It takes nothing from the calls: none works, for the job is QUEUED or CANCELLED.
LEMMA CancellerGoes ==
  ASSUME JobInv, NEW k \in Cancellers, busy \in {k, Nobody},
         NEW place \in {"sweeping", "answered", "done"}, pc' = [pc EXCEPT ![k] = place],
         busy' = IF place = "sweeping" THEN k ELSE Nobody,
         \A b \in Actors \ {k} : at'[b] = at[b],
         UNCHANGED <<form, claim, fresh, mine, copy, holder>>, old' \in SUBSET old,
         TaskTypeOK', place = "sweeping" => SweepingAgrees(k)',
         \A i \in Children : child[i] \in TERMINAL => child'[i] = child[i],
         \/ parent' = parent /\ child' = child
         \/ /\ parent.status \in {"QUEUED", "CANCELLED"}
            /\ parent' = [parent EXCEPT !.status = "CANCELLED"]
  PROVE  JobInv'
<1> USE TaskAssumption
<1>1. /\ k \in Actors /\ k \notin Turns /\ k # R
      /\ \A a \in Actors \ {k} : pc[a] \notin Atomic
  BY CancellerAlone
<1>2. R \in Actors /\ R \notin Turns /\ Turns \subseteq Actors /\ Cancellers \subseteq Actors
  BY DEF R, Actors
<1>3. pc'[k] = place /\ \A a \in Actors \ {k} : pc'[a] = pc[a]
  BY <1>1 DEF JobInv, TaskTypeOK
<1>4. \A t \in Turns : pc'[t] = pc[t] /\ at'[t] = at[t]
  BY <1>1, <1>2, <1>3
<1>5. pc'[R] = pc[R]
  BY <1>1, <1>2, <1>3
<1>6. BusyAgrees'
  BY <1>1, <1>3 DEF BusyAgrees, Atomic
<1>7. RolesAgree'
  <2>1. place \notin {"new", "capturing"} \cup Recovering
    BY DEF Recovering
  <2> QED BY <1>1, <1>2, <1>3, <1>4, <1>5, <2>1 DEF JobInv, RolesAgree
<1>8. LeaseAgrees'
  BY <1>4 DEF JobInv, LeaseAgrees
<1>9. SweepsAgree'
  BY <1>1, <1>3 DEF SweepsAgree, Atomic
<1>10. CASE parent' = parent /\ child' = child
  <2>1. ClaimAgrees'
    BY <1>4, <1>10 DEF JobInv, ClaimAgrees
  <2>2. TurnAgrees'
    <3> SUFFICES ASSUME NEW t \in Turns PROVE TurnAgreesAt(t)'
      BY DEF TurnAgrees
    <3>1. TurnAgreesAt(t) /\ pc'[t] = pc[t] /\ at'[t] = at[t]
      BY <1>4 DEF JobInv, TurnAgrees
    <3> QED BY <3>1, <1>10 DEF TurnAgreesAt, PlanningAgrees, WaitingAgrees, StartingAgrees,
         WorkingAgrees, CommittingAgrees, FinishingAgrees, AbortingAgrees, Reached
  <2>3. RecoveryAgrees'
    BY <1>4, <1>5, <1>10 DEF JobInv, RecoveryAgrees
  <2>4. CompletedIsWhole' /\ EndedIsTerminal'
    BY <1>4, <1>10 DEF JobInv, CompletedIsWhole, EndedIsTerminal
  <2> QED BY <1>6, <1>7, <1>8, <1>9, <2>1, <2>2, <2>3, <2>4 DEF JobInv
<1>11. CASE /\ parent.status \in {"QUEUED", "CANCELLED"}
            /\ parent' = [parent EXCEPT !.status = "CANCELLED"]
  <2>1. parent \in ParentRecords /\ form.count \in Nat /\ 1 .. form.count \subseteq Children
    BY CountTypes DEF JobInv, TaskTypeOK
  <2>2. parent'.status = "CANCELLED" /\ parent'.artifacts = parent.artifacts
    BY <2>1, <1>11 DEF ParentRecords
  <2>3. ClaimAgrees'
    <3>1. claim
      BY <1>11 DEF JobInv, ClaimAgrees, NoParent, Missing
    <3> QED BY <1>4, <3>1 DEF JobInv, ClaimAgrees
  <2>4. TurnAgrees'
    <3> SUFFICES ASSUME NEW t \in Turns PROVE TurnAgreesAt(t)'
      BY DEF TurnAgrees
    <3>1. TurnAgreesAt(t) /\ pc'[t] = pc[t] /\ at'[t] = at[t] /\ pc[t] \notin Atomic
      BY <1>1, <1>2, <1>4 DEF JobInv, TurnAgrees
    <3>2. pc[t] \notin {"working", "enhancing"}
      BY <3>1, <1>11 DEF TurnAgreesAt, WorkingAgrees, Reached
    <3>3. pc[t] \in {"waiting", "leased"} => WaitingAgrees(t)'
      BY <3>1, <2>2 DEF TurnAgreesAt, WaitingAgrees
    <3> QED BY <3>1, <3>2, <3>3 DEF TurnAgreesAt, Atomic
  <2>5. RecoveryAgrees'
    BY <1>5, <1>11 DEF JobInv, RecoveryAgrees
  <2>6. CompletedIsWhole'
    BY <2>2 DEF CompletedIsWhole
  <2>7. EndedIsTerminal'
    BY <1>4, <2>1, <2>2 DEF JobInv, EndedIsTerminal, TERMINAL
  <2> QED BY <1>6, <1>7, <1>8, <1>9, <2>3, <2>4, <2>5, <2>6, <2>7 DEF JobInv
<1> QED BY <1>10, <1>11

LEMMA CancelStep ==
  ASSUME JobInv, NEW k \in Cancellers, Cancel(k)
  PROVE  JobInv'
<1> USE TaskAssumption
<1>1. pc[k] = "new" /\ busy \in {k, Nobody} /\ k \in Actors
  BY DEF Cancel, At, Actors
<1>2. TaskTypeOK /\ at[k] = 0
  BY <1>1 DEF JobInv, RolesAgree
<1>3. UNCHANGED <<form, child, claim, fresh, engine, prompt, ack, at, mine, copy, holder, crashes>>
  BY DEF Cancel
<1>4. CASE parent.status = "QUEUED" /\ SaveParent([parent EXCEPT !.status = "CANCELLED"])
           /\ GoesOn(k, "sweeping") /\ UNCHANGED marker
  <2>1. /\ parent' = [parent EXCEPT !.status = "CANCELLED"] /\ old' \in SUBSET old
        /\ pc' = [pc EXCEPT ![k] = "sweeping"] /\ busy' = k
    BY <1>4 DEF SaveParent, GoesOn
  <2>2. parent' \in ParentRecords /\ parent'.status = "CANCELLED"
    BY <1>2, <2>1, StatusTypes DEF TaskTypeOK, ParentRecords, TERMINAL
  <2>3. TaskTypeOK'
    BY <1>1, <1>2, <1>3, <1>4, <2>1, <2>2, PlaceTypes DEF TaskTypeOK
  <2>4. SweepingAgrees(k)'
    BY <1>2, <1>3, <2>2, CountTypes DEF SweepingAgrees, TERMINAL
  <2> QED BY <1>1, <1>3, <1>4, <2>1, <2>3, <2>4, CancellerGoes
<1>5. CASE marker' = TRUE /\ Awaits(k, "answered") /\ UNCHANGED <<parent, old>>
  <2>1. pc' = [pc EXCEPT ![k] = "answered"] /\ busy' = Nobody
    BY <1>5 DEF Awaits
  <2>2. TaskTypeOK'
    BY <1>1, <1>2, <1>3, <1>5, <2>1 DEF TaskTypeOK, Places
  <2> QED BY <1>1, <1>3, <1>5, <2>1, <2>2, CancellerGoes
<1> QED BY <1>4, <1>5 DEF Cancel

LEMMA CancellerSweepsStep ==
  ASSUME JobInv, NEW k \in Cancellers, Sweeps(k)
  PROVE  JobInv'
<1> USE TaskAssumption
<1>1. pc[k] = "sweeping" /\ busy \in {k, Nobody} /\ k \in Actors
  BY DEF Sweeps, SweepChild, SweepDone, At, Actors
<1>2. TaskTypeOK /\ SweepingAgrees(k)
  BY <1>1 DEF JobInv, SweepsAgree
<1>3. parent.status = "CANCELLED" /\ parent = [parent EXCEPT !.status = "CANCELLED"]
  BY <1>2 DEF SweepingAgrees, TaskTypeOK, ParentRecords
<1>4. CASE SweepChild(k)
  <2>1. /\ pc' = [pc EXCEPT ![k] = "sweeping"] /\ busy' = k
        /\ \A b \in Actors \ {k} : at'[b] = at[b]
        /\ \A i \in Children : child[i] \in TERMINAL => child'[i] = child[i]
        /\ UNCHANGED <<form, parent, claim, fresh, outside, mine, copy, holder, crashes>>
        /\ old' \in SUBSET old /\ TaskTypeOK' /\ SweepingAgrees(k)'
    BY <1>1, <1>4, SweepChildWrites
  <2> QED BY <1>1, <1>3, <2>1, CancellerGoes
<1>5. CASE SweepDone(k)
  <2>1. /\ pc' = [pc EXCEPT ![k] = "done"] /\ busy' = Nobody /\ holder' = Free(k)
        /\ UNCHANGED <<form, parent, child, old, claim, fresh, outside, at, mine, copy, crashes>>
    BY <1>5 DEF SweepDone, Awaits, records
  <2>2. holder' = holder
    BY <1>1, <1>2, <2>1 DEF Free, TaskTypeOK, Actors
  <2>3. TaskTypeOK'
    BY <1>1, <1>2, <2>1, <2>2, PlaceTypes DEF TaskTypeOK, outside
  <2> QED BY <1>1, <2>1, <2>2, <2>3, CancellerGoes
<1> QED BY <1>4, <1>5 DEF Sweeps

-----------------------------------------------------------------------------
(* The recovery.                                                           *)

\* While it steps no call is at work: what it relies on is enough.
LEMMA RecoveryGoes ==
  ASSUME JobInv, busy \in {R, Nobody}, claim, ~fresh,
         NEW place \in {"new"} \cup Recovering, pc' = [pc EXCEPT ![R] = place],
         busy' = IF place \in Atomic THEN R ELSE Nobody,
         UNCHANGED <<form, claim, fresh, at, mine>>,
         \A t \in Turns : pc[t] # "done",
         TaskTypeOK', RecoveryAgrees', CompletedIsWhole'
  PROVE  JobInv'
<1> USE TaskAssumption
<1>1. /\ R \in Actors /\ R \notin Turns /\ R \notin Cancellers
      /\ Turns \subseteq Actors /\ Cancellers \subseteq Actors
  BY DEF R, Actors
<1>2. \A a \in Actors \ {R} : pc[a] \notin Atomic
  BY DEF JobInv, BusyAgrees
<1>3. pc'[R] = place /\ \A a \in Actors \ {R} : pc'[a] = pc[a]
  BY <1>1 DEF JobInv, TaskTypeOK
<1>4. \A t \in Turns : pc'[t] = pc[t] /\ pc[t] \notin Underway
  BY <1>1, <1>3 DEF JobInv, ClaimAgrees
<1>5. BusyAgrees'
  BY <1>1, <1>2, <1>3 DEF BusyAgrees
<1>6. RolesAgree'
  <2>1. at[R] = 0
    BY <1>1 DEF JobInv, RolesAgree
  <2> QED BY <1>1, <1>3, <2>1 DEF JobInv, RolesAgree
<1>7. ClaimAgrees'
  BY <1>4 DEF JobInv, ClaimAgrees
<1>8. LeaseAgrees' /\ TurnAgrees'
  BY <1>4 DEF LeaseAgrees, TurnAgrees, TurnAgreesAt, Underway, Executing
<1>9. SweepsAgree'
  <2>1. place # "sweeping"
    BY DEF Recovering
  <2> QED BY <1>1, <1>2, <1>3, <2>1 DEF SweepsAgree, Atomic
<1>10. EndedIsTerminal'
  BY <1>4 DEF EndedIsTerminal
<1> QED BY <1>5, <1>6, <1>7, <1>8, <1>9, <1>10 DEF JobInv

LEMMA RecoverChecksPlaces ==
  RecoverChecks => GoesOn(R, "recovered") \/ Awaits(R, "leasing") \/ GoesOn(R, "staging")
<1>1. CASE ~form.enhanced
  BY <1>1 DEF RecoverChecks
<1>2. CASE form.enhanced /\ form.identity
  BY <1>2 DEF RecoverChecks
<1>3. CASE form.enhanced /\ ~form.identity
  BY <1>3 DEF RecoverChecks
<1> QED BY <1>1, <1>2, <1>3

LEMMA RecoverReadStep ==
  ASSUME JobInv, RecoverRead
  PROVE  JobInv'
<1> USE TaskAssumption
<1>1. pc[R] = "new" /\ busy \in {R, Nobody} /\ R \in Actors /\ TaskTypeOK
  BY DEF RecoverRead, At, R, Actors, JobInv
<1>2. ~fresh /\ parent.status = "RUNNING" /\ form.count = 1 /\ child[1] = "RUNNING"
  BY DEF RecoverRead, Runnable
<1> DEFINE place == IF form.identity THEN "checking" ELSE "leasing"
<1>3. /\ copy' = parent /\ pc' = [pc EXCEPT ![R] = place] /\ busy' = Nobody
      /\ UNCHANGED <<form, parent, child, old, claim, fresh, outside, at, mine, holder, crashes>>
  BY DEF RecoverRead, Awaits, records
<1>4. claim /\ \A t \in Turns : pc[t] # "done"
  BY <1>2 DEF JobInv, ClaimAgrees, NoParent, Missing, EndedIsTerminal, TERMINAL
<1>5. place \in Recovering /\ place \in Places /\ place \notin Atomic /\ place # "binding"
  BY DEF Recovering, Places, Live, Atomic
<1> HIDE DEF place
<1>6. TaskTypeOK'
  BY <1>1, <1>3, <1>5 DEF TaskTypeOK, outside
<1>7. pc'[R] = place /\ \A t \in Turns : pc'[t] = pc[t]
  BY <1>1, <1>3 DEF TaskTypeOK, Actors, R
<1>8. RecoveryAgrees'
  BY <1>2, <1>3, <1>4, <1>5, <1>7 DEF RecoveryAgrees
<1>9. CompletedIsWhole'
  BY <1>2, <1>3 DEF CompletedIsWhole
<1> QED BY <1>1, <1>2, <1>3, <1>4, <1>5, <1>6, <1>8, <1>9, RecoveryGoes

\* Before the commit of the parent a recovery keeps the child RUNNING and the parent open.
LEMMA RecoverWorksStep ==
  ASSUME JobInv,
         \/ RecoverAcquires \/ RecoverFetches \/ RecoverChecks
         \/ StageChild \/ StageParent \/ RecoverEnhances \/ RecoverChild
  PROVE  JobInv'
<1> USE TaskAssumption
<1>1. /\ pc[R] \in Recovering /\ pc[R] # "binding"
      /\ busy \in {R, Nobody} /\ R \in Actors /\ TaskTypeOK
  BY DEF RecoverAcquires, RecoverFetches, RecoverChecks, StageChild, StageParent, RecoverEnhances,
         RecoverChild, At, R, Actors, JobInv, Recovering
<1>2. /\ claim /\ ~fresh /\ form.count = 1 /\ copy.status = "RUNNING"
      /\ parent.status \in {"RUNNING", "FAILED"}
      /\ \A t \in Turns : pc[t] # "done"
      /\ child[1] \in {"RUNNING", "FAILED"}
  BY <1>1 DEF JobInv, RecoveryAgrees
<1>3. 1 \in Children
  BY <1>1, <1>2, CountTypes
<1>4. /\ UNCHANGED <<form, claim, fresh, at, mine, copy, crashes, marker>>
      /\ parent' = parent \/ parent' = copy
      /\ old' \in SUBSET old
  BY DEF RecoverAcquires, RecoverFetches, RecoverChecks, StageChild, StageParent, RecoverEnhances,
         RecoverChild, SaveChild, SaveParent, records, outside
<1>5. PICK place \in Recovering :
        /\ pc' = [pc EXCEPT ![R] = place] /\ busy' = IF place \in Atomic THEN R ELSE Nobody
        /\ \/ place = "binding" /\ child' = [child EXCEPT ![1] = "COMPLETED"]
           \/ /\ place # "binding"
              /\ child' = child \/ child' = [child EXCEPT ![1] = "RUNNING"]
  <2>1. CASE RecoverAcquires
    BY <2>1 DEF RecoverAcquires, GoesOn, Awaits, records, Recovering, Atomic
  <2>2. CASE RecoverFetches
    BY <2>2 DEF RecoverFetches, SaveChild, Awaits, Recovering, Atomic
  <2>3. CASE RecoverChecks
    <3>1. GoesOn(R, "recovered") \/ Awaits(R, "leasing") \/ GoesOn(R, "staging")
      BY <2>3, RecoverChecksPlaces
    <3>2. child' = child \/ child' = [child EXCEPT ![1] = "RUNNING"]
      BY <2>3 DEF RecoverChecks, SaveChild
    <3> QED BY <3>1, <3>2 DEF GoesOn, Awaits, Recovering, Atomic
  <2>4. CASE StageChild
    BY <2>4 DEF StageChild, SaveChild, GoesOn, Recovering, Atomic
  <2>5. CASE StageParent
    BY <2>5 DEF StageParent, Awaits, Recovering, Atomic
  <2>6. CASE RecoverEnhances
    BY <2>6 DEF RecoverEnhances, GoesOn, records, Recovering, Atomic
  <2>7. CASE RecoverChild
    BY <2>7 DEF RecoverChild, SaveChild, GoesOn, Recovering, Atomic
  <2> QED BY <2>1, <2>2, <2>3, <2>4, <2>5, <2>6, <2>7
<1>6. place \in Places
  BY DEF Recovering, Places, Live
<1>7. /\ child' \in [Children -> OnDisk \ {"CREATED"}]
      /\ child'[1] \in IF place = "binding" THEN {"COMPLETED"} ELSE {"RUNNING", "FAILED"}
  BY <1>1, <1>2, <1>3, <1>5, StatusTypes DEF TaskTypeOK, TERMINAL
<1>8. TaskTypeOK'
  <2>1. holder' \in Turns \cup {Reconciler, Nobody}
    BY <1>1 DEF TaskTypeOK, RecoverAcquires, RecoverFetches, RecoverChecks, StageChild, StageParent,
       RecoverEnhances, RecoverChild, R
  <2>2. engine' = engine /\ prompt' = prompt
    BY DEF RecoverAcquires, RecoverFetches, RecoverChecks, StageChild, StageParent, RecoverEnhances,
       RecoverChild, outside
  <2>3. ack' \in BOOLEAN
    <3>1. form.identity \in BOOLEAN /\ ack \in BOOLEAN
      BY <1>1 DEF TaskTypeOK
    <3> QED BY <3>1 DEF RecoverAcquires, RecoverFetches, RecoverChecks, StageChild, StageParent,
         RecoverEnhances, RecoverChild, outside
  <2>4. parent' \in ParentRecords
    BY <1>1, <1>4 DEF TaskTypeOK
  <2>5. pc' \in [Actors -> Places] /\ busy' \in Actors \cup {Nobody}
    BY <1>1, <1>5, <1>6 DEF TaskTypeOK
  <2> QED BY <1>1, <1>4, <1>7, <2>1, <2>2, <2>3, <2>4, <2>5 DEF TaskTypeOK
<1>9. pc'[R] = place /\ \A t \in Turns : pc'[t] = pc[t]
  BY <1>1, <1>5 DEF TaskTypeOK, Actors, R
<1>10. parent'.status \in {"RUNNING", "FAILED"}
  BY <1>2, <1>4
<1>11. RecoveryAgrees'
  BY <1>2, <1>4, <1>7, <1>9, <1>10 DEF RecoveryAgrees
<1>12. CompletedIsWhole'
  BY <1>10 DEF CompletedIsWhole
<1> QED BY <1>1, <1>2, <1>4, <1>5, <1>8, <1>11, <1>12, RecoveryGoes

LEMMA RecoverEndsStep ==
  ASSUME JobInv, RecoverParent \/ RecoverSkips
  PROVE  JobInv'
<1> USE TaskAssumption
<1>1. /\ pc[R] \in Recovering /\ (RecoverParent => pc[R] = "binding")
      /\ busy \in {R, Nobody} /\ R \in Actors /\ TaskTypeOK
  BY DEF RecoverParent, RecoverSkips, At, R, Actors, JobInv, Recovering
<1>2. /\ claim /\ ~fresh /\ form.count = 1 /\ copy.status = "RUNNING"
      /\ parent.status \in {"RUNNING", "FAILED"}
      /\ \A t \in Turns : pc[t] # "done"
      /\ pc[R] = "binding" => child[1] = "COMPLETED"
  BY <1>1 DEF JobInv, RecoveryAgrees
<1>3. /\ UNCHANGED <<form, child, claim, fresh, outside, at, mine, crashes>> /\ old' \in SUBSET old
      /\ pc' = [pc EXCEPT ![R] = "new"] /\ busy' = Nobody /\ holder' = Free(R) /\ copy' = NoParent
  BY DEF RecoverParent, RecoverSkips, Awaits, SaveParent, records
<1>4. \/ parent' = parent
      \/ parent' = [copy EXCEPT !.status = "COMPLETED", !.artifacts = {1}] /\ pc[R] = "binding"
  BY <1>1 DEF RecoverParent, RecoverSkips, SaveParent, records
<1>5. parent' \in ParentRecords /\ (parent'.status = "COMPLETED" => parent'.artifacts = {1} /\ pc[R] = "binding")
  <2>1. 1 \in Children
    BY <1>1, <1>2, CountTypes
  <2>2. CASE parent' = parent
    BY <1>1, <1>2, <2>2 DEF TaskTypeOK
  <2>3. CASE parent' = [copy EXCEPT !.status = "COMPLETED", !.artifacts = {1}] /\ pc[R] = "binding"
    <3>1. "COMPLETED" \in OnDisk
      BY StatusTypes DEF TERMINAL
    <3>2. copy \in [status : OnDisk, artifacts : SUBSET Children]
      BY <1>1 DEF TaskTypeOK, ParentRecords
    <3> QED BY <2>1, <2>3, <3>1, <3>2 DEF ParentRecords
  <2> QED BY <1>4, <2>2, <2>3
<1>6. TaskTypeOK'
  <2>1. NoParent \in ParentRecords
    BY StatusTypes DEF NoParent, ParentRecords
  <2>2. pc' \in [Actors -> Places]
    BY <1>1, <1>3 DEF TaskTypeOK, Places
  <2>3. holder' \in Turns \cup {Reconciler, Nobody}
    BY <1>1, <1>3 DEF TaskTypeOK, Free
  <2> QED BY <1>1, <1>3, <1>5, <2>1, <2>2, <2>3 DEF TaskTypeOK, outside
<1>7. RecoveryAgrees'
  <2>1. pc'[R] = "new"
    BY <1>1, <1>3 DEF TaskTypeOK
  <2> QED BY <2>1 DEF RecoveryAgrees, Recovering
<1>8. CompletedIsWhole'
  <2>1. 1 .. form.count = {1}
    BY <1>2
  <2> QED BY <1>2, <1>3, <1>5, <2>1 DEF CompletedIsWhole
<1>9. "new" \notin Atomic
  BY DEF Atomic
<1> QED BY <1>1, <1>2, <1>3, <1>6, <1>7, <1>8, <1>9, RecoveryGoes

-----------------------------------------------------------------------------
(* The engine, recoverStale, the death of the process, and time.           *)

LEMMA EngineEndsStep ==
  ASSUME JobInv, EngineEnds
  PROVE  JobInv'
<1>1. UNCHANGED <<form, parent, child, old, claim, fresh, marker, prompt, ack, pc, at, mine, copy,
                  holder, busy, crashes>>
  BY DEF EngineEnds, records
<1>2. TaskTypeOK'
  <2>1. engine' \in {"none", "running", "completed", "failed"}
    BY DEF EngineEnds
  <2> QED BY <1>1, <2>1 DEF JobInv, TaskTypeOK
<1>3. BusyAgrees' /\ RolesAgree' /\ ClaimAgrees' /\ LeaseAgrees'
  BY <1>1 DEF JobInv, BusyAgrees, RolesAgree, ClaimAgrees, LeaseAgrees
<1>4. TurnAgrees'
  <2> SUFFICES ASSUME NEW t \in Turns PROVE TurnAgreesAt(t)'
    BY DEF TurnAgrees
  <2>1. TurnAgreesAt(t)
    BY DEF JobInv, TurnAgrees
  <2> QED BY <2>1, <1>1 DEF TurnAgreesAt, PlanningAgrees, WaitingAgrees, StartingAgrees,
       WorkingAgrees, CommittingAgrees, FinishingAgrees, AbortingAgrees, Reached
<1>5. SweepsAgree' /\ RecoveryAgrees' /\ CompletedIsWhole' /\ EndedIsTerminal'
  BY <1>1 DEF JobInv, SweepsAgree, SweepingAgrees, RecoveryAgrees, CompletedIsWhole, EndedIsTerminal
<1> QED BY <1>2, <1>3, <1>4, <1>5 DEF JobInv

\* What is terminal recoverStale leaves alone, and a call that is under way has no old record.
LEMMA StaleWrites ==
  ASSUME JobInv, RecoverStale
  PROVE  /\ parent'.status \in {parent.status, "FAILED"} /\ parent' \in ParentRecords
         /\ parent.status \in TERMINAL \cup {Missing} => parent' = parent
         /\ child' \in [Children -> OnDisk \ {"CREATED"}]
         /\ \A i \in Children : child'[i] \in {child[i], "FAILED"}
         /\ \A i \in Children : child[i] \in TERMINAL \cup {Missing} => child'[i] = child[i]
         /\ old' \in SUBSET old
         /\ old = {} => parent' = parent /\ child' = child
         /\ UNCHANGED <<form, claim, fresh, outside, pc, at, mine, copy, holder, busy, crashes>>
<1>1. /\ parent' = IF Stale(Parent, parent.status) THEN [parent EXCEPT !.status = "FAILED"] ELSE parent
      /\ child' = [i \in Children |-> IF Stale(i, child[i]) THEN "FAILED" ELSE child[i]]
      /\ old' \in SUBSET old
      /\ UNCHANGED <<form, claim, fresh, outside, pc, at, mine, copy, holder, busy, crashes>>
  BY DEF RecoverStale
<1>2. parent \in ParentRecords /\ child \in [Children -> OnDisk \ {"CREATED"}]
  BY DEF JobInv, TaskTypeOK
<1>3. \A f, status : Stale(f, status) => f \in old /\ status \notin TERMINAL \cup {Missing}
  BY DEF Stale, Open
<1>4. "FAILED" \in OnDisk \ {"CREATED"}
  BY StatusTypes DEF TERMINAL
<1>5. /\ parent'.status \in {parent.status, "FAILED"} /\ parent' \in ParentRecords
      /\ parent.status \in TERMINAL \cup {Missing} => parent' = parent
      /\ old = {} => parent' = parent
  <2>1. CASE Stale(Parent, parent.status)
    BY <1>1, <1>2, <1>3, <1>4, <2>1 DEF ParentRecords
  <2>2. CASE ~Stale(Parent, parent.status)
    BY <1>1, <1>2, <2>2
  <2> QED BY <2>1, <2>2
<1>6. /\ child' \in [Children -> OnDisk \ {"CREATED"}]
      /\ \A i \in Children : child'[i] \in {child[i], "FAILED"}
      /\ \A i \in Children : child[i] \in TERMINAL \cup {Missing} => child'[i] = child[i]
      /\ old = {} => child' = child
  BY <1>1, <1>2, <1>3, <1>4
<1> QED BY <1>1, <1>5, <1>6

LEMMA RecoverStaleStep ==
  ASSUME JobInv, RecoverStale
  PROVE  JobInv'
<1> USE TaskAssumption
<1>1. /\ parent'.status \in {parent.status, "FAILED"} /\ parent' \in ParentRecords
      /\ parent.status \in TERMINAL \cup {Missing} => parent' = parent
      /\ child' \in [Children -> OnDisk \ {"CREATED"}]
      /\ \A i \in Children : child'[i] \in {child[i], "FAILED"}
      /\ \A i \in Children : child[i] \in TERMINAL \cup {Missing} => child'[i] = child[i]
      /\ old' \in SUBSET old
      /\ old = {} => parent' = parent /\ child' = child
      /\ UNCHANGED <<form, claim, fresh, outside, pc, at, mine, copy, holder, busy, crashes>>
  BY StaleWrites
<1>2. busy = Nobody
  BY DEF RecoverStale
<1>3. R \in Actors /\ Turns \subseteq Actors /\ form.count \in Nat /\ 1 .. form.count \subseteq Children
      /\ "COMPLETED" \in TERMINAL
  BY CountTypes DEF R, Actors, JobInv, TERMINAL
<1>4. TaskTypeOK'
  BY <1>1 DEF JobInv, TaskTypeOK, outside
<1>5. BusyAgrees' /\ RolesAgree' /\ LeaseAgrees'
  BY <1>1 DEF JobInv, BusyAgrees, RolesAgree, LeaseAgrees
<1>6. ClaimAgrees'
  <2>1. (\E t \in Turns : pc[t] \in Underway) => old = {} /\ old' = {}
    BY <1>1 DEF JobInv, ClaimAgrees
  <2>2. ~claim => parent' = parent /\ old' = {} /\ \A i \in Children : child'[i] = Missing
    BY <1>1 DEF JobInv, ClaimAgrees, NoParent
  <2> QED BY <1>1, <2>1, <2>2 DEF JobInv, ClaimAgrees
<1>7. TurnAgrees'
  <2> SUFFICES ASSUME NEW t \in Turns PROVE TurnAgreesAt(t)'
    BY DEF TurnAgrees
  <2>1. CASE pc[t] \in Underway
    <3>1. parent' = parent /\ child' = child /\ TurnAgreesAt(t)
      BY <1>1, <2>1 DEF JobInv, ClaimAgrees, TurnAgrees
    <3> QED BY <3>1, <1>1 DEF TurnAgreesAt, PlanningAgrees, WaitingAgrees, StartingAgrees,
         WorkingAgrees, CommittingAgrees, FinishingAgrees, AbortingAgrees, Reached
  <2>2. CASE pc[t] \notin Underway
    BY <1>1, <2>2 DEF TurnAgreesAt, Underway, Executing
  <2> QED BY <2>1, <2>2
<1>8. SweepsAgree'
  BY <1>1, <1>2 DEF JobInv, BusyAgrees, SweepsAgree, Atomic
<1>9. RecoveryAgrees'
  <2>1. pc[R] # "binding"
    BY <1>2, <1>3 DEF JobInv, BusyAgrees, Atomic
  <2>2. 1 \in Children
    BY CountTypes DEF JobInv, TaskTypeOK, Children
  <2> QED BY <1>1, <2>1, <2>2 DEF JobInv, RecoveryAgrees
<1>10. CompletedIsWhole'
  <2>1. parent'.status = "COMPLETED" => parent' = parent
    BY <1>1, <1>3
  <2> QED BY <1>1, <1>3, <2>1 DEF JobInv, CompletedIsWhole
<1>11. EndedIsTerminal'
  BY <1>1, <1>3 DEF JobInv, EndedIsTerminal
<1> QED BY <1>4, <1>5, <1>6, <1>7, <1>8, <1>9, <1>10, <1>11 DEF JobInv

LEMMA CrashStep ==
  ASSUME JobInv, Crash
  PROVE  JobInv'
<1> USE TaskAssumption
<1>1. /\ pc' = [a \in Actors |-> IF pc[a] \notin Live THEN pc[a] ELSE IF a = R THEN "new" ELSE "dead"]
      /\ at' = [a \in Actors |-> 0] /\ fresh' = FALSE /\ mine' = NoParent /\ copy' = NoParent
      /\ holder' = Nobody /\ busy' = Nobody
      /\ crashes < MaxCrashes /\ crashes' = crashes + 1
      /\ UNCHANGED <<form, parent, child, old, claim, outside>>
  BY DEF Crash, records
<1>2. R \in Actors /\ Turns \subseteq Actors /\ Cancellers \subseteq Actors /\ R \notin Turns
      /\ R \notin Cancellers /\ Nobody \notin Actors
  BY DEF R, Actors
<1>3. TaskTypeOK'
  <2>1. pc' \in [Actors -> Places]
    BY <1>1 DEF JobInv, TaskTypeOK, Places
  <2>2. at' \in [Actors -> 0 .. MaxCount] /\ crashes' \in 0 .. MaxCrashes
    BY <1>1 DEF JobInv, TaskTypeOK
  <2>3. NoParent \in ParentRecords
    BY StatusTypes DEF NoParent, ParentRecords
  <2> QED BY <1>1, <2>1, <2>2, <2>3 DEF JobInv, TaskTypeOK, outside
<1>4. \A a \in Actors : pc'[a] \notin Live /\ (pc'[a] = pc[a] \/ pc'[a] \in {"new", "dead"})
  BY <1>1 DEF Live, Executing, Recovering
<1>5. Underway \cup Atomic \cup Recovering \cup {"capturing"} \subseteq Live
  BY DEF Underway, Atomic, Live, Recovering, Executing
<1>6. pc'[R] = "new"
  <2>1. Recovering \subseteq Live
    BY DEF Live
  <2> QED BY <1>1, <1>2, <2>1 DEF JobInv, RolesAgree
<1>7. BusyAgrees' /\ RolesAgree' /\ LeaseAgrees'
  <2>1. BusyAgrees'
    BY <1>1, <1>4, <1>5 DEF BusyAgrees
  <2>2. \A k \in Cancellers : pc'[k] \in {"new", "sweeping", "answered", "done", "dead"}
    BY <1>1, <1>2 DEF JobInv, RolesAgree
  <2>3. RolesAgree'
    BY <1>1, <1>2, <1>4, <1>5, <1>6, <2>2 DEF RolesAgree
  <2>4. LeaseAgrees'
    BY <1>2, <1>4 DEF LeaseAgrees, Live
  <2> QED BY <2>1, <2>3, <2>4
<1>8. ClaimAgrees'
  <2>1. \A t \in Turns : pc'[t] \in Claimed => pc[t] \in Claimed /\ pc'[t] \notin Underway
    BY <1>2, <1>4, <1>5 DEF Claimed, Underway, Executing
  <2>2. \A t \in Turns : pc'[t] \notin Underway
    BY <1>2, <1>4, <1>5
  <2> QED BY <1>1, <2>1, <2>2 DEF JobInv, ClaimAgrees
<1>9. TurnAgrees' /\ SweepsAgree' /\ RecoveryAgrees'
  <2>1. \A t \in Turns : pc'[t] \notin Underway
    BY <1>2, <1>4, <1>5
  <2>2. TurnAgrees'
    BY <2>1 DEF TurnAgrees, TurnAgreesAt, Underway, Executing
  <2>3. SweepsAgree' /\ RecoveryAgrees'
    BY <1>4, <1>6 DEF SweepsAgree, RecoveryAgrees, Live, Recovering
  <2> QED BY <2>2, <2>3
<1>10. CompletedIsWhole' /\ EndedIsTerminal'
  BY <1>1, <1>2, <1>4 DEF JobInv, CompletedIsWhole, EndedIsTerminal
<1> QED BY <1>3, <1>7, <1>8, <1>9, <1>10 DEF JobInv

LEMMA AgeStep ==
  ASSUME JobInv, Age
  PROVE  JobInv'
<1> USE TaskAssumption
<1>1. /\ \A a \in Actors : pc[a] \notin Live
      /\ old' = {p \in {Parent} : Open(parent.status)} \cup {i \in Children : Open(child[i])}
      /\ UNCHANGED <<form, parent, child, claim, fresh, outside, pc, at, mine, copy, holder, busy,
                     crashes>>
  BY DEF Age
<1>2. R \in Actors /\ Turns \subseteq Actors
  BY DEF R, Actors
<1>3. old' \in SUBSET (0 .. MaxCount)
  BY <1>1 DEF Parent, Children
<1>4. TaskTypeOK'
  BY <1>1, <1>3 DEF JobInv, TaskTypeOK, outside
<1>5. BusyAgrees' /\ RolesAgree' /\ LeaseAgrees'
  BY <1>1 DEF JobInv, BusyAgrees, RolesAgree, LeaseAgrees
<1>6. \A t \in Turns : pc[t] \notin Underway
  BY <1>1, <1>2 DEF Underway, Live
<1>7. ClaimAgrees'
  <2>1. ~claim => old' = {}
    BY <1>1 DEF JobInv, ClaimAgrees, Open, NoParent, Missing
  <2> QED BY <1>1, <1>6, <2>1 DEF JobInv, ClaimAgrees
<1>8. TurnAgrees'
  BY <1>1, <1>6 DEF TurnAgrees, TurnAgreesAt, Underway, Executing
<1>9. SweepsAgree' /\ RecoveryAgrees' /\ CompletedIsWhole' /\ EndedIsTerminal'
  BY <1>1 DEF JobInv, SweepsAgree, SweepingAgrees, RecoveryAgrees, CompletedIsWhole, EndedIsTerminal
<1> QED BY <1>4, <1>5, <1>7, <1>8, <1>9 DEF JobInv

-----------------------------------------------------------------------------

LEMMA JobStep ==
  ASSUME JobInv, TaskNext \/ Crash \/ Age
  PROVE  JobInv'
<1>1. ASSUME NEW t \in Turns, Plans(t) \/ PlanFails(t) PROVE JobInv'
  BY <1>1, CheckPriorStep, ClaimStep, PlanChildStep, PlanParentStep, PlanFailsStep DEF Plans
<1>2. ASSUME NEW t \in Turns, Works(t) PROVE JobInv'
  BY <1>2, AcquireStep, StartStep, WaitStopsStep, StartChildStep, EngineStep, CommitChildStep,
     CommitParentStep, FinishStep DEF Works
<1>3. ASSUME NEW t \in Turns, Stops(t) PROVE JobInv'
  BY <1>3, WaitStopsStep, ChildFailsStep DEF Stops
<1>4. ASSUME NEW k \in Cancellers, Cancel(k) \/ Sweeps(k) PROVE JobInv'
  BY <1>4, CancelStep, CancellerSweepsStep
<1>5. ASSUME Recovers \/ RecoverSkips PROVE JobInv'
  BY <1>5, RecoverReadStep, RecoverWorksStep, RecoverEndsStep DEF Recovers
<1> QED BY <1>1, <1>2, <1>3, <1>4, <1>5, TurnSweepsStep, EngineEndsStep, RecoverStaleStep,
     CrashStep, AgeStep DEF TaskNext

-----------------------------------------------------------------------------
(* What a step never takes back.                                           *)

\* A terminal status is left only by a recovery, and only when it is FAILED.
StatusKept ==
  parent.status \in TERMINAL =>
    \/ parent'.status = parent.status
    \/ parent.status = "FAILED" /\ ~fresh /\ pc[R] \in Recovering

ChildrenKept ==
  \A i \in Children :
    /\ child[i] = "COMPLETED" => child'[i] = "COMPLETED"
    /\ parent.status = "CANCELLED" /\ child'[i] = "RUNNING" => child[i] = "RUNNING"

LEMMA UnchangedKept ==
  ASSUME UNCHANGED <<parent, child>>
  PROVE  StatusKept /\ ChildrenKept
BY DEF StatusKept, ChildrenKept

LEMMA AbortKeeps ==
  ASSUME JobInv, NEW t, NEW status, Abort(t, status)
  PROVE  StatusKept /\ ChildrenKept
<1>1. parent' = [parent EXCEPT !.status = IF @ \in TERMINAL THEN @ ELSE status] /\ child' = child
  BY DEF Abort, SaveParent
<1>2. parent \in ParentRecords
  BY DEF JobInv, TaskTypeOK
<1>3. parent.status \in TERMINAL => parent'.status = parent.status
  BY <1>1, <1>2 DEF ParentRecords
<1> QED BY <1>1, <1>3 DEF StatusKept, ChildrenKept

LEMMA PlansKeeps ==
  ASSUME JobInv, NEW t \in Turns, Plans(t) \/ PlanFails(t)
  PROVE  StatusKept /\ ChildrenKept
<1>1. CASE CheckPrior(t)
  BY <1>1, UnchangedKept DEF CheckPrior, records
<1>2. CASE Claim(t)
  <2>1. ~claim => parent.status = Missing
    BY DEF JobInv, ClaimAgrees, NoParent
  <2>2. child' = child /\ (claim => parent' = parent)
    BY <1>2 DEF Claim
  <2> QED BY <2>1, <2>2, StatusTypes DEF StatusKept, ChildrenKept, Missing
<1>3. CASE PlanChild(t) \/ PlanParent(t) \/ PlanFails(t)
  <2>1. PlanningAgrees(t)
    BY <1>3 DEF JobInv, TurnAgrees, TurnAgreesAt, PlanChild, PlanParent, PlanFails, At
  <2>2. parent.status \notin TERMINAL /\ parent.status # "CANCELLED"
    BY <2>1, StatusTypes DEF PlanningAgrees, NoParent
  <2>3. \A i \in Children : child[i] # "COMPLETED"
    BY <2>1 DEF PlanningAgrees
  <2> QED BY <2>2, <2>3 DEF StatusKept, ChildrenKept
<1> QED BY <1>1, <1>2, <1>3 DEF Plans

LEMMA WorksKeeps ==
  ASSUME JobInv, NEW t \in Turns, Works(t) \/ Stops(t)
  PROVE  StatusKept /\ ChildrenKept
<1>0. TaskTypeOK /\ TurnAgreesAt(t)
  BY DEF JobInv, TurnAgrees
<1>1. CASE Acquire(t) \/ Submit(t) \/ Verify(t) \/ Enhance(t)
  BY <1>1, UnchangedKept DEF Acquire, Submit, Verify, Enhance, records
<1>2. CASE Start(t)
  <2>1. WaitingAgrees(t) /\ parent.status # "CANCELLED" /\ child' = child
    BY <1>0, <1>2 DEF TurnAgreesAt, Start, At
  <2>2. parent.status = "QUEUED"
    BY <2>1 DEF WaitingAgrees
  <2> QED BY <2>1, <2>2, StatusTypes DEF StatusKept, ChildrenKept
<1>3. CASE StartChild(t)
  <2>1. StartingAgrees(t)
    BY <1>0, <1>3 DEF TurnAgreesAt, StartChild, At
  <2>2. /\ at[t] \in Nat /\ at[t] + 1 \in 1 .. form.count /\ at[t] + 1 \in at[t] + 1 .. form.count
        /\ at[t] + 1 \in Children
    BY <1>0, <2>1, CountTypes DEF StartingAgrees
  <2>3. parent.status = "RUNNING" /\ child[at[t] + 1] = "QUEUED"
    BY <2>1, <2>2 DEF StartingAgrees, Reached
  <2>4. child' = [child EXCEPT ![at[t] + 1] = "RUNNING"] /\ parent' = parent
    BY <1>3 DEF StartChild, SaveChild
  <2>5. \A i \in Children : child[i] = "COMPLETED" => child'[i] = "COMPLETED"
    BY <1>0, <2>2, <2>3, <2>4 DEF TaskTypeOK
  <2> QED BY <2>3, <2>4, <2>5 DEF StatusKept, ChildrenKept
<1>4. CASE RecordPrompt(t) \/ ChildFails(t) \/ CommitChild(t)
  <2>1. WorkingAgrees(t)
    BY <1>0, <1>4 DEF TurnAgreesAt, RecordPrompt, ChildFails, CommitChild, At
  <2>2. parent.status = "RUNNING" /\ child[at[t]] = "RUNNING"
    BY <2>1 DEF WorkingAgrees, Reached
  <2>3. parent' = parent /\ \A i \in Children : i # at[t] => child'[i] = child[i]
    BY <1>0, <1>4 DEF TaskTypeOK, RecordPrompt, ChildFails, CommitChild, SaveChild
  <2> QED BY <2>2, <2>3 DEF StatusKept, ChildrenKept
<1>5. CASE CommitParent(t) \/ Finish(t)
  <2>1. parent.status = "RUNNING" /\ child' = child
    BY <1>0, <1>5 DEF TurnAgreesAt, CommitParent, Finish, Abort, At, CommittingAgrees, FinishingAgrees, Reached
  <2> QED BY <2>1, StatusTypes DEF StatusKept, ChildrenKept
<1>6. CASE WaitStops(t) \/ StartCancelled(t) \/ AbortByChild(t)
  BY <1>6, AbortKeeps DEF WaitStops, StartCancelled, AbortByChild
<1> QED BY <1>1, <1>2, <1>3, <1>4, <1>5, <1>6 DEF Works, Stops

LEMMA SweepsKeeps ==
  ASSUME JobInv, NEW a \in Actors, Sweeps(a)
  PROVE  StatusKept /\ ChildrenKept
<1>1. CASE SweepChild(a)
  <2>1. parent' = parent /\ \A i \in Children : child[i] \in TERMINAL => child'[i] = child[i]
    BY <1>1, SweepChildWrites
  <2>2. \A i \in Children : child'[i] = "RUNNING" => child[i] = "RUNNING"
    BY <1>1 DEF SweepChild, SaveChild, JobInv, TaskTypeOK
  <2> QED BY <2>1, <2>2 DEF StatusKept, ChildrenKept, TERMINAL
<1>2. CASE SweepDone(a)
  BY <1>2, UnchangedKept DEF SweepDone, records
<1> QED BY <1>1, <1>2 DEF Sweeps

LEMMA RecoversKeeps ==
  ASSUME JobInv, Recovers \/ RecoverSkips
  PROVE  StatusKept /\ ChildrenKept
<1>1. CASE RecoverRead \/ RecoverSkips
  BY <1>1, UnchangedKept DEF RecoverRead, RecoverSkips, records
<1>2. CASE ~(RecoverRead \/ RecoverSkips)
  <2>1. pc[R] \in Recovering
    BY <1>2 DEF Recovers, RecoverAcquires, RecoverFetches, RecoverChecks, StageChild, StageParent,
       RecoverEnhances, RecoverChild, RecoverParent, At, Recovering
  <2>2. /\ ~fresh /\ parent.status \in {"RUNNING", "FAILED"}
        /\ pc[R] = "binding" \/ child[1] \in {"RUNNING", "FAILED"}
    BY <2>1 DEF JobInv, RecoveryAgrees
  <2>3. \/ child' = child
        \/ /\ pc[R] # "binding"
           /\ child' = [child EXCEPT ![1] = "RUNNING"] \/ child' = [child EXCEPT ![1] = "COMPLETED"]
    BY <1>2 DEF Recovers, RecoverAcquires, RecoverFetches, RecoverChecks, StageChild, StageParent,
       RecoverEnhances, RecoverChild, RecoverParent, At, SaveChild, records
  <2>4. \A i \in Children : child[i] = "COMPLETED" => child'[i] = "COMPLETED"
    BY <2>2, <2>3 DEF JobInv, TaskTypeOK
  <2> QED BY <2>1, <2>2, <2>4 DEF StatusKept, ChildrenKept, TERMINAL
<1> QED BY <1>1, <1>2

LEMMA JobKeeps ==
  ASSUME JobInv, TaskNext \/ Crash \/ Age
  PROVE  StatusKept /\ ChildrenKept
<1>1. ASSUME NEW t \in Turns, Plans(t) \/ PlanFails(t) \/ Works(t) \/ Stops(t) \/ Sweeps(t)
      PROVE  StatusKept /\ ChildrenKept
  BY <1>1, PlansKeeps, WorksKeeps, SweepsKeeps DEF Actors
<1>2. ASSUME NEW k \in Cancellers, Cancel(k) \/ Sweeps(k)
      PROVE  StatusKept /\ ChildrenKept
  <2>1. CASE Cancel(k)
    <3>1. child' = child /\ (parent' = parent \/ parent.status = "QUEUED")
      BY <2>1 DEF Cancel
    <3> QED BY <3>1, StatusTypes DEF StatusKept, ChildrenKept
  <2>2. CASE Sweeps(k)
    BY <2>2, SweepsKeeps DEF Actors
  <2> QED BY <1>2, <2>1, <2>2
<1>3. CASE Recovers \/ RecoverSkips
  BY <1>3, RecoversKeeps
<1>4. CASE RecoverStale
  <2>1. /\ parent.status \in TERMINAL => parent' = parent
        /\ \A i \in Children : child[i] \in TERMINAL => child'[i] = child[i]
        /\ \A i \in Children : child'[i] \in {child[i], "FAILED"}
    BY <1>4, StaleWrites
  <2> QED BY <2>1 DEF StatusKept, ChildrenKept, TERMINAL
<1>5. CASE EngineEnds \/ Crash \/ Age
  BY <1>5, UnchangedKept DEF EngineEnds, Crash, Age, records
<1> QED BY <1>1, <1>2, <1>3, <1>4, <1>5 DEF TaskNext
=============================================================================
