-------------------------- MODULE ImageBatchProofs --------------------------
(***************************************************************************)
(* Theorems about ImageBatch, for every number of images, every set of     *)
(* invocations and any number of crashes.                                  *)
(***************************************************************************)
EXTENDS ImageBatch, SequenceTheorems, TLAPS

-----------------------------------------------------------------------------
(* The inductive invariant.                                                *)

\* Who waits for the lease has a ticket.
WaitersQueued ==
  \A r \in Runs : pc[r] = "waiting" => \E n \in 1 .. Len(queue) : queue[n] = r

\* A run works with the lease only.
LeaseHeld == \A r \in Runs : pc[r] \in {"leased"} \cup Working => holder = r

\* Where an invocation is that has not touched the batch, or does not any more.
Aside == {"new", "capturing", "done", "dead"}

\* Before the turn is claimed there is no batch.
Unclaimed ==
  /\ claim <=> parent.status # Missing
  /\ ~claim => /\ parent = NoParent /\ clone = NoParent
               /\ \A i \in Children : child[i] = Missing
               /\ \A a \in Actors : pc[a] \in Aside

\* While a batch is planned nobody else is at it.
PlansAlone ==
  \A c \in Creators : pc[c] = "planning" =>
    /\ parent.status = "CREATED" /\ ~parent.planned
    /\ \A a \in Actors \ {c} : pc[a] \in Aside

\* Nothing is done of a batch whose child_jobs are not on disk.
Unplanned ==
  ~parent.planned =>
    /\ parent.artifacts = {} /\ clone = NoParent
    /\ \A i \in Children : child[i] \notin {"RUNNING", "COMPLETED"}
    /\ \A r \in Runs : pc[r] # "working"

\* The record the reconciler has in its hand is that of a planned batch.
CloneAgrees ==
  clone # NoParent =>
    /\ clone.planned /\ parent.planned
    /\ clone.status \in {"COMPLETED", "PARTIAL"}

\* A child somebody works on is not done.
WorksUndone ==
  \A r \in Runs : pc[r] = "working" => at[r] \in Children /\ child[at[r]] # "COMPLETED"

\* Both copies of the record of a batch that is complete list all of it.
Whole ==
  /\ CompletedIsWhole
  /\ clone.status = "COMPLETED" => Verified = Children /\ clone.artifacts = Children

\* Nobody gets past a child that a crash has left RUNNING.
Orphan(j) ==
  \A r \in Runs :
    /\ pc[r] \notin {"waiting", "leased"} \cup Working
    /\ pc[r] = "reopening" => at[r] < j

OrphansAlone ==
  \A j \in Children : child[j] = "RUNNING" =>
    Orphan(j) \/ \E r \in Runs : pc[r] = "working" /\ at[r] = j

\* Without a crash a RUNNING parent has its run.
RunsUncrashed == crashes = 0 => RunningIsRun

TypeInv == TypeOK /\ WaitersQueued
PlanInv == LeaseHeld /\ Unclaimed /\ PlansAlone /\ Unplanned /\ CloneAgrees
WorkInv == WorksUndone /\ Whole /\ ChildrenSerialized /\ OrphansAlone /\ RunsUncrashed
IInv == TypeInv /\ PlanInv /\ WorkInv

-----------------------------------------------------------------------------
(* The operators.                                                          *)

\* What the table of transitions allows, as far as the steps need it.
LEMMA LegalSteps ==
  /\ \A status, next : Legal(status, next) =>
       /\ status \in Statuses \ TERMINAL /\ next \in Statuses
       /\ next = "RUNNING" => status = "QUEUED"
       /\ next = "COMPLETED" => status = "RUNNING"
  /\ \A next \in TERMINAL : Legal("RUNNING", next)
BY DEF Legal, TRANSITIONS, Statuses, TERMINAL

LEMMA WithoutQueued ==
  ASSUME queue \in Seq(Runs), NEW a \in Runs
  PROVE  /\ Without(a) \in Seq(Runs)
         /\ \A b \in Runs \ {a} : (\E n \in 1 .. Len(queue) : queue[n] = b) =>
              \E n \in 1 .. Len(Without(a)) : Without(a)[n] = b
<1>. DEFINE k == PlaceOf(a)
            front == SubSeq(queue, 1, k - 1)
            back == SubSeq(queue, k + 1, Len(queue))
<1>1. CASE \E n \in 1 .. Len(queue) : queue[n] = a
  <2>1. k \in 1 .. Len(queue) /\ queue[k] = a /\ Len(queue) \in Nat
    BY <1>1 DEF PlaceOf
  <2>. HIDE DEF k
  <2>2. /\ front \in Seq(Runs) /\ Len(front) = k - 1
        /\ \A n \in 1 .. k - 1 : front[n] = queue[n]
    <3>1. \A n \in 1 .. k - 1 : queue[n] \in Runs
      BY <2>1, ElementOfSeq
    <3>. QED
      BY <2>1, <3>1, SubSeqProperties
  <2>3. /\ back \in Seq(Runs) /\ Len(back) = Len(queue) - k
        /\ \A n \in 1 .. Len(queue) - k : back[n] = queue[k + n]
    <3>1. \A n \in k + 1 .. Len(queue) : queue[n] \in Runs
      BY <2>1, ElementOfSeq
    <3>. QED
      BY <2>1, <3>1, SubSeqProperties
  <2>4. Without(a) = front \o back
    BY <1>1 DEF Without, k
  <2>. HIDE DEF front, back
  <2>5. /\ Without(a) \in Seq(Runs) /\ Len(Without(a)) = Len(queue) - 1
        /\ \A n \in 1 .. Len(queue) - 1 :
             Without(a)[n] = IF n <= k - 1 THEN front[n] ELSE back[n - (k - 1)]
    <3>1. /\ Without(a) \in Seq(Runs) /\ Len(Without(a)) = Len(front) + Len(back)
          /\ \A n \in 1 .. Len(front) + Len(back) :
               Without(a)[n] = IF n <= Len(front) THEN front[n] ELSE back[n - Len(front)]
      <4>1. /\ front \o back \in Seq(Runs) /\ Len(front \o back) = Len(front) + Len(back)
            /\ \A n \in 1 .. Len(front) + Len(back) :
                 (front \o back)[n] = IF n <= Len(front) THEN front[n] ELSE back[n - Len(front)]
        BY <2>2, <2>3, ConcatProperties
      <4>. QED
        BY <2>4, <4>1
    <3>2. Len(front) + Len(back) = Len(queue) - 1
      BY <2>1, <2>2, <2>3
    <3>. QED
      BY <2>2, <3>1, <3>2
  <2>6. ASSUME NEW b \in Runs \ {a}, NEW n \in 1 .. Len(queue), queue[n] = b
        PROVE  \E m \in 1 .. Len(Without(a)) : Without(a)[m] = b
    <3>1. CASE n < k
      <4>1. n \in 1 .. Len(Without(a)) /\ Without(a)[n] = b
        BY <2>1, <2>2, <2>5, <2>6, <3>1
      <4>. QED
        BY <4>1
    <3>2. CASE n > k
      <4>1. /\ n - 1 \in 1 .. Len(Without(a)) /\ ~(n - 1 <= k - 1)
            /\ (n - 1) - (k - 1) = n - k /\ n - k \in 1 .. Len(queue) - k /\ k + (n - k) = n
        BY <2>1, <2>5, <3>2
      <4>2. Without(a)[n - 1] = b
        BY <2>1, <2>3, <2>5, <2>6, <4>1
      <4>. QED
        BY <4>1, <4>2
    <3>. QED
      BY <2>1, <2>6, <3>1, <3>2
  <2>. QED
    BY <2>5, <2>6
<1>2. CASE ~\E n \in 1 .. Len(queue) : queue[n] = a
  BY <1>2 DEF Without
<1>. QED
  BY <1>1, <1>2

\* What the writes of the parent record change.
LEMMA ParentWrites ==
  ASSUME NEW p \in ParentRecords, NEW status \in OnDisk, NEW artifacts \in SUBSET Children
  PROVE  /\ LET q == [p EXCEPT !.status = status]
            IN /\ q \in ParentRecords /\ q.status = status /\ q.artifacts = p.artifacts
               /\ q.planned = p.planned /\ q.presented = p.presented
         /\ LET q == [p EXCEPT !.status = status, !.planned = TRUE]
            IN /\ q \in ParentRecords /\ q.status = status /\ q.artifacts = p.artifacts
               /\ q.planned /\ q.presented = p.presented
         /\ LET q == [p EXCEPT !.status = status, !.artifacts = artifacts]
            IN /\ q \in ParentRecords /\ q.status = status /\ q.artifacts = artifacts
               /\ q.planned = p.planned /\ q.presented = p.presented
         /\ LET q == [p EXCEPT !.artifacts = artifacts]
            IN /\ q \in ParentRecords /\ q.status = p.status /\ q.artifacts = artifacts
               /\ q.planned = p.planned /\ q.presented = p.presented
         /\ LET q == [p EXCEPT !.presented = TRUE]
            IN /\ q \in ParentRecords /\ q.status = p.status /\ q.artifacts = p.artifacts
               /\ q.planned = p.planned /\ q.presented
<1>. USE DEF ParentRecords
<1>1. LET q == [p EXCEPT !.status = status]
      IN /\ q \in ParentRecords /\ q.status = status /\ q.artifacts = p.artifacts
         /\ q.planned = p.planned /\ q.presented = p.presented
  OBVIOUS
<1>2. LET q == [p EXCEPT !.status = status, !.planned = TRUE]
      IN /\ q \in ParentRecords /\ q.status = status /\ q.artifacts = p.artifacts
         /\ q.planned /\ q.presented = p.presented
  OBVIOUS
<1>3. LET q == [p EXCEPT !.status = status, !.artifacts = artifacts]
      IN /\ q \in ParentRecords /\ q.status = status /\ q.artifacts = artifacts
         /\ q.planned = p.planned /\ q.presented = p.presented
  OBVIOUS
<1>4. LET q == [p EXCEPT !.artifacts = artifacts]
      IN /\ q \in ParentRecords /\ q.status = p.status /\ q.artifacts = artifacts
         /\ q.planned = p.planned /\ q.presented = p.presented
  OBVIOUS
<1>5. LET q == [p EXCEPT !.presented = TRUE]
      IN /\ q \in ParentRecords /\ q.status = p.status /\ q.artifacts = p.artifacts
         /\ q.planned = p.planned /\ q.presented
  OBVIOUS
<1>. QED
  BY <1>1, <1>2, <1>3, <1>4, <1>5

LEMMA AbortDoes ==
  ASSUME TypeOK, NEW r \in Runs, NEW cancelled \in BOOLEAN, Abort(r, cancelled)
  PROVE  /\ UNCHANGED <<child, claim, marker, clone, crashes>>
         /\ Goto(r, "done") \/ Goto(r, "sweeping")
         /\ From(r, 0) /\ queue' = Without(r)
         /\ holder' = holder \/ holder' = Free(r)
         /\ old' \in SUBSET (0 .. N)
         /\ parent' \in ParentRecords /\ parent'.planned = parent.planned
         /\ parent'.artifacts \in {parent.artifacts, Verified}
         /\ parent.status = "COMPLETED" => parent'.artifacts = Verified
         /\ \/ parent'.status = parent.status /\ parent.status # "RUNNING"
            \/ /\ Legal(parent.status, parent'.status)
               /\ parent'.status \in {"CANCELLED", "PARTIAL", "FAILED"}
<1>. DEFINE next == IF cancelled THEN "CANCELLED" ELSE IF Verified # {} THEN "PARTIAL" ELSE "FAILED"
            kept == parent.status \in TERMINAL
            thrown == ~kept /\ ~Legal(parent.status, next)
<1>1. next \in {"CANCELLED", "PARTIAL", "FAILED"} /\ Verified \in SUBSET Children
  BY DEF Verified
<1>2. next \in OnDisk /\ "FAILED" \in OnDisk /\ parent.status \in OnDisk /\ parent \in ParentRecords
      /\ parent.artifacts \in SUBSET Children
  BY <1>1 DEF OnDisk, Statuses, TERMINAL, TypeOK, ParentRecords
<1>3. /\ UNCHANGED <<child, claim, marker, clone, crashes>>
      /\ Goto(r, IF thrown THEN "done" ELSE "sweeping")
      /\ holder' = IF thrown THEN Free(r) ELSE holder
      /\ IF thrown
           THEN IF r \in Creators /\ Legal(parent.status, "FAILED")
                  THEN SaveParent([parent EXCEPT !.status = "FAILED"])
                  ELSE UNCHANGED <<parent, old>>
           ELSE SaveParent([parent EXCEPT !.status = IF kept THEN @ ELSE next,
                                          !.artifacts = Verified])
      /\ From(r, 0) /\ queue' = Without(r)
  BY DEF Abort
<1>4. parent.status = "RUNNING" => ~thrown
  BY <1>1, LegalSteps DEF TERMINAL
<1>. HIDE DEF next
<1>5. CASE thrown
  <2>1. /\ Goto(r, "done") /\ holder' = Free(r) /\ parent.status # "RUNNING"
        /\ parent.status # "COMPLETED"
    BY <1>3, <1>4, <1>5 DEF TERMINAL
  <2>2. CASE r \in Creators /\ Legal(parent.status, "FAILED")
    <3>1. parent' = [parent EXCEPT !.status = "FAILED"] /\ old' = old \ {Parent}
      BY <1>3, <1>5, <2>2 DEF SaveParent
    <3>2. /\ parent' \in ParentRecords /\ parent'.planned = parent.planned
          /\ parent'.artifacts = parent.artifacts /\ parent'.status = "FAILED"
      BY <1>2, <3>1, ParentWrites
    <3>. QED
      BY <1>3, <2>1, <2>2, <3>1, <3>2 DEF TypeOK
  <2>3. CASE ~(r \in Creators /\ Legal(parent.status, "FAILED"))
    BY <1>2, <1>3, <1>5, <2>1, <2>3 DEF TypeOK
  <2>. QED
    BY <2>2, <2>3
<1>6. CASE ~thrown
  <2>1. parent' = [parent EXCEPT !.status = IF kept THEN parent.status ELSE next,
                                 !.artifacts = Verified]
    BY <1>3, <1>6 DEF SaveParent
  <2> DEFINE status == IF kept THEN parent.status ELSE next
  <2>2. status \in OnDisk
    BY <1>2
  <2>3. /\ parent' \in ParentRecords /\ parent'.planned = parent.planned
        /\ parent'.artifacts = Verified /\ parent'.status = status
    <3>1. parent' = [parent EXCEPT !.status = status, !.artifacts = Verified]
      BY <2>1
    <3>. HIDE DEF status
    <3>. QED
      <4>1. Verified \in SUBSET Children /\ status \in OnDisk /\ parent \in ParentRecords
        BY <1>1, <1>2, <2>2
      <4>. DEFINE all == Verified
      <4>. HIDE DEF all
      <4>2. LET q == [parent EXCEPT !.status = status, !.artifacts = all]
            IN /\ q \in ParentRecords /\ q.status = status /\ q.artifacts = all
               /\ q.planned = parent.planned
        BY <4>1 DEF ParentRecords, all
      <4>. QED
        BY <3>1, <4>2 DEF all
  <2>4. old' \in SUBSET (0 .. N)
    BY <1>3, <1>6 DEF SaveParent, TypeOK
  <2>. QED
    BY <1>1, <1>3, <1>6, <2>3, <2>4 DEF TERMINAL
<1>. QED
  BY <1>5, <1>6

\* What a resume does to the child it comes to.
LEMMA ReopenChildDoes ==
  ASSUME NEW r, ReopenChild(r)
  PROVE  \E i \in Children :
           /\ ComesTo(r, i) /\ From(r, i)
           /\ \/ child[i] = "COMPLETED" /\ UNCHANGED <<child, old, pc>>
              \/ child[i] \in Reopenable /\ SaveChild(i, "QUEUED") /\ UNCHANGED pc
              \/ child[i] \notin TERMINAL /\ Goto(r, "done") /\ UNCHANGED <<child, old>>
<1>1. PICK i \in Children :
        /\ ComesTo(r, i) /\ From(r, i)
        /\ CASE child[i] = "COMPLETED" -> UNCHANGED <<child, old, pc>>
             [] child[i] \in Reopenable -> SaveChild(i, "QUEUED") /\ UNCHANGED pc
             [] child[i] \notin TERMINAL -> Goto(r, "done") /\ UNCHANGED <<child, old>>
  BY DEF ReopenChild
<1>2. CASE child[i] = "COMPLETED"
  BY <1>1, <1>2 DEF Reopenable, TERMINAL
<1>3. CASE child[i] \in Reopenable
  BY <1>1, <1>3 DEF Reopenable, TERMINAL
<1>4. CASE child[i] \notin TERMINAL
  BY <1>1, <1>4 DEF Reopenable, TERMINAL
<1>. QED
  BY <1>2, <1>3, <1>4 DEF Reopenable

\* What a run does with the first child that is not verified.
LEMMA StartChildDoes ==
  ASSUME NEW r, StartChild(r)
  PROVE  \/ Abort(r, FALSE)
         \/ /\ UNCHANGED <<parent, claim, marker, lane, clone, crashes>>
            /\ Goto(r, "working")
            /\ \E i \in Unverified(r) :
                 /\ \A j \in Unverified(r) : i <= j
                 /\ child[i] = "QUEUED" /\ SaveChild(i, "RUNNING") /\ From(r, i)
BY Zenon DEF StartChild

\* What a run does behind its loop.
LEMMA FinishDoes ==
  ASSUME TypeOK, NEW r, FinishRun(r)
  PROVE  \/ Abort(r, FALSE)
         \/ /\ Legal(parent.status, Verdict)
            /\ SaveParent([parent EXCEPT !.status = Verdict, !.artifacts = Verified])
            /\ From(r, 0)
            /\ UNCHANGED <<child, claim, marker, queue, clone, crashes>>
            /\ parent' \in ParentRecords /\ old' \in SUBSET (0 .. N)
            /\ parent'.status = Verdict /\ parent'.artifacts = Verified
            /\ parent'.planned = parent.planned
            /\ Verdict \in {"CANCELLED", "COMPLETED", "PARTIAL", "FAILED"}
            /\ Verdict = "COMPLETED" => Verified = Children
            /\ \/ Goto(r, "sweeping") /\ UNCHANGED holder
               \/ Goto(r, "done") /\ holder' = Free(r)
<1>1. CASE ~Legal(parent.status, Verdict)
  BY <1>1 DEF FinishRun
<1>2. CASE Legal(parent.status, Verdict)
  <2>1. /\ SaveParent([parent EXCEPT !.status = Verdict, !.artifacts = Verified])
        /\ From(r, 0)
        /\ UNCHANGED <<child, claim, marker, queue, clone, crashes>>
        /\ \/ Goto(r, "sweeping") /\ UNCHANGED holder
           \/ Goto(r, "done") /\ holder' = Free(r)
    BY <1>2 DEF FinishRun
  <2>2. /\ Verdict \in {"CANCELLED", "COMPLETED", "PARTIAL", "FAILED"}
        /\ Verdict = "COMPLETED" => Verified = Children
    BY DEF Verdict
  <2>3. Verdict \in OnDisk /\ Verified \in SUBSET Children
    BY <2>2 DEF OnDisk, Statuses, TERMINAL, Verified
  <2>. DEFINE status == Verdict
              all == Verified
  <2>. HIDE DEF status, all
  <2>4. LET q == [parent EXCEPT !.status = status, !.artifacts = all]
        IN q \in ParentRecords /\ q.status = status /\ q.artifacts = all /\ q.planned = parent.planned
    <3>1. status \in OnDisk /\ all \in SUBSET Children /\ parent \in ParentRecords
      BY <2>3 DEF status, all, TypeOK
    <3>. QED
      BY <3>1 DEF ParentRecords
  <2>5. /\ parent' \in ParentRecords /\ old' \in SUBSET (0 .. N)
        /\ parent'.status = Verdict /\ parent'.artifacts = Verified /\ parent'.planned = parent.planned
    BY <2>1, <2>4 DEF SaveParent, TypeOK, status, all
  <2>. QED
    BY <1>2, <2>1, <2>2, <2>5
<1>. QED
  BY <1>1, <1>2

-----------------------------------------------------------------------------
(* Types, and the tickets of those who wait.                               *)

LEMMA TypeInit == Init => TypeInv
<1>. SUFFICES ASSUME Init PROVE TypeInv
  OBVIOUS
<1>. USE DEF Init
<1>1. parent \in ParentRecords /\ clone \in ParentRecords
  BY DEF NoParent, ParentRecords, OnDisk, Missing
<1>2. child \in [Children -> OnDisk \ {"CREATED"}]
  BY DEF OnDisk, Missing
<1>3. pc \in [Actors -> Places] /\ at \in [Actors -> 0 .. N]
  BY BatchAssumption DEF Places
<1>4. queue \in Seq(Runs) /\ WaitersQueued
  BY EmptySeq DEF WaitersQueued, Actors
<1>5. crashes \in 0 .. MaxCrashes
  BY BatchAssumption
<1>. QED
  BY <1>1, <1>2, <1>3, <1>4, <1>5 DEF TypeInv, TypeOK

\* The parts of a record that a step writes keep their types.
LEMMA TypeParent ==
  ASSUME TypeOK, NEW status \in OnDisk
  PROVE  /\ SaveParent([parent EXCEPT !.status = status]) => parent' \in ParentRecords
         /\ SaveParent([parent EXCEPT !.status = status, !.planned = TRUE]) => parent' \in ParentRecords
BY DEF TypeOK, SaveParent, ParentRecords

LEMMA TypeChild ==
  ASSUME TypeOK, NEW i, NEW status \in OnDisk \ {"CREATED"}, SaveChild(i, status)
  PROVE  child' \in [Children -> OnDisk \ {"CREATED"}] /\ old' \in SUBSET (0 .. N)
BY DEF TypeOK, SaveChild

LEMMA TypePlaces ==
  ASSUME TypeOK, NEW a \in Actors, NEW place \in Places, NEW i \in 0 .. N
  PROVE  /\ Goto(a, place) => pc' \in [Actors -> Places] /\ pc'[a] = place
         /\ Goto(a, place) => \A b \in Actors \ {a} : pc'[b] = pc[b]
         /\ From(a, i) => at' \in [Actors -> 0 .. N]
BY DEF TypeOK, Goto, From

\* A step that lets nobody wait anew and takes no other's ticket keeps the tickets.
LEMMA TicketsKept ==
  ASSUME TypeInv, NEW a \in Runs,
         \A b \in Runs \ {a} : pc'[b] = pc[b],
         queue' = queue \/ queue' = Without(a),
         pc'[a] = "waiting" => pc[a] = "waiting" /\ queue' = queue
  PROVE  queue' \in Seq(Runs) /\ WaitersQueued'
<1>1. queue \in Seq(Runs)
  BY DEF TypeInv, TypeOK
<1>2. CASE queue' = queue
  BY <1>1, <1>2 DEF TypeInv, WaitersQueued
<1>3. CASE queue' = Without(a) /\ pc'[a] # "waiting"
  BY <1>1, <1>3, WithoutQueued DEF TypeInv, WaitersQueued
<1>. QED
  BY <1>2, <1>3

\* A step that makes one wait gives it a ticket.
LEMMA TicketTaken ==
  ASSUME TypeInv, NEW a \in Runs, \A b \in Runs \ {a} : pc'[b] = pc[b], queue' = Append(queue, a)
  PROVE  queue' \in Seq(Runs) /\ WaitersQueued'
<1>1. queue \in Seq(Runs)
  BY DEF TypeInv, TypeOK
<1>2. /\ queue' \in Seq(Runs) /\ Len(queue') = Len(queue) + 1 /\ queue'[Len(queue) + 1] = a
      /\ \A n \in 1 .. Len(queue) : queue'[n] = queue[n]
  BY <1>1, AppendProperties
<1>3. Len(queue) \in Nat
  BY <1>1, LenProperties
<1>4. ASSUME NEW r \in Runs, pc'[r] = "waiting"
      PROVE  \E n \in 1 .. Len(queue') : queue'[n] = r
  <2>1. CASE r = a
    BY <1>2, <1>3, <2>1
  <2>2. CASE r # a
    <3>1. PICK n \in 1 .. Len(queue) : queue[n] = r
      BY <1>4, <2>2 DEF TypeInv, WaitersQueued
    <3>. QED
      BY <1>2, <1>3, <3>1
  <2>. QED
    BY <2>1, <2>2
<1>. QED
  BY <1>2, <1>4 DEF WaitersQueued

\* The first of the queue takes its ticket away with it.
LEMMA TicketUsed ==
  ASSUME TypeInv, NEW a \in Runs, pc[a] = "waiting", Head(queue) = a, queue' = Tail(queue),
         \A b \in Runs \ {a} : pc'[b] = pc[b], pc'[a] # "waiting"
  PROVE  queue' \in Seq(Runs) /\ WaitersQueued'
<1>1. queue \in Seq(Runs)
  BY DEF TypeInv, TypeOK
<1>2. Len(queue) \in Nat /\ queue # <<>>
  <2>1. PICK n \in 1 .. Len(queue) : queue[n] = a
    BY DEF TypeInv, WaitersQueued
  <2>. QED
    BY <1>1, <2>1, LenProperties, EmptySeq
<1>3. /\ queue' \in Seq(Runs) /\ Len(queue') = Len(queue) - 1
      /\ \A n \in 1 .. Len(queue') : queue'[n] = queue[n + 1]
  BY <1>1, <1>2, HeadTailProperties
<1>4. queue[1] = a
  BY <1>1, <1>2
<1>5. ASSUME NEW r \in Runs, pc'[r] = "waiting"
      PROVE  \E n \in 1 .. Len(queue') : queue'[n] = r
  <2>1. PICK n \in 1 .. Len(queue) : queue[n] = r
    BY <1>5 DEF TypeInv, WaitersQueued
  <2>2. n # 1
    BY <1>4, <1>5, <2>1
  <2>3. n - 1 \in 1 .. Len(queue') /\ queue'[n - 1] = queue[n]
    BY <1>2, <1>3, <2>1, <2>2
  <2>. QED
    BY <2>1, <2>3
<1>. QED
  BY <1>3, <1>5 DEF WaitersQueued

LEMMA AbortTypes ==
  ASSUME TypeInv, NEW r \in Runs, NEW cancelled \in BOOLEAN, Abort(r, cancelled)
  PROVE  TypeInv'
<1>1. TypeOK /\ r \in Actors /\ 0 \in 0 .. N
  BY BatchAssumption DEF TypeInv, Actors
<1>2. /\ UNCHANGED <<child, claim, marker, clone, crashes>>
      /\ Goto(r, "done") \/ Goto(r, "sweeping")
      /\ From(r, 0) /\ queue' = Without(r)
      /\ holder' = holder \/ holder' = Free(r)
      /\ old' \in SUBSET (0 .. N) /\ parent' \in ParentRecords
  BY <1>1, AbortDoes
<1>3. /\ pc' \in [Actors -> Places] /\ at' \in [Actors -> 0 .. N]
      /\ pc'[r] # "waiting" /\ \A b \in Actors \ {r} : pc'[b] = pc[b]
  <2>1. "done" \in Places /\ "sweeping" \in Places
    BY DEF Places, Live
  <2>2. at' \in [Actors -> 0 .. N]
    BY <1>1, <1>2 DEF TypeOK, From
  <2>. QED
    BY <1>1, <1>2, <2>1, <2>2, TypePlaces
<1>4. queue' \in Seq(Runs) /\ WaitersQueued'
  BY <1>2, <1>3, TicketsKept DEF Actors
<1>5. holder' \in Runs \cup {Nobody}
  BY <1>1, <1>2 DEF TypeOK, Free
<1>. QED
  BY <1>1, <1>2, <1>3, <1>4, <1>5 DEF TypeInv, TypeOK

\* A step of one run that keeps its ticket and the lane, or of no run at all.
LEMMA PlacesOnly ==
  ASSUME TypeInv, UNCHANGED lane, \A r \in Runs : pc'[r] = "waiting" => pc[r] = "waiting"
  PROVE  queue' \in Seq(Runs) /\ holder' \in Runs \cup {Nobody} /\ WaitersQueued'
BY DEF TypeInv, TypeOK, WaitersQueued, lane

LEMMA TypeCreators ==
  ASSUME TypeInv, NEW c \in Creators, Creates(c) \/ PlanFails(c)
  PROVE  TypeInv'
<1>1. TypeOK /\ WaitersQueued /\ c \in Runs /\ c \in Actors /\ N \in Nat
  BY BatchAssumption DEF TypeInv, Runs, Actors
<1>2. {"done", "capturing", "planning", "waiting"} \subseteq Places
  BY DEF Places, Live
<1>. USE DEF TypeInv, TypeOK
<1>3. CASE CheckPrior(c)
  <2>1. pc' \in [Actors -> Places] /\ \A r \in Runs : pc'[r] = "waiting" => pc[r] = "waiting"
    BY <1>1, <1>2, <1>3 DEF CheckPrior, Goto, Actors
  <2>. QED
    BY <1>1, <1>3, <2>1, PlacesOnly DEF CheckPrior, records
<1>4. CASE Claim(c)
  <2>1. pc' \in [Actors -> Places] /\ \A r \in Runs : pc'[r] = "waiting" => pc[r] = "waiting"
    BY <1>1, <1>2, <1>4 DEF Claim, Goto, Actors
  <2>2. parent' \in ParentRecords /\ claim' \in BOOLEAN /\ old' \in SUBSET (0 .. N)
    BY <1>1, <1>4 DEF Claim, SaveParent, ParentRecords, NoParent, OnDisk, Statuses
  <2>3. at' \in [Actors -> 0 .. N]
    BY <1>1, <1>4 DEF Claim, From
  <2>. QED
    BY <1>1, <1>4, <2>1, <2>2, <2>3, PlacesOnly DEF Claim
<1>5. CASE PlanChild(c)
  <2>1. child' \in [Children -> OnDisk \ {"CREATED"}] /\ old' \in SUBSET (0 .. N)
    BY <1>1, <1>5, TypeChild DEF PlanChild, OnDisk, Statuses
  <2>2. at' \in [Actors -> 0 .. N]
    BY <1>1, <1>5 DEF PlanChild, From, Children
  <2>. QED
    BY <1>1, <1>5, <2>1, <2>2, PlacesOnly DEF PlanChild
<1>6. CASE PlanParent(c)
  <2>1. pc' \in [Actors -> Places] /\ \A b \in Runs \ {c} : pc'[b] = pc[b]
    BY <1>1, <1>2, <1>6 DEF PlanParent, Goto, Actors
  <2>2. parent' \in ParentRecords /\ old' \in SUBSET (0 .. N)
    BY <1>1, <1>6, TypeParent DEF PlanParent, SaveParent, OnDisk, Statuses
  <2>3. queue' \in Seq(Runs) /\ WaitersQueued'
    BY <1>1, <1>6, <2>1, TicketTaken DEF PlanParent
  <2>. QED
    BY <1>6, <2>1, <2>2, <2>3 DEF PlanParent
<1>7. CASE PlanFails(c)
  <2>1. pc' \in [Actors -> Places] /\ \A r \in Runs : pc'[r] = "waiting" => pc[r] = "waiting"
    BY <1>1, <1>2, <1>7 DEF PlanFails, Goto, Actors
  <2>2. parent' \in ParentRecords /\ old' \in SUBSET (0 .. N)
    BY <1>1, <1>7, TypeParent DEF PlanFails, SaveParent, OnDisk, Statuses, TERMINAL
  <2>. QED
    BY <1>7, <2>1, <2>2, PlacesOnly DEF PlanFails
<1>. QED
  BY <1>3, <1>4, <1>5, <1>6, <1>7 DEF Creates

LEMMA TypeResumers ==
  ASSUME TypeInv, NEW r \in Resumers, Resumes(r)
  PROVE  TypeInv'
<1>1. TypeOK /\ WaitersQueued /\ r \in Runs /\ r \in Actors /\ N \in Nat
  BY BatchAssumption DEF TypeInv, Runs, Actors
<1>2. {"done", "reopening", "waiting"} \subseteq Places
  BY DEF Places, Live
<1>. USE DEF TypeInv, TypeOK
<1>3. CASE Resume(r)
  <2>1. pc' \in [Actors -> Places] /\ \A b \in Runs : pc'[b] = "waiting" => pc[b] = "waiting"
    BY <1>1, <1>2, <1>3 DEF Resume, Goto, Actors
  <2>2. at' \in [Actors -> 0 .. N]
    BY <1>1, <1>3 DEF Resume, From
  <2>3. marker' \in BOOLEAN
    <3>1. (marker' = marker) \/ (marker' = FALSE)
      BY <1>3, Zenon DEF Resume
    <3>. QED
      BY <3>1
  <2>. QED
    BY <1>3, <2>1, <2>2, <2>3, PlacesOnly DEF Resume, records
<1>4. CASE ReopenChild(r)
  <2>1. PICK i \in Children :
          /\ From(r, i)
          /\ \/ UNCHANGED <<child, old, pc>>
             \/ SaveChild(i, "QUEUED") /\ UNCHANGED pc
             \/ Goto(r, "done") /\ UNCHANGED <<child, old>>
    BY <1>4, ReopenChildDoes
  <2>2. pc' \in [Actors -> Places] /\ \A b \in Runs : pc'[b] = "waiting" => pc[b] = "waiting"
    BY <1>1, <1>2, <2>1 DEF Goto, Actors
  <2>3. at' \in [Actors -> 0 .. N]
    BY <1>1, <2>1 DEF From, Children
  <2>4. child' \in [Children -> OnDisk \ {"CREATED"}] /\ old' \in SUBSET (0 .. N)
    <3>1. "QUEUED" \in OnDisk \ {"CREATED"}
      BY DEF OnDisk, Statuses
    <3>. QED
      BY <1>1, <2>1, <3>1, TypeChild
  <2>. QED
    BY <1>4, <2>2, <2>3, <2>4, PlacesOnly DEF ReopenChild
<1>5. CASE ReopenParent(r)
  <2>1. pc' \in [Actors -> Places] /\ \A b \in Runs \ {r} : pc'[b] = pc[b]
    BY <1>1, <1>2, <1>5 DEF ReopenParent, Goto, Actors
  <2>2. CASE parent.status \in Reopenable
    <3>1. parent' \in ParentRecords /\ old' \in SUBSET (0 .. N)
      BY <1>1, <1>5, <2>2, TypeParent DEF ReopenParent, SaveParent, OnDisk, Statuses
    <3>2. queue' \in Seq(Runs) /\ WaitersQueued'
      BY <1>1, <1>5, <2>1, <2>2, TicketTaken DEF ReopenParent
    <3>. QED
      BY <1>5, <2>1, <3>1, <3>2 DEF ReopenParent
  <2>3. CASE parent.status \notin Reopenable
    <3>1. \A b \in Runs : pc'[b] = "waiting" => pc[b] = "waiting"
      BY <1>1, <1>5, <2>1, <2>3 DEF ReopenParent, Goto, Actors
    <3>. QED
      BY <1>5, <2>1, <2>3, <3>1, PlacesOnly DEF ReopenParent, lane
  <2>. QED
    BY <2>2, <2>3
<1>. QED
  BY <1>3, <1>4, <1>5 DEF Resumes

LEMMA TypeWaits ==
  ASSUME TypeInv, NEW r \in Runs, Waits(r) \/ WaitFails(r)
  PROVE  TypeInv'
<1>1. TypeOK /\ r \in Actors /\ N \in Nat /\ TRUE \in BOOLEAN /\ FALSE \in BOOLEAN /\ marker \in BOOLEAN
  BY BatchAssumption DEF TypeInv, TypeOK, Actors
<1>2. {"leased", "looping"} \subseteq Places
  BY DEF Places, Live, Working
<1>3. CASE WaitCancelled(r)
  BY <1>1, <1>3, AbortTypes DEF WaitCancelled
<1>4. CASE WaitFails(r)
  BY <1>1, <1>4, AbortTypes DEF WaitFails
<1>5. CASE StartRefused(r)
  BY <1>1, <1>5, AbortTypes DEF StartRefused
<1>6. CASE AcquireLease(r)
  <2>1. /\ pc' \in [Actors -> Places] /\ pc'[r] = "leased"
        /\ \A b \in Runs \ {r} : pc'[b] = pc[b]
    BY <1>1, <1>2, <1>6 DEF AcquireLease, Goto, Actors, TypeOK
  <2>2. queue' \in Seq(Runs) /\ WaitersQueued'
    BY <1>6, <2>1, TicketUsed DEF AcquireLease
  <2>. QED
    BY <1>6, <2>1, <2>2 DEF AcquireLease, TypeInv, TypeOK, records
<1>7. CASE StartRun(r)
  <2>1. pc' \in [Actors -> Places] /\ \A b \in Runs : pc'[b] = "waiting" => pc[b] = "waiting"
    BY <1>1, <1>2, <1>7 DEF StartRun, Goto, Actors, TypeOK
  <2>2. at' \in [Actors -> 0 .. N]
    BY <1>1, <1>7 DEF StartRun, From, TypeOK
  <2>3. parent' \in ParentRecords /\ old' \in SUBSET (0 .. N)
    BY <1>1, <1>7, TypeParent DEF StartRun, SaveParent, OnDisk, Statuses, TypeOK
  <2>. QED
    BY <1>7, <2>1, <2>2, <2>3, PlacesOnly DEF StartRun, TypeInv, TypeOK
<1>. QED
  BY <1>3, <1>4, <1>5, <1>6, <1>7 DEF Waits

LEMMA TypeWorks ==
  ASSUME TypeInv, NEW r \in Runs, Works(r) \/ Progress(r)
  PROVE  TypeInv'
<1>1. TypeOK /\ r \in Actors /\ N \in Nat /\ FALSE \in BOOLEAN
  BY BatchAssumption DEF TypeInv, Actors
<1>2. {"working", "listing", "looping", "sweeping", "done"} \subseteq Places
  BY DEF Places, Live, Working
<1>3. {"RUNNING", "COMPLETED", "FAILED", "TIMED_OUT"} \subseteq OnDisk \ {"CREATED"}
  BY DEF OnDisk, Statuses, TERMINAL
<1>4. CASE StartChild(r)
  <2>1. CASE Abort(r, FALSE)
    BY <1>1, <2>1, AbortTypes
  <2>2. CASE ~Abort(r, FALSE)
    <3>1. PICK i \in Children :
            /\ UNCHANGED <<parent, claim, marker, lane, clone, crashes>>
            /\ Goto(r, "working") /\ SaveChild(i, "RUNNING") /\ From(r, i)
      BY <1>4, <2>2, StartChildDoes DEF Unverified
    <3>2. pc' \in [Actors -> Places] /\ \A b \in Runs : pc'[b] = "waiting" => pc[b] = "waiting"
      BY <1>1, <1>2, <3>1 DEF Goto, Actors, TypeOK
    <3>3. at' \in [Actors -> 0 .. N]
      BY <1>1, <3>1 DEF From, Children, TypeOK
    <3>4. child' \in [Children -> OnDisk \ {"CREATED"}] /\ old' \in SUBSET (0 .. N)
      BY <1>1, <1>3, <3>1, TypeChild
    <3>. QED
      BY <3>1, <3>2, <3>3, <3>4, PlacesOnly DEF TypeInv, TypeOK
  <2>. QED
    BY <2>1, <2>2
<1>5. CASE ChildEnds(r)
  <2>1. pc' \in [Actors -> Places] /\ \A b \in Runs : pc'[b] = "waiting" => pc[b] = "waiting"
    BY <1>1, <1>2, <1>5 DEF ChildEnds, Goto, Actors, TypeOK
  <2>2. child' \in [Children -> OnDisk \ {"CREATED"}] /\ old' \in SUBSET (0 .. N)
    BY <1>1, <1>3, <1>5, TypeChild DEF ChildEnds
  <2>. QED
    BY <1>5, <2>1, <2>2, PlacesOnly DEF ChildEnds, TypeInv, TypeOK
<1>6. CASE ListArtifacts(r)
  <2>1. pc' \in [Actors -> Places] /\ \A b \in Runs : pc'[b] = "waiting" => pc[b] = "waiting"
    BY <1>1, <1>2, <1>6 DEF ListArtifacts, Goto, Actors, TypeOK
  <2>2. parent' \in ParentRecords /\ old' \in SUBSET (0 .. N)
    <3>. DEFINE all == Verified
    <3>1. all \in SUBSET Children
      BY DEF Verified
    <3>. HIDE DEF all
    <3>2. [parent EXCEPT !.artifacts = all] \in ParentRecords
      BY <1>1, <3>1 DEF ParentRecords, TypeOK
    <3>. QED
      BY <1>1, <1>6, <3>2 DEF ListArtifacts, SaveParent, TypeOK, all
  <2>. QED
    BY <1>6, <2>1, <2>2, PlacesOnly DEF ListArtifacts, TypeInv, TypeOK
<1>7. CASE FinishRun(r)
  <2>1. CASE Abort(r, FALSE)
    BY <1>1, <2>1, AbortTypes
  <2>2. CASE ~Abort(r, FALSE)
    <3>1. /\ parent' \in ParentRecords /\ old' \in SUBSET (0 .. N) /\ From(r, 0)
          /\ UNCHANGED <<child, claim, marker, queue, clone, crashes>>
          /\ Goto(r, "sweeping") \/ Goto(r, "done")
          /\ holder' = holder \/ holder' = Free(r)
      BY <1>1, <1>7, <2>2, FinishDoes
    <3>2. pc' \in [Actors -> Places] /\ \A b \in Runs : pc'[b] = "waiting" => pc[b] = "waiting"
      BY <1>1, <1>2, <3>1 DEF Goto, Actors, TypeOK
    <3>3. at' \in [Actors -> 0 .. N]
      BY <1>1, <3>1 DEF From, TypeOK
    <3>4. holder' \in Runs \cup {Nobody}
      BY <1>1, <3>1 DEF Free, TypeOK
    <3>. QED
      BY <3>1, <3>2, <3>3, <3>4 DEF TypeInv, TypeOK, WaitersQueued
  <2>. QED
    BY <2>1, <2>2
<1>8. CASE Progress(r)
  <2>1. child' \in [Children -> OnDisk \ {"CREATED"}] /\ old' \in SUBSET (0 .. N)
    BY <1>1, <1>3, <1>8, TypeChild DEF Progress
  <2>. QED
    BY <1>8, <2>1, PlacesOnly DEF Progress, TypeInv, TypeOK
<1>. QED
  BY <1>4, <1>5, <1>6, <1>7, <1>8 DEF Works

LEMMA TypeSweeps ==
  ASSUME TypeInv, NEW a \in Actors, Sweeps(a)
  PROVE  TypeInv'
<1>1. TypeOK /\ N \in Nat
  BY BatchAssumption DEF TypeInv
<1>2. CASE SweepChild(a)
  <2>1. PICK i \in Children :
          /\ From(a, i)
          /\ UNCHANGED <<child, old>> \/ SaveChild(i, "CANCELLED")
    BY <1>2 DEF SweepChild
  <2>2. at' \in [Actors -> 0 .. N]
    BY <1>1, <2>1 DEF From, Children, TypeOK
  <2>3. child' \in [Children -> OnDisk \ {"CREATED"}] /\ old' \in SUBSET (0 .. N)
    <3>1. "CANCELLED" \in OnDisk \ {"CREATED"}
      BY DEF OnDisk, Statuses, TERMINAL
    <3>2. CASE UNCHANGED <<child, old>>
      BY <1>1, <3>2 DEF TypeOK
    <3>3. CASE SaveChild(i, "CANCELLED")
      BY <1>1, <3>1, <3>3, TypeChild
    <3>. QED
      BY <2>1, <3>2, <3>3
  <2>. QED
    BY <1>2, <2>2, <2>3, PlacesOnly DEF SweepChild, TypeInv, TypeOK
<1>3. CASE SweepDone(a)
  <2>1. pc' \in [Actors -> Places] /\ \A b \in Runs : pc'[b] = "waiting" => pc[b] = "waiting"
    BY <1>1, <1>3 DEF SweepDone, Goto, Actors, TypeOK, Places
  <2>2. at' \in [Actors -> 0 .. N]
    BY <1>1, <1>3 DEF SweepDone, From, TypeOK
  <2>3. holder' \in Runs \cup {Nobody}
    BY <1>1, <1>3 DEF SweepDone, Free, TypeOK
  <2>. QED
    BY <1>3, <2>1, <2>2, <2>3 DEF SweepDone, TypeInv, TypeOK, WaitersQueued, records
<1>. QED
  BY <1>2, <1>3 DEF Sweeps

LEMMA TypeCancels ==
  ASSUME TypeInv, NEW k \in Cancellers, Cancel(k)
  PROVE  TypeInv'
<1>1. TypeOK /\ k \in Actors
  BY DEF TypeInv, Actors
<1>2. pc' \in [Actors -> Places] /\ \A b \in Runs : pc'[b] = "waiting" => pc[b] = "waiting"
  BY <1>1 DEF Cancel, Goto, Actors, TypeOK, Places, Live
<1>3. parent' \in ParentRecords /\ old' \in SUBSET (0 .. N)
  <2>1. SaveParent([parent EXCEPT !.status = "CANCELLED"]) \/ UNCHANGED <<parent, old>>
    BY DEF Cancel
  <2>2. "CANCELLED" \in OnDisk
    BY DEF OnDisk, Statuses, TERMINAL
  <2>. QED
    BY <1>1, <2>1, <2>2, TypeParent DEF SaveParent, TypeOK
<1>4. marker' \in BOOLEAN
  <2>1. (marker' = marker) \/ (marker' = TRUE)
    BY Zenon DEF Cancel
  <2>. QED
    BY <1>1, <2>1 DEF TypeOK
<1>. QED
  BY <1>1, <1>2, <1>3, <1>4, PlacesOnly DEF Cancel, TypeInv, TypeOK

Binding == BindRead \/ BindWrite \/ BindFails
World == Binding \/ Crash \/ Age \/ RecoverStale

\* The status of a record that went stale, and of one that did not.
LEMMA RecoverDoes ==
  ASSUME TypeOK, RecoverStale
  PROVE  /\ Quiet
         /\ UNCHANGED <<claim, marker, pc, at, lane, clone, crashes>>
         /\ old' \in SUBSET (0 .. N)
         /\ parent' \in ParentRecords /\ parent'.planned = parent.planned
         /\ parent'.artifacts = parent.artifacts
         /\ \/ parent'.status = parent.status
            \/ parent.status \notin TERMINAL \cup {Missing} /\ parent'.status = "FAILED"
         /\ child' \in [Children -> OnDisk \ {"CREATED"}]
         /\ \A i \in Children :
              \/ child'[i] = child[i]
              \/ child[i] \notin TERMINAL \cup {Missing} /\ child'[i] = "FAILED"
<1>1. /\ Quiet
      /\ UNCHANGED <<claim, marker, pc, at, lane, clone, crashes>>
      /\ (parent' = parent) \/ (/\ parent.status \notin TERMINAL \cup {Missing}
                                /\ parent' = [parent EXCEPT !.status = "FAILED"])
      /\ child' = [i \in Children |->
                     IF i \in old /\ child[i] \notin TERMINAL \cup {Missing} THEN "FAILED" ELSE child[i]]
  BY DEF RecoverStale
<1>2. old' \in SUBSET (0 .. N)
  BY DEF RecoverStale, TypeOK
<1>3. "FAILED" \in OnDisk \ {"CREATED"}
  BY DEF OnDisk, Statuses, TERMINAL
<1>4. parent' \in ParentRecords /\ parent'.planned = parent.planned
      /\ parent'.artifacts = parent.artifacts
      /\ \/ parent'.status = parent.status
         \/ parent.status \notin TERMINAL \cup {Missing} /\ parent'.status = "FAILED"
  BY <1>1, <1>3 DEF TypeOK, ParentRecords
<1>5. /\ child' \in [Children -> OnDisk \ {"CREATED"}]
      /\ \A i \in Children :
           \/ child'[i] = child[i]
           \/ child[i] \notin TERMINAL \cup {Missing} /\ child'[i] = "FAILED"
  BY <1>1, <1>3 DEF TypeOK
<1>. QED
  BY <1>1, <1>2, <1>4, <1>5

\* What the reconciler writes is the record it has read, whatever was written since.
LEMMA BindWriteDoes ==
  ASSUME TypeOK, BindWrite
  PROVE  /\ parent' \in ParentRecords /\ old' \in SUBSET (0 .. N)
         /\ parent'.status = clone.status /\ parent'.artifacts = clone.artifacts
         /\ parent'.planned = clone.planned
<1>1. parent' = [clone EXCEPT !.presented = TRUE] /\ old' = old \ {Parent} /\ clone \in ParentRecords
  BY DEF BindWrite, SaveParent, TypeOK
<1>. QED
  BY <1>1 DEF ParentRecords, TypeOK

LEMMA TypeWorld ==
  ASSUME TypeInv, World
  PROVE  TypeInv'
<1>1. TypeOK /\ NoParent \in ParentRecords
  BY DEF TypeInv, NoParent, ParentRecords, OnDisk
<1>2. CASE BindRead
  BY <1>1, <1>2, PlacesOnly DEF BindRead, TypeInv, TypeOK, records
<1>3. CASE BindWrite
  BY <1>1, <1>3, BindWriteDoes, PlacesOnly DEF BindWrite, TypeInv, TypeOK
<1>4. CASE BindFails
  BY <1>1, <1>4, PlacesOnly DEF BindFails, TypeInv, TypeOK, records
<1>5. CASE Crash
  <2>1. pc' \in [Actors -> Places] /\ \A b \in Runs : pc'[b] # "waiting"
    BY <1>1, <1>5 DEF Crash, TypeOK, Actors, Places, Live
  <2>2. at' \in [Actors -> 0 .. N] /\ crashes' \in 0 .. MaxCrashes
    BY <1>1, <1>5, BatchAssumption DEF Crash, TypeOK
  <2>3. queue' \in Seq(Runs)
    BY <1>5, EmptySeq DEF Crash
  <2>. QED
    BY <1>1, <1>5, <2>1, <2>2, <2>3 DEF Crash, TypeInv, TypeOK, WaitersQueued, records
<1>6. CASE Age
  <2>1. old' \in SUBSET (0 .. N)
    BY <1>6, BatchAssumption DEF Age, Parent, Children
  <2>. QED
    BY <1>1, <1>6, <2>1, PlacesOnly DEF Age, TypeInv, TypeOK
<1>7. CASE RecoverStale
  BY <1>1, <1>7, RecoverDoes, PlacesOnly DEF TypeInv, TypeOK
<1>. QED
  BY <1>2, <1>3, <1>4, <1>5, <1>6, <1>7 DEF World, Binding

LEMMA TypeStep == TypeInv /\ [Next]_vars => TypeInv'
<1>. SUFFICES ASSUME TypeInv, [Next]_vars
              PROVE  TypeInv'
  OBVIOUS
<1>1. CASE UNCHANGED vars
  BY <1>1 DEF vars, records, lane, TypeInv, TypeOK, WaitersQueued
<1>2. CASE Next
  BY <1>2, TypeCreators, TypeResumers, TypeWaits, TypeWorks, TypeSweeps, TypeCancels, TypeWorld
     DEF Next, World, Binding
<1>. QED
  BY <1>1, <1>2

-----------------------------------------------------------------------------
(* The lease.                                                              *)

\* Who moves on with the lease had it; who gives it up has stopped working.
LEMMA LeaseMoves ==
  ASSUME TypeOK, LeaseHeld, NEW a \in Actors, NEW place, Goto(a, place),
         \/ UNCHANGED holder /\ place \notin {"leased"} \cup Working
         \/ UNCHANGED holder /\ pc[a] \in {"leased"} \cup Working
         \/ holder' = Free(a) /\ place \notin {"leased"} \cup Working
  PROVE  LeaseHeld'
BY DEF TypeOK, LeaseHeld, Goto, Free, Actors

LEMMA AbortLease ==
  ASSUME TypeOK, LeaseHeld, NEW r \in Runs, NEW cancelled \in BOOLEAN, Abort(r, cancelled)
  PROVE  LeaseHeld'
<1>1. /\ Goto(r, "done") \/ Goto(r, "sweeping")
      /\ holder' = holder \/ holder' = Free(r)
  BY AbortDoes
<1>. QED
  BY <1>1, LeaseMoves DEF Actors, Working

LEMMA LeaseStep ==
  ASSUME TypeInv, LeaseHeld, [Next]_vars
  PROVE  LeaseHeld'
<1>. TypeOK /\ FALSE \in BOOLEAN /\ TRUE \in BOOLEAN /\ marker \in BOOLEAN
  BY DEF TypeInv, TypeOK
<1>1. CASE UNCHANGED vars \/ Binding \/ Age \/ RecoverStale
  BY <1>1 DEF vars, lane, records, Binding, BindRead, BindWrite, BindFails, Age, RecoverStale, LeaseHeld
<1>2. CASE Crash
  BY <1>2 DEF Crash, LeaseHeld, Live, Working, Actors
<1>3. ASSUME NEW c \in Creators, Creates(c) \/ PlanFails(c) PROVE LeaseHeld'
  <2>1. CASE PlanChild(c)
    BY <2>1 DEF PlanChild, LeaseHeld, lane
  <2>2. CASE ~PlanChild(c)
    <3>1. UNCHANGED holder
      BY <1>3, <2>2 DEF Creates, CheckPrior, Claim, PlanParent, PlanFails, lane
    <3>2. \E place : Goto(c, place) /\ place \in {"done", "capturing", "planning", "waiting"}
      BY <1>3, <2>2 DEF Creates, CheckPrior, Claim, PlanParent, PlanFails
    <3>. QED
      BY <3>1, <3>2, LeaseMoves DEF Actors, Runs, Working
  <2>. QED
    BY <2>1, <2>2
<1>4. ASSUME NEW r \in Resumers, Resumes(r) PROVE LeaseHeld'
  <2>1. UNCHANGED holder
    BY <1>4 DEF Resumes, Resume, ReopenChild, ReopenParent, lane
  <2>2. UNCHANGED pc \/ Goto(r, "done") \/ Goto(r, "reopening") \/ Goto(r, "waiting")
    BY <1>4, ReopenChildDoes DEF Resumes, Resume, ReopenParent
  <2>3. CASE UNCHANGED pc
    BY <2>1, <2>3 DEF LeaseHeld
  <2>. QED
    BY <2>1, <2>2, <2>3, LeaseMoves DEF Actors, Runs, Working
<1>5. ASSUME NEW r \in Runs, Waits(r) \/ WaitFails(r) PROVE LeaseHeld'
  <2>1. CASE AcquireLease(r)
    BY <2>1, BatchAssumption DEF AcquireLease, LeaseHeld, Goto, TypeOK, Actors
  <2>2. CASE StartRun(r)
    BY <2>2, LeaseMoves DEF StartRun, lane, Actors
  <2>3. CASE WaitCancelled(r) \/ WaitFails(r) \/ StartRefused(r)
    BY <2>3, AbortLease DEF WaitCancelled, WaitFails, StartRefused
  <2>. QED
    BY <1>5, <2>1, <2>2, <2>3 DEF Waits
<1>6. ASSUME NEW r \in Runs, Works(r) \/ Progress(r) PROVE LeaseHeld'
  <2>1. CASE StartChild(r)
    <3>1. pc[r] \in Working
      BY <2>1 DEF StartChild, Working
    <3>. QED
      BY <2>1, <3>1, StartChildDoes, AbortLease, LeaseMoves DEF lane, Actors
  <2>2. CASE ChildEnds(r) \/ ListArtifacts(r)
    BY <2>2, LeaseMoves DEF ChildEnds, ListArtifacts, lane, Actors, Working
  <2>3. CASE FinishRun(r)
    BY <2>3, FinishDoes, AbortLease, LeaseMoves DEF Actors, Working
  <2>4. CASE Progress(r)
    BY <2>4 DEF Progress, LeaseHeld, lane
  <2>. QED
    BY <1>6, <2>1, <2>2, <2>3, <2>4 DEF Works
<1>7. ASSUME NEW a \in Actors, Sweeps(a) PROVE LeaseHeld'
  <2>1. CASE SweepChild(a)
    BY <2>1 DEF SweepChild, LeaseHeld, lane
  <2>2. CASE SweepDone(a)
    BY <2>2, LeaseMoves DEF SweepDone, Working
  <2>. QED
    BY <1>7, <2>1, <2>2 DEF Sweeps
<1>8. ASSUME NEW k \in Cancellers, Cancel(k) PROVE LeaseHeld'
  <2>1. UNCHANGED holder /\ (Goto(k, "sweeping") \/ Goto(k, "done"))
    BY <1>8 DEF Cancel, lane
  <2>. QED
    BY <2>1, LeaseMoves DEF Actors, Working
<1>. QED
  BY <1>1, <1>2, <1>3, <1>4, <1>5, <1>6, <1>7, <1>8 DEF Next, Binding

-----------------------------------------------------------------------------
(* The plan.                                                               *)

\* Who is at a batch has it to himself while he plans it, and nobody plans it
\* when he does something else.
LEMMA Engaged ==
  ASSUME TypeOK, PlanInv, NEW a \in Actors, pc[a] \notin Aside
  PROVE  /\ claim /\ parent.status # Missing
         /\ \A c \in Creators \ {a} : pc[c] # "planning"
BY DEF PlanInv, Unclaimed, PlansAlone, Aside

\* His next step leaves it so.
LEMMA Moves ==
  ASSUME TypeOK, PlanInv, NEW a \in Actors, pc[a] \notin Aside,
         \A b \in Actors \ {a} : pc'[b] = pc[b], pc'[a] # "planning",
         claim' = claim, parent'.status # Missing
  PROVE  Unclaimed' /\ PlansAlone'
<1>1. \A c \in Creators : pc'[c] # "planning"
  BY Engaged DEF Actors, Runs
<1>. QED
  BY <1>1, Engaged DEF Unclaimed, PlansAlone

LEMMA AbortPlan ==
  ASSUME TypeInv, PlanInv, NEW r \in Runs, pc[r] \notin Aside,
         NEW cancelled \in BOOLEAN, Abort(r, cancelled)
  PROVE  Unclaimed' /\ PlansAlone' /\ Unplanned' /\ CloneAgrees'
<1>1. TypeOK /\ r \in Actors
  BY DEF TypeInv, Actors
<1>2. /\ UNCHANGED <<child, claim, marker, clone, crashes>>
      /\ Goto(r, "done") \/ Goto(r, "sweeping")
      /\ parent'.planned = parent.planned
      /\ parent'.artifacts \in {parent.artifacts, Verified}
      /\ \/ parent'.status = parent.status
         \/ parent'.status \in {"CANCELLED", "PARTIAL", "FAILED"}
  BY <1>1, AbortDoes
<1>3. /\ \A b \in Actors \ {r} : pc'[b] = pc[b]
      /\ pc'[r] \in {"done", "sweeping"}
  BY <1>1, <1>2 DEF Goto, TypeOK
<1>4. parent'.status # Missing
  BY <1>1, <1>2, Engaged DEF Missing
<1>5. Unclaimed' /\ PlansAlone'
  BY <1>1, <1>2, <1>3, <1>4, Moves
<1>6. Unplanned'
  BY <1>1, <1>2, <1>3 DEF PlanInv, Unplanned, Verified, Actors
<1>7. CloneAgrees'
  BY <1>2 DEF PlanInv, CloneAgrees
<1>. QED
  BY <1>5, <1>6, <1>7

LEMMA PlanCreators ==
  ASSUME TypeInv, PlanInv, NEW c \in Creators, Creates(c) \/ PlanFails(c)
  PROVE  Unclaimed' /\ PlansAlone' /\ Unplanned' /\ CloneAgrees'
<1>1. TypeOK /\ c \in Actors /\ c \in Runs /\ c \notin Resumers
  BY BatchAssumption DEF TypeInv, Actors, Runs
<1>. USE DEF PlanInv
<1>2. CASE CheckPrior(c)
  <2>1. /\ UNCHANGED <<parent, child, claim, clone>>
        /\ pc[c] = "new" /\ pc'[c] \in {"done", "capturing"}
        /\ \A b \in Actors \ {c} : pc'[b] = pc[b]
    BY <1>1, <1>2 DEF CheckPrior, records, Goto, TypeOK
  <2>. QED
    BY <1>1, <2>1 DEF Unclaimed, PlansAlone, Unplanned, CloneAgrees, Aside, Actors, Runs
<1>3. CASE Claim(c) /\ claim
  <2>1. /\ UNCHANGED <<parent, child, claim, clone>>
        /\ pc[c] = "capturing" /\ pc'[c] = "done"
        /\ \A b \in Actors \ {c} : pc'[b] = pc[b]
    BY <1>1, <1>3 DEF Claim, Goto, TypeOK
  <2>. QED
    BY <1>1, <2>1 DEF Unclaimed, PlansAlone, Unplanned, CloneAgrees, Aside, Actors, Runs
<1>4. CASE Claim(c) /\ ~claim
  <2>1. /\ UNCHANGED <<child, clone>> /\ claim'
        /\ parent' = [NoParent EXCEPT !.status = "CREATED"]
        /\ pc[c] = "capturing" /\ pc'[c] = "planning"
        /\ \A b \in Actors \ {c} : pc'[b] = pc[b]
    BY <1>1, <1>4 DEF Claim, SaveParent, Goto, TypeOK
  <2>2. parent'.status = "CREATED" /\ ~parent'.planned /\ parent'.artifacts = {}
    BY <2>1 DEF NoParent
  <2>3. clone = NoParent /\ \A i \in Children : child[i] = Missing
    BY <1>4 DEF Unclaimed
  <2>4. \A b \in Actors : pc[b] \in Aside
    BY <1>4 DEF Unclaimed
  <2>. QED
    BY <1>1, <2>1, <2>2, <2>3, <2>4
       DEF Unclaimed, PlansAlone, Unplanned, CloneAgrees, Aside, Missing, Actors, Runs
<1>5. CASE PlanChild(c)
  <2>1. /\ UNCHANGED <<parent, claim, pc, clone>> /\ pc[c] = "planning"
        /\ \E i \in Children : child' = [child EXCEPT ![i] = "QUEUED"]
    BY <1>5 DEF PlanChild, SaveChild
  <2>2. claim
    BY <1>1, <2>1, Engaged DEF Aside
  <2>3. Unplanned'
    BY <1>1, <2>1 DEF Unplanned, TypeOK
  <2>. QED
    BY <2>1, <2>2, <2>3 DEF Unclaimed, PlansAlone, CloneAgrees
<1>6. CASE PlanParent(c)
  <2>1. /\ UNCHANGED <<child, claim, clone>> /\ pc[c] = "planning" /\ pc'[c] = "waiting"
        /\ \A b \in Actors \ {c} : pc'[b] = pc[b]
        /\ parent' = [parent EXCEPT !.status = "QUEUED", !.planned = TRUE]
    BY <1>1, <1>6 DEF PlanParent, SaveParent, Goto, TypeOK
  <2>2. parent'.status = "QUEUED" /\ parent'.planned
    BY <1>1, <2>1 DEF TypeOK, ParentRecords
  <2>3. Unclaimed' /\ PlansAlone'
    BY <1>1, <2>1, <2>2, Moves DEF Aside, Missing
  <2>. QED
    BY <2>1, <2>2, <2>3 DEF Unplanned, CloneAgrees
<1>7. CASE PlanFails(c)
  <2>1. /\ UNCHANGED <<child, claim, clone>> /\ pc[c] = "planning" /\ pc'[c] = "done"
        /\ \A b \in Actors \ {c} : pc'[b] = pc[b]
        /\ parent' = [parent EXCEPT !.status = "FAILED"]
    BY <1>1, <1>7 DEF PlanFails, SaveParent, Goto, TypeOK
  <2>2. /\ parent'.status = "FAILED" /\ parent'.planned = parent.planned
        /\ parent'.artifacts = parent.artifacts
    BY <1>1, <2>1 DEF TypeOK, ParentRecords
  <2>3. Unclaimed' /\ PlansAlone'
    BY <1>1, <2>1, <2>2, Moves DEF Aside, Missing
  <2>. QED
    BY <1>1, <2>1, <2>2, <2>3 DEF Unplanned, CloneAgrees, Actors
<1>. QED
  BY <1>2, <1>3, <1>4, <1>5, <1>6, <1>7 DEF Creates

LEMMA PlanResumers ==
  ASSUME TypeInv, PlanInv, NEW r \in Resumers, Resumes(r)
  PROVE  Unclaimed' /\ PlansAlone' /\ Unplanned' /\ CloneAgrees'
<1>1. TypeOK /\ r \in Actors /\ r \in Runs /\ r \notin Creators
  BY BatchAssumption DEF TypeInv, Actors, Runs
<1>. USE DEF PlanInv
<1>2. CASE Resume(r)
  <2>1. /\ UNCHANGED <<parent, child, claim, clone>> /\ parent.status # Missing
        /\ \A b \in Actors \ {r} : pc'[b] = pc[b]
        /\ \/ pc'[r] = "reopening" /\ parent.status \in Reopenable
           \/ pc'[r] = "done"
    BY <1>1, <1>2 DEF Resume, records, Goto, TypeOK
  <2>2. claim
    BY <2>1 DEF Unclaimed
  <2>3. PlansAlone'
    BY <1>1, <2>1 DEF PlansAlone, Aside, Reopenable, TERMINAL, Actors, Runs
  <2>. QED
    BY <1>1, <2>1, <2>2, <2>3 DEF Unclaimed, Unplanned, CloneAgrees, Actors
<1>3. CASE ReopenChild(r)
  <2>1. PICK i \in Children :
          /\ ComesTo(r, i) /\ From(r, i)
          /\ \/ child[i] = "COMPLETED" /\ UNCHANGED <<child, old, pc>>
             \/ child[i] \in Reopenable /\ SaveChild(i, "QUEUED") /\ UNCHANGED pc
             \/ child[i] \notin TERMINAL /\ Goto(r, "done") /\ UNCHANGED <<child, old>>
    BY <1>3, ReopenChildDoes
  <2>2. UNCHANGED <<parent, claim, clone>> /\ parent.planned /\ pc[r] = "reopening"
    BY <1>3, <2>1 DEF ReopenChild, ComesTo
  <2>3. pc'[r] # "planning" /\ \A b \in Actors \ {r} : pc'[b] = pc[b]
    BY <1>1, <2>1, <2>2 DEF Goto, TypeOK
  <2>4. Unclaimed' /\ PlansAlone'
    BY <1>1, <2>2, <2>3, Engaged, Moves DEF Aside
  <2>. QED
    BY <2>2, <2>4 DEF Unplanned, CloneAgrees
<1>4. CASE ReopenParent(r)
  <2>1. /\ UNCHANGED <<child, claim, clone>> /\ pc[r] = "reopening"
        /\ pc'[r] \in {"waiting", "done"} /\ \A b \in Actors \ {r} : pc'[b] = pc[b]
        /\ (parent' = parent) \/ (parent' = [parent EXCEPT !.status = "QUEUED"])
    BY <1>1, <1>4 DEF ReopenParent, SaveParent, Goto, TypeOK
  <2>2. /\ parent'.status \in {parent.status, "QUEUED"} /\ parent'.planned = parent.planned
        /\ parent'.artifacts = parent.artifacts
    BY <1>1, <2>1 DEF TypeOK, ParentRecords
  <2>3. Unclaimed' /\ PlansAlone'
    BY <1>1, <2>1, <2>2, Engaged, Moves DEF Aside, Missing
  <2>. QED
    BY <1>1, <2>1, <2>2, <2>3 DEF Unplanned, CloneAgrees, Actors
<1>. QED
  BY <1>2, <1>3, <1>4 DEF Resumes

LEMMA PlanRuns ==
  ASSUME TypeInv, PlanInv, NEW r \in Runs,
         Waits(r) \/ WaitFails(r) \/ Works(r) \/ Progress(r)
  PROVE  Unclaimed' /\ PlansAlone' /\ Unplanned' /\ CloneAgrees'
<1>1. TypeOK /\ r \in Actors /\ FALSE \in BOOLEAN /\ TRUE \in BOOLEAN /\ marker \in BOOLEAN
  BY DEF TypeInv, TypeOK, Actors
<1>2. pc[r] \in {"waiting", "leased"} \cup Working
  BY DEF Waits, WaitCancelled, WaitFails, AcquireLease, StartRun, StartRefused, Works, StartChild,
         ChildEnds, ListArtifacts, FinishRun, Progress, Working
<1>3. pc[r] \notin Aside
  BY <1>2 DEF Aside, Working
<1>4. claim /\ parent.status # Missing
  BY <1>1, <1>3, Engaged
<1>. USE DEF PlanInv
<1>5. CASE WaitCancelled(r) \/ WaitFails(r) \/ StartRefused(r)
  BY <1>1, <1>3, <1>5, AbortPlan DEF WaitCancelled, WaitFails, StartRefused
<1>6. CASE AcquireLease(r)
  <2>1. UNCHANGED <<parent, child, claim, clone>> /\ Goto(r, "leased")
    BY <1>6 DEF AcquireLease, records
  <2>2. pc'[r] = "leased" /\ \A b \in Actors \ {r} : pc'[b] = pc[b]
    BY <1>1, <2>1 DEF Goto, TypeOK
  <2>. QED
    BY <1>1, <1>3, <1>4, <2>1, <2>2, Moves DEF Unplanned, CloneAgrees, Actors
<1>7. CASE StartRun(r)
  <2>1. UNCHANGED <<child, claim, clone>> /\ Goto(r, "looping")
        /\ parent' = [parent EXCEPT !.status = "RUNNING"]
    BY <1>7 DEF StartRun, SaveParent
  <2>2. pc'[r] = "looping" /\ \A b \in Actors \ {r} : pc'[b] = pc[b]
    BY <1>1, <2>1 DEF Goto, TypeOK
  <2>3. /\ parent'.status = "RUNNING" /\ parent'.planned = parent.planned
        /\ parent'.artifacts = parent.artifacts
    BY <1>1, <2>1 DEF TypeOK, ParentRecords
  <2>. QED
    BY <1>1, <1>3, <2>1, <2>2, <2>3, Moves DEF Unplanned, CloneAgrees, Actors, Missing
<1>8. CASE StartChild(r) /\ ~Abort(r, FALSE)
  <2>1. /\ UNCHANGED <<parent, claim, clone>> /\ Goto(r, "working")
        /\ \E i \in Unverified(r) : TRUE
    BY <1>8, StartChildDoes
  <2>2. pc'[r] = "working" /\ \A b \in Actors \ {r} : pc'[b] = pc[b]
    BY <1>1, <2>1 DEF Goto, TypeOK
  <2>3. parent.planned
    BY <2>1 DEF Unverified
  <2>. QED
    BY <1>1, <1>3, <1>4, <2>1, <2>2, <2>3, Moves DEF Unplanned, CloneAgrees
<1>9. CASE ChildEnds(r)
  <2>1. UNCHANGED <<parent, claim, clone>> /\ Goto(r, "listing") /\ pc[r] = "working"
    BY <1>9 DEF ChildEnds
  <2>2. pc'[r] = "listing" /\ \A b \in Actors \ {r} : pc'[b] = pc[b]
    BY <1>1, <2>1 DEF Goto, TypeOK
  <2>. QED
    BY <1>1, <1>3, <1>4, <2>1, <2>2, Moves DEF Unplanned, CloneAgrees
<1>10. CASE ListArtifacts(r)
  <2>1. UNCHANGED <<child, claim, clone>> /\ Goto(r, "looping")
        /\ parent' = [parent EXCEPT !.artifacts = Verified]
    BY <1>10 DEF ListArtifacts, SaveParent
  <2>2. pc'[r] = "looping" /\ \A b \in Actors \ {r} : pc'[b] = pc[b]
    BY <1>1, <2>1 DEF Goto, TypeOK
  <2>3. /\ parent'.status = parent.status /\ parent'.planned = parent.planned
        /\ parent'.artifacts = Verified
    <3>. DEFINE all == Verified
    <3>1. all \in SUBSET Children
      BY DEF Verified
    <3>. HIDE DEF all
    <3>2. LET q == [parent EXCEPT !.artifacts = all]
          IN q.status = parent.status /\ q.planned = parent.planned /\ q.artifacts = all
      BY <1>1, <3>1 DEF ParentRecords, TypeOK
    <3>. QED
      BY <2>1, <3>2 DEF all
  <2>4. ~parent.planned => Verified = {}
    BY DEF Verified
  <2>. QED
    BY <1>1, <1>3, <1>4, <2>1, <2>2, <2>3, <2>4, Moves DEF Unplanned, CloneAgrees, Actors
<1>11. CASE FinishRun(r) /\ ~Abort(r, FALSE)
  <2>1. /\ UNCHANGED <<child, claim, clone>>
        /\ parent'.status = Verdict /\ parent'.artifacts = Verified
        /\ parent'.planned = parent.planned
        /\ Verdict \in {"CANCELLED", "COMPLETED", "PARTIAL", "FAILED"}
        /\ Goto(r, "sweeping") \/ Goto(r, "done")
    BY <1>1, <1>11, FinishDoes
  <2>2. pc'[r] \in {"sweeping", "done"} /\ \A b \in Actors \ {r} : pc'[b] = pc[b]
    BY <1>1, <2>1 DEF Goto, TypeOK
  <2>3. ~parent.planned => Verified = {}
    BY DEF Verified
  <2>. QED
    BY <1>1, <1>3, <2>1, <2>2, <2>3, Moves DEF Unplanned, CloneAgrees, Actors, Missing
<1>12. CASE Progress(r)
  <2>1. UNCHANGED <<parent, claim, clone, pc>> /\ pc[r] = "working"
    BY <1>12 DEF Progress
  <2>. QED
    BY <1>1, <1>3, <1>4, <2>1, Moves DEF Unplanned, CloneAgrees
<1>13. CASE Abort(r, FALSE)
  BY <1>1, <1>3, <1>13, AbortPlan
<1>. QED
  BY <1>5, <1>6, <1>7, <1>8, <1>9, <1>10, <1>11, <1>12, <1>13 DEF Waits, Works

LEMMA PlanOthers ==
  ASSUME TypeInv, PlanInv,
         \/ \E a \in Actors : Sweeps(a)
         \/ \E k \in Cancellers : Cancel(k)
         \/ World
  PROVE  Unclaimed' /\ PlansAlone' /\ Unplanned' /\ CloneAgrees'
<1>1. TypeOK
  BY DEF TypeInv
<1>. USE DEF PlanInv
<1>2. ASSUME NEW a \in Actors, SweepChild(a)
      PROVE  Unclaimed' /\ PlansAlone' /\ Unplanned' /\ CloneAgrees'
  <2>1. UNCHANGED <<parent, claim, clone, pc>> /\ parent.planned /\ pc[a] = "sweeping"
    BY <1>2 DEF SweepChild, ComesTo
  <2>2. claim /\ parent.status # Missing
    BY <1>1, <2>1, Engaged DEF Aside
  <2>. QED
    BY <2>1, <2>2 DEF Unclaimed, PlansAlone, Unplanned, CloneAgrees
<1>3. ASSUME NEW a \in Actors, SweepDone(a)
      PROVE  Unclaimed' /\ PlansAlone' /\ Unplanned' /\ CloneAgrees'
  <2>1. UNCHANGED <<parent, child, claim, clone>> /\ Goto(a, "done") /\ pc[a] = "sweeping"
    BY <1>3 DEF SweepDone, records
  <2>2. pc'[a] = "done" /\ \A b \in Actors \ {a} : pc'[b] = pc[b]
    BY <1>1, <2>1 DEF Goto, TypeOK
  <2>. QED
    BY <1>1, <2>1, <2>2, Engaged, Moves DEF Unplanned, CloneAgrees, Actors, Aside
<1>4. ASSUME NEW k \in Cancellers, Cancel(k)
      PROVE  Unclaimed' /\ PlansAlone' /\ Unplanned' /\ CloneAgrees'
  <2>1. /\ UNCHANGED <<child, claim, clone>> /\ parent.status \in {"QUEUED", "RUNNING"}
        /\ Goto(k, "sweeping") \/ Goto(k, "done")
        /\ (parent' = parent) \/ (parent' = [parent EXCEPT !.status = "CANCELLED"])
    BY <1>4 DEF Cancel, SaveParent
  <2>2. pc'[k] \in {"sweeping", "done"} /\ \A b \in Actors \ {k} : pc'[b] = pc[b] /\ k \in Actors
    BY <1>1, <2>1 DEF Goto, TypeOK, Actors
  <2>3. /\ parent'.status \in {parent.status, "CANCELLED"} /\ parent'.planned = parent.planned
        /\ parent'.artifacts = parent.artifacts
    BY <1>1, <2>1 DEF TypeOK, ParentRecords
  <2>4. claim /\ parent'.status # Missing /\ k \in Actors
    BY <2>1, <2>3 DEF Unclaimed, Missing, Actors
  <2>5. \A c \in Creators : pc'[c] # "planning"
    BY <2>1, <2>2, <2>4 DEF PlansAlone, Actors, Runs
  <2>. QED
    BY <1>1, <2>1, <2>2, <2>3, <2>4, <2>5
       DEF Unclaimed, PlansAlone, Unplanned, CloneAgrees, Actors
<1>5. CASE BindRead
  <2>1. /\ UNCHANGED <<parent, child, claim, pc>> /\ clone' = parent
        /\ parent.status \in {"COMPLETED", "PARTIAL"} /\ parent.artifacts # {}
    BY <1>5 DEF BindRead, records
  <2>2. claim /\ parent.planned
    BY <2>1 DEF Unclaimed, Unplanned, Missing
  <2>. QED
    BY <2>1, <2>2 DEF Unclaimed, PlansAlone, Unplanned, CloneAgrees
<1>6. CASE BindWrite
  <2>1. /\ UNCHANGED <<child, claim, pc>> /\ clone' = NoParent
        /\ clone.planned /\ parent.planned /\ clone.status \in {"COMPLETED", "PARTIAL"}
    BY <1>6 DEF BindWrite, CloneAgrees
  <2>2. parent'.status \in {"COMPLETED", "PARTIAL"} /\ parent'.planned
    BY <1>1, <1>6, <2>1, BindWriteDoes
  <2>3. claim /\ \A c \in Creators : pc[c] # "planning"
    BY <2>1 DEF Unclaimed, PlansAlone, NoParent
  <2>. QED
    BY <2>1, <2>2, <2>3 DEF Unclaimed, PlansAlone, Unplanned, CloneAgrees, Missing
<1>7. CASE BindFails
  BY <1>7 DEF BindFails, records, Unclaimed, PlansAlone, Unplanned, CloneAgrees
<1>8. CASE Crash
  <2>1. /\ UNCHANGED <<parent, child, claim>> /\ clone' = NoParent
        /\ \A a \in Actors : pc'[a] = IF pc[a] \in Live THEN "dead" ELSE pc[a]
    BY <1>8 DEF Crash, records
  <2>. QED
    BY <2>1 DEF Unclaimed, PlansAlone, Unplanned, CloneAgrees, Aside, Live, Working, Actors, Runs
<1>9. CASE Age
  BY <1>9 DEF Age, Unclaimed, PlansAlone, Unplanned, CloneAgrees
<1>10. CASE RecoverStale
  <2>1. /\ UNCHANGED <<claim, pc, clone>> /\ \A a \in Actors : pc[a] \notin Live
        /\ parent'.planned = parent.planned /\ parent'.artifacts = parent.artifacts
        /\ \/ parent'.status = parent.status
           \/ parent.status \notin TERMINAL \cup {Missing} /\ parent'.status = "FAILED"
        /\ \A i \in Children :
             \/ child'[i] = child[i]
             \/ child[i] \notin TERMINAL \cup {Missing} /\ child'[i] = "FAILED"
    BY <1>1, <1>10, RecoverDoes DEF Quiet
  <2>2. ~claim => parent' = NoParent
    BY <1>10 DEF RecoverStale, Unclaimed, NoParent
  <2>. QED
    BY <2>1, <2>2 DEF Unclaimed, PlansAlone, Unplanned, CloneAgrees, Live, Missing, Actors, Runs
<1>. QED
  BY <1>2, <1>3, <1>4, <1>5, <1>6, <1>7, <1>8, <1>9, <1>10 DEF Sweeps, World, Binding

LEMMA PlanStep == TypeInv /\ PlanInv /\ [Next]_vars => PlanInv'
<1>. SUFFICES ASSUME TypeInv, PlanInv, [Next]_vars
              PROVE  PlanInv'
  OBVIOUS
<1>1. LeaseHeld'
  BY LeaseStep DEF PlanInv
<1>2. Unclaimed' /\ PlansAlone' /\ Unplanned' /\ CloneAgrees'
  <2>1. CASE UNCHANGED vars
    BY <2>1 DEF vars, records, PlanInv, Unclaimed, PlansAlone, Unplanned, CloneAgrees
  <2>2. CASE Next
    BY <2>2, PlanCreators, PlanResumers, PlanRuns, PlanOthers DEF Next, World, Binding
  <2>. QED
    BY <2>1, <2>2
<1>. QED
  BY <1>1, <1>2 DEF PlanInv

-----------------------------------------------------------------------------
(* What a step writes.                                                     *)

\* What becomes of the parent record and of the reconciler's copy of it.
ParentChange ==
  /\ parent.planned => parent'.planned
  /\ parent'.status = "COMPLETED" =>
       \/ parent.status = "COMPLETED" /\ parent'.artifacts \in {parent.artifacts, Verified}
       \/ Verified = Children /\ parent'.artifacts = Verified
       \/ clone # NoParent /\ clone.status = "COMPLETED" /\ parent'.artifacts = clone.artifacts
  /\ parent'.status = "RUNNING" => parent.status = "RUNNING" \/ \E r \in Runs : StartRun(r)
  /\ \/ parent'.status = parent.status
     \/ parent.status = Missing /\ parent'.status = "CREATED"
     \/ parent.status \in Reopenable /\ parent'.status = "QUEUED"
     \/ /\ parent.status \in Statuses \ TERMINAL
        /\ parent'.status \in Statuses \ {"COMPLETED"}
     \/ /\ parent.status \in Statuses \ TERMINAL
        /\ parent'.status = "COMPLETED" /\ Verified = Children
     \/ clone # NoParent /\ parent'.status = clone.status
  /\ \/ clone' = clone
     \/ clone' = NoParent
     \/ Binds /\ clone' = parent /\ parent' = parent

LEMMA AbortParent ==
  ASSUME TypeOK, NEW r \in Runs, NEW cancelled \in BOOLEAN, Abort(r, cancelled)
  PROVE  ParentChange
BY AbortDoes, LegalSteps DEF ParentChange, Statuses, TERMINAL

LEMMA ParentSteps ==
  ASSUME TypeInv, PlanInv, [Next]_vars
  PROVE  ParentChange
<1>1. TypeOK /\ FALSE \in BOOLEAN /\ TRUE \in BOOLEAN /\ marker \in BOOLEAN
  BY DEF TypeInv, TypeOK
<1>2. CASE UNCHANGED parent
  <2>1. clone' = clone \/ clone' = NoParent \/ (Binds /\ clone' = parent)
    <3>1. CASE UNCHANGED vars
      BY <3>1 DEF vars
    <3>2. CASE World
      BY <3>2 DEF World, Binding, BindRead, BindWrite, BindFails, Crash, Age, RecoverStale
    <3>3. ASSUME NEW c \in Creators, Creates(c) \/ PlanFails(c) PROVE clone' = clone
      BY <3>3 DEF Creates, CheckPrior, Claim, PlanChild, PlanParent, PlanFails
    <3>4. ASSUME NEW r \in Resumers, Resumes(r) PROVE clone' = clone
      BY <3>4 DEF Resumes, Resume, ReopenChild, ReopenParent
    <3>5. ASSUME NEW r \in Runs, Waits(r) \/ WaitFails(r) \/ Works(r) \/ Progress(r)
          PROVE  clone' = clone
      <4>1. ASSUME NEW cancelled \in BOOLEAN, Abort(r, cancelled) PROVE clone' = clone
        BY <4>1 DEF Abort
      <4>2. CASE Waits(r) \/ WaitFails(r) \/ Progress(r)
        BY <1>1, <4>1, <4>2
           DEF Waits, WaitFails, WaitCancelled, AcquireLease, StartRun, StartRefused, Progress
      <4>3. CASE Works(r)
        BY <1>1, <4>1, <4>3, StartChildDoes, FinishDoes DEF Works, ChildEnds, ListArtifacts
      <4>. QED
        BY <3>5, <4>2, <4>3
    <3>6. ASSUME NEW a \in Actors, Sweeps(a) PROVE clone' = clone
      BY <3>6 DEF Sweeps, SweepChild, SweepDone
    <3>7. ASSUME NEW k \in Cancellers, Cancel(k) PROVE clone' = clone
      BY <3>7 DEF Cancel
    <3>. QED
      BY <3>1, <3>2, <3>3, <3>4, <3>5, <3>6, <3>7 DEF Next, World, Binding
  <2>. QED
    BY <1>2, <2>1 DEF ParentChange
<1>3. ASSUME NEW c \in Creators, Creates(c) \/ PlanFails(c), parent' # parent
      PROVE  ParentChange
  <2>1. CASE Claim(c)
    <3>1. parent' = [NoParent EXCEPT !.status = "CREATED"] /\ ~claim /\ clone' = clone
      BY <1>3, <2>1 DEF Claim, SaveParent
    <3>2. ~parent.planned /\ parent.status = Missing
      BY <3>1 DEF PlanInv, Unclaimed, NoParent
    <3>3. parent'.status = "CREATED" /\ ~parent'.planned
      BY <3>1 DEF NoParent
    <3>. QED
      BY <3>1, <3>2, <3>3 DEF ParentChange
  <2>2. CASE PlanParent(c)
    <3>1. /\ parent' = [parent EXCEPT !.status = "QUEUED", !.planned = TRUE] /\ clone' = clone
          /\ parent.status = "CREATED"
      BY <2>2 DEF PlanParent, SaveParent, PlanInv, PlansAlone
    <3>2. parent'.status = "QUEUED" /\ parent'.planned
      BY <1>1, <3>1 DEF TypeOK, ParentRecords
    <3>. QED
      BY <3>1, <3>2 DEF ParentChange, Statuses, TERMINAL
  <2>3. CASE PlanFails(c)
    <3>1. /\ parent' = [parent EXCEPT !.status = "FAILED"] /\ clone' = clone
          /\ parent.status = "CREATED"
      BY <2>3 DEF PlanFails, SaveParent, PlanInv, PlansAlone
    <3>2. parent'.status = "FAILED" /\ parent'.planned = parent.planned
      BY <1>1, <3>1 DEF TypeOK, ParentRecords
    <3>. QED
      BY <3>1, <3>2 DEF ParentChange, Statuses, TERMINAL
  <2>. QED
    BY <1>3, <2>1, <2>2, <2>3 DEF Creates, CheckPrior, PlanChild, records
<1>4. ASSUME NEW r \in Resumers, Resumes(r), parent' # parent
      PROVE  ParentChange
  <2>1. /\ parent' = [parent EXCEPT !.status = "QUEUED"] /\ clone' = clone
        /\ parent.status \in Reopenable
    BY <1>4 DEF Resumes, Resume, ReopenChild, ReopenParent, SaveParent, records
  <2>2. parent'.status = "QUEUED" /\ parent'.planned = parent.planned
    BY <1>1, <2>1 DEF TypeOK, ParentRecords
  <2>. QED
    BY <2>1, <2>2 DEF ParentChange
<1>5. ASSUME NEW r \in Runs, Waits(r) \/ WaitFails(r), parent' # parent
      PROVE  ParentChange
  <2>1. CASE StartRun(r)
    <3>1. /\ parent' = [parent EXCEPT !.status = "RUNNING"] /\ clone' = clone
          /\ parent.status \in Statuses \ TERMINAL
      BY <2>1, LegalSteps DEF StartRun, SaveParent
    <3>2. parent'.status = "RUNNING" /\ parent'.planned = parent.planned
      BY <1>1, <3>1 DEF TypeOK, ParentRecords
    <3>. QED
      BY <2>1, <3>1, <3>2 DEF ParentChange, Statuses
  <2>2. CASE WaitCancelled(r) \/ WaitFails(r) \/ StartRefused(r)
    BY <1>1, <2>2, AbortParent DEF WaitCancelled, WaitFails, StartRefused
  <2>. QED
    BY <1>5, <2>1, <2>2 DEF Waits, AcquireLease, records
<1>6. ASSUME NEW r \in Runs, Works(r) \/ Progress(r), parent' # parent
      PROVE  ParentChange
  <2>1. CASE ListArtifacts(r)
    <3>1. clone' = clone /\ parent' = [parent EXCEPT !.artifacts = Verified]
      BY <2>1 DEF ListArtifacts, SaveParent
    <3>2. /\ parent'.status = parent.status /\ parent'.planned = parent.planned
          /\ parent'.artifacts = Verified
      <4>. DEFINE all == Verified
      <4>. HIDE DEF all
      <4>1. LET q == [parent EXCEPT !.artifacts = all]
            IN q.status = parent.status /\ q.planned = parent.planned /\ q.artifacts = all
        BY <1>1 DEF ParentRecords, TypeOK
      <4>. QED
        BY <3>1, <4>1 DEF all
    <3>. QED
      BY <3>1, <3>2 DEF ParentChange
  <2>2. CASE Abort(r, FALSE)
    BY <1>1, <2>2, AbortParent
  <2>3. CASE FinishRun(r) /\ ~Abort(r, FALSE)
    <3>1. /\ Legal(parent.status, Verdict) /\ parent'.status = Verdict /\ parent'.artifacts = Verified
          /\ parent'.planned = parent.planned /\ clone' = clone
          /\ Verdict \in {"CANCELLED", "COMPLETED", "PARTIAL", "FAILED"}
          /\ Verdict = "COMPLETED" => Verified = Children
      BY <1>1, <2>3, FinishDoes
    <3>2. parent.status \in Statuses \ TERMINAL
      BY <3>1, LegalSteps
    <3>. QED
      BY <3>1, <3>2 DEF ParentChange, Statuses, TERMINAL
  <2>. QED
    BY <1>6, <2>1, <2>2, <2>3, StartChildDoes DEF Works, ChildEnds, Progress
<1>7. ASSUME NEW a \in Actors, Sweeps(a) PROVE parent' = parent
  BY <1>7 DEF Sweeps, SweepChild, SweepDone, records
<1>8. ASSUME NEW k \in Cancellers, Cancel(k), parent' # parent
      PROVE  ParentChange
  <2>1. /\ parent' = [parent EXCEPT !.status = "CANCELLED"] /\ clone' = clone
        /\ parent.status \in {"QUEUED", "RUNNING"}
    BY <1>8 DEF Cancel, SaveParent
  <2>2. parent'.status = "CANCELLED" /\ parent'.planned = parent.planned
    BY <1>1, <2>1 DEF TypeOK, ParentRecords
  <2>. QED
    BY <2>1, <2>2 DEF ParentChange, Statuses, TERMINAL
<1>9. CASE World /\ parent' # parent
  <2>1. CASE BindWrite
    BY <1>1, <2>1, BindWriteDoes DEF ParentChange, BindWrite, PlanInv, CloneAgrees
  <2>2. CASE RecoverStale
    <3>1. parent.status \in Statuses \cup {Missing}
      BY <1>1 DEF TypeOK, ParentRecords, OnDisk
    <3>. QED
      BY <1>1, <2>2, <3>1, RecoverDoes DEF ParentChange, Statuses, TERMINAL
  <2>. QED
    BY <1>9, <2>1, <2>2 DEF World, Binding, BindRead, BindFails, Crash, Age, records
<1>. QED
  BY <1>2, <1>3, <1>4, <1>5, <1>6, <1>7, <1>8, <1>9 DEF Next, World, Binding, vars, records

\* What becomes of a child, and on whose account.
ChildChange ==
  \A i \in Children : child'[i] # child[i] =>
    \/ ~parent.planned /\ child'[i] = "QUEUED"
    \/ child[i] \in Reopenable /\ child'[i] = "QUEUED"
    \/ child[i] \notin TERMINAL /\ child'[i] \in {"CANCELLED", "FAILED"}
    \/ \E r \in Runs :
         /\ pc[r] = "working" /\ at[r] = i
         /\ \/ child'[i] = "RUNNING" /\ UNCHANGED <<pc, at>>
            \/ /\ child'[i] \in {"COMPLETED", "FAILED", "TIMED_OUT"}
               /\ pc'[r] = "listing" /\ parent' = parent
    \/ \E r \in Runs :
         /\ pc[r] = "looping" /\ ~marker /\ child[i] = "QUEUED"
         /\ child'[i] = "RUNNING" /\ pc'[r] = "working" /\ at'[r] = i

\* Where the invocations come to that have to do with children that run.
Engages == {"waiting", "leased"} \cup Working

PlaceChange ==
  \A r \in Runs :
    /\ pc'[r] = "working" =>
         \/ pc[r] = "working" /\ at'[r] = at[r]
         \/ at'[r] \in Children /\ child'[at'[r]] = "RUNNING"
    /\ pc[r] = "working" =>
         \/ pc'[r] = "working" /\ at'[r] = at[r]
         \/ child'[at[r]] \in {"COMPLETED", "FAILED", "TIMED_OUT"}
         \/ \A q \in Runs : pc'[q] \notin Live
    /\ pc'[r] \in Engages =>
         \/ pc[r] \in Engages
         \/ pc[r] = "planning" /\ ~parent.planned
         \/ pc[r] = "reopening" /\ AtEnd(r)
    /\ pc'[r] = "reopening" =>
         \/ at'[r] = 0
         \/ pc[r] = "reopening" /\ at'[r] = at[r]
         \/ \E i \in Children :
              /\ pc[r] = "reopening" /\ ComesTo(r, i)
              /\ at'[r] = i /\ child[i] \in TERMINAL

\* A step of one that has no child at work, nor takes one.
LEMMA Bystander ==
  ASSUME NEW a \in Actors, \A b \in Actors \ {a} : pc'[b] = pc[b] /\ at'[b] = at[b],
         pc[a] # "working", pc'[a] \notin Engages \cup {"reopening"}
  PROVE  PlaceChange
BY DEF PlaceChange, Actors, Engages, Working

LEMMA AbortChild ==
  ASSUME TypeOK, NEW r \in Runs, pc[r] # "working", NEW cancelled \in BOOLEAN, Abort(r, cancelled)
  PROVE  ChildChange /\ PlaceChange
<1>1. /\ child' = child /\ From(r, 0)
      /\ Goto(r, "done") \/ Goto(r, "sweeping")
  BY AbortDoes
<1>2. /\ pc'[r] \in {"done", "sweeping"} /\ r \in Actors
      /\ \A b \in Actors \ {r} : pc'[b] = pc[b] /\ at'[b] = at[b]
  BY <1>1 DEF TypeOK, Goto, From, Actors
<1>. QED
  BY <1>1, <1>2, Bystander DEF ChildChange, Engages, Working

LEMMA ChildCreators ==
  ASSUME TypeInv, PlanInv, NEW c \in Creators, Creates(c) \/ PlanFails(c)
  PROVE  ChildChange /\ PlaceChange
<1>1. TypeOK /\ c \in Actors /\ c \in Runs
  BY DEF TypeInv, Actors, Runs
<1>2. CASE CheckPrior(c)
  BY <1>1, <1>2, Bystander DEF CheckPrior, records, Goto, TypeOK, ChildChange, Engages, Working
<1>3. CASE Claim(c)
  <2>1. /\ child' = child /\ pc[c] = "capturing" /\ pc'[c] \in {"done", "planning"}
        /\ \A b \in Actors \ {c} : pc'[b] = pc[b] /\ at'[b] = at[b]
    BY <1>1, <1>3 DEF Claim, Goto, From, TypeOK
  <2>. QED
    BY <1>1, <2>1, Bystander DEF ChildChange, Engages, Working
<1>4. CASE PlanChild(c)
  <2>1. PICK i \in Children : SaveChild(i, "QUEUED") /\ From(c, i)
    BY <1>4 DEF PlanChild
  <2>2. pc' = pc /\ pc[c] = "planning" /\ ~parent.planned
    BY <1>1, <1>4 DEF PlanChild, PlanInv, PlansAlone
  <2>3. \A b \in Actors \ {c} : pc'[b] = pc[b] /\ at'[b] = at[b]
    BY <1>1, <2>1, <2>2 DEF From, TypeOK
  <2>4. ChildChange
    BY <1>1, <2>1, <2>2 DEF SaveChild, ChildChange, TypeOK
  <2>. QED
    BY <1>1, <2>2, <2>3, <2>4, Bystander DEF Engages, Working
<1>5. CASE PlanParent(c)
  <2>1. /\ UNCHANGED <<child, at>> /\ pc[c] = "planning" /\ pc'[c] = "waiting" /\ ~parent.planned
        /\ \A b \in Actors \ {c} : pc'[b] = pc[b]
    BY <1>1, <1>5 DEF PlanParent, Goto, TypeOK, PlanInv, PlansAlone
  <2>. QED
    BY <1>1, <2>1 DEF ChildChange, PlaceChange, Actors
<1>6. CASE PlanFails(c)
  BY <1>1, <1>6, Bystander DEF PlanFails, Goto, TypeOK, ChildChange, Engages, Working
<1>. QED
  BY <1>2, <1>3, <1>4, <1>5, <1>6 DEF Creates

LEMMA ChildResumers ==
  ASSUME TypeInv, PlanInv, NEW r \in Resumers, Resumes(r)
  PROVE  ChildChange /\ PlaceChange
<1>1. TypeOK /\ r \in Actors /\ r \in Runs
  BY DEF TypeInv, Actors, Runs
<1>2. CASE Resume(r)
  <2>1. /\ child' = child /\ pc[r] = "new" /\ at'[r] = 0 /\ pc'[r] \in {"done", "reopening"}
        /\ \A b \in Actors \ {r} : pc'[b] = pc[b] /\ at'[b] = at[b]
    BY <1>1, <1>2, BatchAssumption DEF Resume, records, Goto, From, TypeOK
  <2>. QED
    BY <1>1, <2>1 DEF ChildChange, PlaceChange, Engages, Working, Actors
<1>3. CASE ReopenChild(r)
  <2>1. PICK i \in Children :
          /\ ComesTo(r, i) /\ From(r, i)
          /\ \/ child[i] = "COMPLETED" /\ UNCHANGED <<child, old, pc>>
             \/ child[i] \in Reopenable /\ SaveChild(i, "QUEUED") /\ UNCHANGED pc
             \/ child[i] \notin TERMINAL /\ Goto(r, "done") /\ UNCHANGED <<child, old>>
    BY <1>3, ReopenChildDoes
  <2>2. /\ pc[r] = "reopening" /\ at'[r] = i
        /\ \A b \in Actors \ {r} : pc'[b] = pc[b] /\ at'[b] = at[b]
    BY <1>1, <1>3, <2>1 DEF ReopenChild, Goto, From, TypeOK, Children
  <2>3. ChildChange
    BY <1>1, <2>1 DEF SaveChild, ChildChange, TypeOK
  <2>4. \/ pc'[r] = "done"
        \/ pc'[r] = "reopening" /\ child[i] \in TERMINAL
    BY <1>1, <2>1, <2>2 DEF Goto, TypeOK, Reopenable, TERMINAL
  <2>. QED
    BY <1>1, <2>1, <2>2, <2>3, <2>4 DEF PlaceChange, Engages, Working, Actors
<1>4. CASE ReopenParent(r)
  <2>1. /\ UNCHANGED <<child, at>> /\ pc[r] = "reopening" /\ AtEnd(r) /\ pc'[r] \in {"waiting", "done"}
        /\ \A b \in Actors \ {r} : pc'[b] = pc[b]
    BY <1>1, <1>4 DEF ReopenParent, Goto, TypeOK
  <2>. QED
    BY <1>1, <2>1 DEF ChildChange, PlaceChange, Actors
<1>. QED
  BY <1>2, <1>3, <1>4 DEF Resumes

LEMMA ChildRuns ==
  ASSUME TypeInv, PlanInv, WorksUndone, NEW r \in Runs,
         Waits(r) \/ WaitFails(r) \/ Works(r) \/ Progress(r)
  PROVE  ChildChange /\ PlaceChange
<1>1. TypeOK /\ r \in Actors /\ FALSE \in BOOLEAN /\ TRUE \in BOOLEAN /\ marker \in BOOLEAN
  BY DEF TypeInv, TypeOK, Actors
<1>2. CASE WaitCancelled(r) \/ WaitFails(r) \/ StartRefused(r)
  BY <1>1, <1>2, AbortChild DEF WaitCancelled, WaitFails, StartRefused
<1>3. CASE AcquireLease(r) \/ StartRun(r)
  <2>1. /\ child' = child /\ pc[r] \in {"waiting", "leased"} /\ pc'[r] \in {"leased", "looping"}
        /\ \A b \in Actors \ {r} : pc'[b] = pc[b] /\ at'[b] = at[b]
    BY <1>1, <1>3 DEF AcquireLease, StartRun, records, Goto, From, TypeOK
  <2>. QED
    BY <1>1, <2>1 DEF ChildChange, PlaceChange, Engages, Actors
<1>4. CASE StartChild(r)
  <2>0. pc[r] = "looping" /\ ~marker
    BY <1>4 DEF StartChild
  <2>1. CASE Abort(r, FALSE)
    BY <1>1, <2>0, <2>1, AbortChild
  <2>2. CASE ~Abort(r, FALSE)
    <3>1. PICK i \in Children :
            Goto(r, "working") /\ child[i] = "QUEUED" /\ SaveChild(i, "RUNNING") /\ From(r, i)
      BY <1>4, <2>2, StartChildDoes DEF Unverified
    <3>2. /\ pc'[r] = "working" /\ at'[r] = i /\ child'[i] = "RUNNING"
          /\ \A j \in Children \ {i} : child'[j] = child[j]
          /\ \A b \in Actors \ {r} : pc'[b] = pc[b] /\ at'[b] = at[b]
      BY <1>1, <3>1 DEF Goto, From, SaveChild, TypeOK, Children
    <3>3. ChildChange
      BY <2>0, <3>1, <3>2 DEF ChildChange
    <3>. QED
      BY <1>1, <2>0, <3>2, <3>3 DEF PlaceChange, Engages, Working, Actors
  <2>. QED
    BY <2>1, <2>2
<1>5. CASE ChildEnds(r)
  <2>1. /\ pc[r] = "working" /\ at[r] \in Children /\ pc'[r] = "listing" /\ at' = at
        /\ child'[at[r]] \in {"COMPLETED", "FAILED", "TIMED_OUT"} /\ parent' = parent
        /\ \A j \in Children \ {at[r]} : child'[j] = child[j]
        /\ \A b \in Actors \ {r} : pc'[b] = pc[b]
    BY <1>1, <1>5 DEF ChildEnds, WorksUndone, SaveChild, Goto, TypeOK
  <2>2. ChildChange
    BY <1>1, <2>1 DEF ChildChange
  <2>. QED
    BY <1>1, <2>1, <2>2 DEF PlaceChange, Engages, Working, Actors
<1>6. CASE ListArtifacts(r)
  <2>1. /\ child' = child /\ pc[r] = "listing" /\ pc'[r] = "looping" /\ at' = at
        /\ \A b \in Actors \ {r} : pc'[b] = pc[b]
    BY <1>1, <1>6 DEF ListArtifacts, Goto, TypeOK
  <2>. QED
    BY <1>1, <2>1 DEF ChildChange, PlaceChange, Engages, Working, Actors
<1>7. CASE FinishRun(r)
  <2>0. pc[r] = "looping"
    BY <1>7 DEF FinishRun
  <2>1. CASE Abort(r, FALSE)
    BY <1>1, <2>0, <2>1, AbortChild
  <2>2. CASE ~Abort(r, FALSE)
    <3>1. child' = child /\ From(r, 0) /\ (Goto(r, "sweeping") \/ Goto(r, "done"))
      BY <1>1, <1>7, <2>2, FinishDoes
    <3>2. /\ pc'[r] \in {"sweeping", "done"}
          /\ \A b \in Actors \ {r} : pc'[b] = pc[b] /\ at'[b] = at[b]
      BY <1>1, <3>1 DEF Goto, From, TypeOK
    <3>. QED
      BY <1>1, <2>0, <3>1, <3>2, Bystander DEF ChildChange, Engages, Working
  <2>. QED
    BY <2>1, <2>2
<1>8. CASE Progress(r)
  <2>1. /\ pc[r] = "working" /\ at[r] \in Children /\ UNCHANGED <<pc, at>>
        /\ child'[at[r]] = "RUNNING"
        /\ \A j \in Children \ {at[r]} : child'[j] = child[j]
    BY <1>1, <1>8 DEF Progress, WorksUndone, SaveChild, TypeOK
  <2>. QED
    BY <1>1, <2>1 DEF ChildChange, PlaceChange
<1>. QED
  BY <1>2, <1>3, <1>4, <1>5, <1>6, <1>7, <1>8 DEF Waits, Works

LEMMA ChildOthers ==
  ASSUME TypeInv,
         \/ \E a \in Actors : Sweeps(a)
         \/ \E k \in Cancellers : Cancel(k)
         \/ World
  PROVE  ChildChange /\ PlaceChange
<1>1. TypeOK
  BY DEF TypeInv
<1>2. ASSUME NEW a \in Actors, SweepChild(a) PROVE ChildChange /\ PlaceChange
  <2>1. PICK i \in Children :
          /\ From(a, i)
          /\ \/ child' = child
             \/ child[i] \notin TERMINAL /\ SaveChild(i, "CANCELLED")
    BY <1>2 DEF SweepChild
  <2>2. ChildChange
    BY <1>1, <2>1 DEF ChildChange, SaveChild, TypeOK
  <2>3. pc' = pc /\ pc[a] = "sweeping" /\ \A b \in Actors \ {a} : at'[b] = at[b]
    BY <1>1, <1>2, <2>1 DEF SweepChild, From, TypeOK
  <2>. QED
    BY <2>2, <2>3, Bystander DEF Engages, Working
<1>3. ASSUME NEW a \in Actors, SweepDone(a) PROVE ChildChange /\ PlaceChange
  <2>1. /\ child' = child /\ pc[a] = "sweeping" /\ pc'[a] = "done"
        /\ \A b \in Actors \ {a} : pc'[b] = pc[b] /\ at'[b] = at[b]
    BY <1>1, <1>3 DEF SweepDone, records, Goto, From, TypeOK
  <2>. QED
    BY <2>1, Bystander DEF ChildChange, Engages, Working
<1>4. ASSUME NEW k \in Cancellers, Cancel(k) PROVE ChildChange /\ PlaceChange
  <2>1. /\ child' = child /\ pc[k] = "new" /\ pc'[k] \in {"done", "sweeping"} /\ at' = at
        /\ k \in Actors /\ \A b \in Actors \ {k} : pc'[b] = pc[b]
    BY <1>1, <1>4 DEF Cancel, Goto, TypeOK, Actors
  <2>. QED
    BY <2>1, Bystander DEF ChildChange, Engages, Working
<1>5. CASE Binding \/ Age
  BY <1>5 DEF Binding, BindRead, BindWrite, BindFails, Age, records, ChildChange, PlaceChange
<1>6. CASE Crash
  <2>1. child' = child /\ \A a \in Actors : pc'[a] \notin Live
    BY <1>1, <1>6 DEF Crash, records, Live, Working
  <2>. QED
    BY <2>1 DEF ChildChange, PlaceChange, Engages, Live, Working, Actors
<1>7. CASE RecoverStale
  <2>1. /\ UNCHANGED <<pc, at>>
        /\ \A i \in Children :
             child'[i] = child[i] \/ (child[i] \notin TERMINAL /\ child'[i] = "FAILED")
    BY <1>1, <1>7, RecoverDoes
  <2>. QED
    BY <2>1 DEF ChildChange, PlaceChange
<1>. QED
  BY <1>2, <1>3, <1>4, <1>5, <1>6, <1>7 DEF Sweeps, World

LEMMA ChildSteps ==
  ASSUME TypeInv, PlanInv, WorksUndone, [Next]_vars
  PROVE  ChildChange /\ PlaceChange
<1>1. CASE UNCHANGED vars
  BY <1>1 DEF vars, records, ChildChange, PlaceChange
<1>2. CASE Next
  BY <1>2, ChildCreators, ChildResumers, ChildRuns, ChildOthers DEF Next, World, Binding
<1>. QED
  BY <1>1, <1>2

-----------------------------------------------------------------------------
(* The work.                                                               *)

LEMMA VerifiedStep ==
  ASSUME TypeInv, PlanInv, WorksUndone, [Next]_vars
  PROVE  \A i \in Children : child[i] = "COMPLETED" => child'[i] = "COMPLETED"
<1>1. SUFFICES ASSUME NEW i \in Children, child[i] = "COMPLETED", child'[i] # child[i]
               PROVE  FALSE
  OBVIOUS
<1>2. parent.planned
  BY <1>1 DEF PlanInv, Unplanned
<1>3. \A r \in Runs : pc[r] = "working" => at[r] # i
  BY <1>1 DEF WorksUndone
<1>. QED
  BY <1>1, <1>2, <1>3, ChildSteps DEF ChildChange, Reopenable, TERMINAL

LEMMA UndoneStep ==
  ASSUME TypeInv, PlanInv, WorksUndone, [Next]_vars
  PROVE  WorksUndone'
<1>1. SUFFICES ASSUME NEW r \in Runs, pc'[r] = "working"
               PROVE  at'[r] \in Children /\ child'[at'[r]] # "COMPLETED"
  BY DEF WorksUndone, Children
<1>2. CASE at'[r] \in Children /\ child'[at'[r]] = "RUNNING"
  BY <1>2
<1>3. CASE pc[r] = "working" /\ at'[r] = at[r]
  <2>1. at[r] \in Children /\ child[at[r]] # "COMPLETED"
    BY <1>3 DEF WorksUndone
  <2>2. ASSUME child'[at[r]] = "COMPLETED" PROVE FALSE
    <3>1. PICK q \in Runs : pc[q] = "working" /\ pc'[q] = "listing"
      BY <2>1, <2>2, ChildSteps DEF ChildChange
    <3>2. q = r
      BY <1>3, <3>1 DEF PlanInv, LeaseHeld, Working
    <3>. QED
      BY <1>1, <3>1, <3>2
  <2>. QED
    BY <1>3, <2>1, <2>2
<1>. QED
  BY <1>1, <1>2, <1>3, ChildSteps DEF PlaceChange

LEMMA WholeStep ==
  ASSUME TypeInv, PlanInv, WorksUndone, Whole, [Next]_vars
  PROVE  Whole'
<1>1. ParentChange
  BY ParentSteps
<1>2. parent.planned => Verified \subseteq Verified'
  BY <1>1, VerifiedStep DEF ParentChange, Verified
<1>3. Verified = Children => Verified' = Children
  <2>1. Children # {}
    BY BatchAssumption DEF Children
  <2>2. Verified = Children => parent.planned
    BY <2>1 DEF Verified
  <2>. QED
    BY <1>2, <2>2 DEF Verified, Children
<1>4. CompletedIsWhole'
  <2>1. SUFFICES ASSUME parent'.status = "COMPLETED"
                 PROVE  Verified' = Children /\ parent'.artifacts = Children
    BY DEF CompletedIsWhole, Children
  <2>2. CASE parent.status = "COMPLETED" /\ parent'.artifacts \in {parent.artifacts, Verified}
    BY <1>3, <2>2 DEF Whole, CompletedIsWhole
  <2>3. CASE Verified = Children /\ parent'.artifacts = Verified
    BY <1>3, <2>3
  <2>4. CASE clone.status = "COMPLETED" /\ parent'.artifacts = clone.artifacts
    BY <1>3, <2>4 DEF Whole
  <2>. QED
    BY <1>1, <2>1, <2>2, <2>3, <2>4 DEF ParentChange
<1>5. clone'.status = "COMPLETED" => Verified' = Children /\ clone'.artifacts = Children
  BY <1>1, <1>3 DEF ParentChange, Whole, CompletedIsWhole, NoParent, Missing
<1>. QED
  BY <1>4, <1>5 DEF Whole, Children

\* A child that came to be RUNNING is the holder's; one that was has its worker, or
\* nobody comes near it.
LEMMA RunningSteps ==
  ASSUME TypeInv, PlanInv, WorksUndone, [Next]_vars, NEW i \in Children, child'[i] = "RUNNING"
  PROVE  \/ child[i] = "RUNNING"
         \/ \E r \in Runs :
              /\ pc[r] \in {"looping", "working"} /\ pc'[r] = "working" /\ at'[r] = i
              /\ pc[r] = "working" => at[r] = i
BY ChildSteps DEF ChildChange

LEMMA SerializedStep ==
  ASSUME TypeInv, PlanInv, WorksUndone, ChildrenSerialized, OrphansAlone, [Next]_vars
  PROVE  ChildrenSerialized'
<1>1. ASSUME NEW i \in Children, NEW j \in Children, i # j, child[j] = "RUNNING",
             NEW r \in Runs, pc[r] \in {"looping", "working"}, pc[r] = "working" => at[r] = i
      PROVE  FALSE
  <2>1. \A q \in Runs : pc[q] = "working" => q = r
    BY <1>1 DEF PlanInv, LeaseHeld, Working
  <2>2. ~Orphan(j)
    BY <1>1 DEF Orphan, Working
  <2>. QED
    BY <1>1, <2>1, <2>2 DEF OrphansAlone
<1>2. ASSUME NEW i \in Children, NEW j \in Children, i # j,
             NEW r \in Runs, pc[r] \in {"looping", "working"}, at'[r] = i,
             NEW q \in Runs, pc[q] \in {"looping", "working"}, at'[q] = j
      PROVE  FALSE
  BY <1>2 DEF PlanInv, LeaseHeld, Working
<1>3. ASSUME NEW i \in Children, NEW j \in Children, i # j,
             child'[i] = "RUNNING", child'[j] = "RUNNING"
      PROVE  FALSE
  <2>1. CASE child[i] = "RUNNING" /\ child[j] = "RUNNING"
    BY <1>3, <2>1 DEF ChildrenSerialized
  <2>2. CASE child[i] # "RUNNING" /\ child[j] = "RUNNING"
    BY <1>1, <1>3, <2>2, RunningSteps
  <2>3. CASE child[i] = "RUNNING" /\ child[j] # "RUNNING"
    BY <1>1, <1>3, <2>3, RunningSteps
  <2>4. CASE child[i] # "RUNNING" /\ child[j] # "RUNNING"
    <3>1. PICK r \in Runs : pc[r] \in {"looping", "working"} /\ at'[r] = i
      BY <1>3, <2>4, RunningSteps
    <3>2. PICK q \in Runs : pc[q] \in {"looping", "working"} /\ at'[q] = j
      BY <1>3, <2>4, RunningSteps
    <3>. QED
      BY <1>2, <1>3, <3>1, <3>2
  <2>. QED
    BY <2>1, <2>2, <2>3, <2>4
<1>. QED
  BY <1>3 DEF ChildrenSerialized, Children

LEMMA OrphansStep ==
  ASSUME TypeInv, PlanInv, WorksUndone, OrphansAlone, [Next]_vars
  PROVE  OrphansAlone'
<1>1. SUFFICES ASSUME NEW j \in Children, child'[j] = "RUNNING"
               PROVE  \/ Orphan(j)'
                      \/ \E r \in Runs : pc'[r] = "working" /\ at'[r] = j
  BY DEF OrphansAlone, Children
<1>2. CASE child[j] # "RUNNING"
  BY <1>1, <1>2, RunningSteps
<1>3. CASE child[j] = "RUNNING"
  <2>1. CASE \E r \in Runs : pc[r] = "working" /\ at[r] = j
    <3>1. PICK r \in Runs : pc[r] = "working" /\ at[r] = j
      BY <2>1
    <3>2. \/ pc'[r] = "working" /\ at'[r] = j
          \/ \A q \in Runs : pc'[q] \notin Live
      BY <1>1, <3>1, ChildSteps DEF PlaceChange
    <3>. QED
      BY <3>1, <3>2 DEF Orphan, Live
  <2>2. CASE Orphan(j)
    <3>1. ASSUME NEW r \in Runs, pc'[r] \in Engages PROVE FALSE
      <4>1. /\ pc[r] \notin Engages
            /\ pc[r] = "reopening" => at[r] < j
            /\ parent.planned
        BY <1>3, <2>2 DEF Orphan, Engages, PlanInv, Unplanned
      <4>2. pc[r] = "reopening" /\ at[r] = N
        BY <3>1, <4>1, ChildSteps DEF PlaceChange, AtEnd
      <4>. QED
        BY <4>1, <4>2, BatchAssumption DEF Children
    <3>2. ASSUME NEW r \in Runs, pc'[r] = "reopening" PROVE at'[r] < j
      <4>1. pc[r] = "reopening" => at[r] < j
        BY <2>2 DEF Orphan
      <4>2. at[r] \in 0 .. N
        BY DEF TypeInv, TypeOK, Actors
      <4>3. CASE at'[r] = 0
        BY <4>3, BatchAssumption DEF Children
      <4>4. CASE pc[r] = "reopening" /\ at'[r] = at[r]
        BY <4>1, <4>4
      <4>5. CASE \E i \in Children : /\ pc[r] = "reopening" /\ ComesTo(r, i)
                                     /\ at'[r] = i /\ child[i] \in TERMINAL
        <5>1. PICK i \in Children : /\ pc[r] = "reopening" /\ ComesTo(r, i)
                                    /\ at'[r] = i /\ child[i] \in TERMINAL
          BY <4>5
        <5>2. i = at[r] + 1 /\ i # j
          BY <1>3, <5>1 DEF ComesTo, TERMINAL
        <5>. QED
          BY <4>1, <4>2, <5>1, <5>2, BatchAssumption DEF Children
      <4>. QED
        BY <3>2, <4>3, <4>4, <4>5, ChildSteps DEF PlaceChange
    <3>. QED
      BY <3>1, <3>2 DEF Orphan, Engages
  <2>. QED
    BY <1>3, <2>1, <2>2 DEF OrphansAlone
<1>. QED
  BY <1>2, <1>3

LEMMA CrashSteps ==
  ASSUME TypeOK, [Next]_vars
  PROVE  crashes' = crashes \/ Crash
<1>1. FALSE \in BOOLEAN /\ TRUE \in BOOLEAN /\ marker \in BOOLEAN
  BY DEF TypeOK
<1>2. CASE UNCHANGED vars \/ World
  BY <1>2 DEF vars, World, Binding, BindRead, BindWrite, BindFails, Age, RecoverStale
<1>3. ASSUME NEW c \in Creators, Creates(c) \/ PlanFails(c) PROVE crashes' = crashes
  BY <1>3 DEF Creates, CheckPrior, Claim, PlanChild, PlanParent, PlanFails
<1>4. ASSUME NEW r \in Resumers, Resumes(r) PROVE crashes' = crashes
  BY <1>4 DEF Resumes, Resume, ReopenChild, ReopenParent
<1>5. ASSUME NEW r \in Runs, Waits(r) \/ WaitFails(r) \/ Works(r) \/ Progress(r)
      PROVE  crashes' = crashes
  <2>1. ASSUME NEW cancelled \in BOOLEAN, Abort(r, cancelled) PROVE crashes' = crashes
    BY <2>1 DEF Abort
  <2>2. CASE Waits(r) \/ WaitFails(r) \/ Progress(r)
    BY <1>1, <2>1, <2>2
       DEF Waits, WaitFails, WaitCancelled, AcquireLease, StartRun, StartRefused, Progress
  <2>3. CASE Works(r)
    BY <1>1, <2>1, <2>3, StartChildDoes, FinishDoes DEF Works, ChildEnds, ListArtifacts
  <2>. QED
    BY <1>5, <2>2, <2>3
<1>6. ASSUME NEW a \in Actors, Sweeps(a) PROVE crashes' = crashes
  BY <1>6 DEF Sweeps, SweepChild, SweepDone
<1>7. ASSUME NEW k \in Cancellers, Cancel(k) PROVE crashes' = crashes
  BY <1>7 DEF Cancel
<1>. QED
  BY <1>2, <1>3, <1>4, <1>5, <1>6, <1>7 DEF Next, World, Binding

LEMMA RunStep ==
  ASSUME TypeInv, PlanInv, RunsUncrashed, [Next]_vars, crashes' = 0, parent'.status = "RUNNING"
  PROVE  holder' # Nobody /\ pc'[holder'] \in Working
<1>1. TypeOK /\ crashes \in Nat /\ FALSE \in BOOLEAN /\ TRUE \in BOOLEAN /\ marker \in BOOLEAN
  BY BatchAssumption DEF TypeInv, TypeOK
<1>2. \A r \in Runs : r # Nobody /\ r \in Actors
  BY BatchAssumption DEF Actors
<1>3. CASE \E r \in Runs : StartRun(r)
  <2>1. PICK r \in Runs : StartRun(r)
    BY <1>3
  <2>2. holder' = holder /\ holder = r /\ pc'[r] = "looping"
    BY <1>1, <1>2, <2>1 DEF StartRun, lane, Goto, TypeOK, PlanInv, LeaseHeld
  <2>. QED
    BY <1>2, <2>2 DEF Working
<1>4. CASE parent.status = "RUNNING" /\ ~\E r \in Runs : StartRun(r)
  <2>1. ASSUME NEW r \in Runs, NEW cancelled \in BOOLEAN, Abort(r, cancelled) PROVE FALSE
    BY <1>1, <1>4, <2>1, AbortDoes
  <2>2. ~Crash /\ crashes = 0
    BY <1>1, CrashSteps DEF Crash
  <2>3. holder # Nobody /\ holder \in Runs /\ pc[holder] \in Working
    BY <1>1, <1>4, <2>2 DEF RunsUncrashed, RunningIsRun, TypeOK
  <2>4. SUFFICES holder' = holder /\ pc'[holder] \in Working
    BY <2>3
  <2>5. ASSUME NEW a \in Actors, a # holder, NEW place, Goto(a, place) \/ UNCHANGED pc
        PROVE  pc'[holder] \in Working
    BY <1>1, <2>3, <2>5 DEF Goto, TypeOK, Actors
  <2>6. CASE UNCHANGED vars
    BY <2>3, <2>6 DEF vars, lane
  <2>7. ASSUME NEW c \in Creators, Creates(c) \/ PlanFails(c)
        PROVE  holder' = holder /\ pc'[holder] \in Working
    <3>1. c # holder /\ c \in Actors
      BY <2>3, <2>7 DEF Creates, CheckPrior, Claim, PlanChild, PlanParent, PlanFails, Working, Actors, Runs
    <3>2. holder' = holder /\ \E place : Goto(c, place) \/ UNCHANGED pc
      BY <2>7 DEF Creates, CheckPrior, Claim, PlanChild, PlanParent, PlanFails, lane
    <3>. QED
      BY <2>5, <3>1, <3>2
  <2>8. ASSUME NEW r \in Resumers, Resumes(r)
        PROVE  holder' = holder /\ pc'[holder] \in Working
    <3>1. r # holder /\ r \in Actors
      BY <2>3, <2>8 DEF Resumes, Resume, ReopenChild, ReopenParent, Working, Actors, Runs
    <3>2. holder' = holder /\ \E place : Goto(r, place) \/ UNCHANGED pc
      BY <2>8, ReopenChildDoes DEF Resumes, Resume, ReopenChild, ReopenParent, lane
    <3>. QED
      BY <2>5, <3>1, <3>2
  <2>9. ASSUME NEW r \in Runs, Waits(r) \/ WaitFails(r) PROVE FALSE
    <3>1. ~AcquireLease(r)
      BY <2>3 DEF AcquireLease
    <3>. QED
      BY <1>1, <1>4, <2>1, <2>9, <3>1 DEF Waits, WaitCancelled, StartRefused, WaitFails
  <2>10. ASSUME NEW r \in Runs, Works(r) \/ Progress(r)
         PROVE  holder' = holder /\ pc'[holder] \in Working
    <3>1. holder = r
      BY <2>10 DEF Works, StartChild, ChildEnds, ListArtifacts, FinishRun, Progress, PlanInv, LeaseHeld,
                   Working
    <3>2. CASE StartChild(r) \/ ChildEnds(r) \/ ListArtifacts(r) \/ Progress(r)
      <4>1. /\ holder' = holder
            /\ \/ UNCHANGED pc
               \/ Goto(r, "working") \/ Goto(r, "listing") \/ Goto(r, "looping")
        BY <1>1, <2>1, <3>2, StartChildDoes DEF ChildEnds, ListArtifacts, Progress, lane
      <4>. QED
        BY <1>1, <1>2, <2>3, <3>1, <4>1 DEF Goto, TypeOK, Working
    <3>3. CASE FinishRun(r)
      BY <1>1, <2>1, <3>3, FinishDoes
    <3>. QED
      BY <2>10, <3>2, <3>3 DEF Works
  <2>11. ASSUME NEW a \in Actors, Sweeps(a)
         PROVE  holder' = holder /\ pc'[holder] \in Working
    <3>1. a # holder
      BY <2>3, <2>11 DEF Sweeps, SweepChild, SweepDone, Working
    <3>2. holder' = holder /\ \E place : Goto(a, place) \/ UNCHANGED pc
      BY <2>11, <3>1 DEF Sweeps, SweepChild, SweepDone, Free, lane
    <3>. QED
      BY <2>5, <3>1, <3>2
  <2>12. ASSUME NEW k \in Cancellers, Cancel(k)
         PROVE  holder' = holder /\ pc'[holder] \in Working
    <3>1. k # holder /\ k \in Actors
      BY <2>3, <2>12, BatchAssumption DEF Actors
    <3>2. holder' = holder /\ \E place : Goto(k, place) \/ UNCHANGED pc
      BY <2>12 DEF Cancel, lane
    <3>. QED
      BY <2>5, <3>1, <3>2
  <2>13. CASE World
    <3>1. ~RecoverStale
      BY <1>2, <2>3 DEF RecoverStale, Quiet, Live
    <3>2. UNCHANGED <<pc, lane>>
      BY <2>2, <2>13, <3>1 DEF World, Binding, BindRead, BindWrite, BindFails, Age
    <3>. QED
      BY <2>3, <3>2 DEF lane
  <2>. QED
    BY <2>6, <2>7, <2>8, <2>9, <2>10, <2>11, <2>12, <2>13 DEF Next, World, Binding
<1>. QED
  BY <1>3, <1>4, ParentSteps DEF ParentChange

-----------------------------------------------------------------------------
(* The inductive invariant.                                                *)

LEMMA InductiveInit == Init => IInv
<1>. SUFFICES ASSUME Init
              PROVE  IInv
  OBVIOUS
<1>1. TypeInv
  BY TypeInit
<1>2. PlanInv
  BY DEF Init, PlanInv, LeaseHeld, Unclaimed, PlansAlone, Unplanned, CloneAgrees, NoParent, Missing,
         Aside, Working, Actors, Runs
<1>3. WorkInv
  BY DEF Init, WorkInv, WorksUndone, Whole, CompletedIsWhole, ChildrenSerialized, OrphansAlone,
         RunsUncrashed, RunningIsRun, NoParent, Missing, Actors
<1>. QED
  BY <1>1, <1>2, <1>3 DEF IInv

LEMMA InductiveStep == IInv /\ [Next]_vars => IInv'
<1>. SUFFICES ASSUME IInv, [Next]_vars
              PROVE  IInv'
  OBVIOUS
<1>1. /\ TypeInv /\ PlanInv /\ WorksUndone /\ Whole /\ ChildrenSerialized /\ OrphansAlone
      /\ RunsUncrashed
  BY DEF IInv, WorkInv
<1>2. TypeInv' /\ PlanInv'
  BY <1>1, TypeStep, PlanStep
<1>3. RunsUncrashed'
  BY <1>1, RunStep DEF RunsUncrashed, RunningIsRun
<1>4. WorkInv'
  BY <1>1, <1>3, UndoneStep, WholeStep, SerializedStep, OrphansStep DEF WorkInv
<1>. QED
  BY <1>2, <1>4 DEF IInv

LEMMA Inductive == Spec => []IInv
BY InductiveInit, InductiveStep, PTL DEF Spec

-----------------------------------------------------------------------------
(* The theorems.                                                           *)

\* The records, the lane and the invocations stay what they are taken to be.
THEOREM TypesCorrect == Spec => []TypeOK
<1>1. IInv => TypeOK
  BY DEF IInv, TypeInv
<1>. QED
  BY <1>1, Inductive, PTL

\* A batch that says COMPLETED has an artifact of every image and lists it, whatever
\* cancelled, crashed, resumed or presented it before.
THEOREM CompletedWhole == Spec => []CompletedIsWhole
<1>1. IInv => CompletedIsWhole
  BY DEF IInv, WorkInv, Whole
<1>. QED
  BY <1>1, Inductive, PTL

\* Two children never run at a time, those a crash has left RUNNING included.
THEOREM Serialized == Spec => []ChildrenSerialized
<1>1. IInv => ChildrenSerialized
  BY DEF IInv, WorkInv
<1>. QED
  BY <1>1, Inductive, PTL

\* Nobody undoes a child that is verified.
THEOREM VerifiedStays == Spec => VerifiedKept
<1>1. IInv /\ [Next]_vars =>
        [\A i \in Children : child[i] = "COMPLETED" => child'[i] = "COMPLETED"]_vars
  BY VerifiedStep DEF IInv, WorkInv
<1>. QED
  BY <1>1, Inductive, PTL DEF Spec, VerifiedKept

\* No child starts while the marker asks the batch to stop.
THEOREM CancelsHonoured == Spec => CancelHonoured
<1>1. IInv /\ [Next]_vars =>
        [marker /\ marker' =>
           \A i \in Children : child[i] = "QUEUED" /\ child'[i] = "RUNNING" =>
             \E r \in Runs : pc[r] = "working" /\ at[r] = i]_vars
  BY ChildSteps DEF IInv, WorkInv, ChildChange
<1>. QED
  BY <1>1, Inductive, PTL DEF Spec, CancelHonoured

\* As long as no process dies, a RUNNING batch is run by the holder of the lease.
THEOREM RunningRun == ASSUME MaxCrashes = 0 PROVE Spec => []RunningIsRun
<1>1. IInv => RunningIsRun
  BY DEF IInv, WorkInv, RunsUncrashed, TypeInv, TypeOK
<1>. QED
  BY <1>1, Inductive, PTL

-----------------------------------------------------------------------------
(* Without a reconciler the batch implements BatchPromise.                 *)

Done == {i \in Children : child[i] = "COMPLETED"}

Unbound == IInv /\ (~Binds => clone = NoParent)

LEMMA AlwaysUnbound == Spec => []Unbound
<1>1. Init => Unbound
  BY InductiveInit DEF Unbound, Init
<1>2. Unbound /\ [Next]_vars => Unbound'
  BY InductiveStep, ParentSteps DEF Unbound, IInv, ParentChange
<1>. QED
  BY <1>1, <1>2, PTL DEF Spec

\* Only the end of a child's work adds to what is done, and it writes nothing else.
LEMMA DoneSteps ==
  ASSUME TypeInv, PlanInv, WorksUndone, [Next]_vars
  PROVE  \/ Done' = Done
         \/ \E i \in Children :
              /\ i \notin Done /\ Done' = Done \cup {i} /\ parent' = parent
              /\ \E r \in Runs : pc[r] = "working"
<1>1. Done \subseteq Done'
  BY VerifiedStep DEF Done, Children
<1>2. ASSUME NEW i \in Done' \ Done
      PROVE  \E r \in Runs : pc[r] = "working" /\ at[r] = i /\ parent' = parent
  BY <1>2, ChildSteps DEF ChildChange, Done, Children
<1>3. CASE Done' \subseteq Done
  BY <1>1, <1>3
<1>4. CASE ~(Done' \subseteq Done)
  <2>1. PICK i \in Done' \ Done : TRUE
    BY <1>4
  <2>2. PICK r \in Runs : pc[r] = "working" /\ at[r] = i /\ parent' = parent
    BY <1>2, <2>1
  <2>3. ASSUME NEW j \in Done' \ Done PROVE j = i
    <3>1. PICK q \in Runs : pc[q] = "working" /\ at[q] = j
      BY <1>2, <2>3
    <3>2. q = r
      BY <2>2, <3>1 DEF PlanInv, LeaseHeld, Working
    <3>. QED
      BY <2>2, <3>1, <3>2
  <2>4. Done' = Done \cup {i}
    BY <1>1, <2>1, <2>3
  <2>5. i \in Children /\ i \notin Done
    BY <2>1 DEF Done, Children
  <2>. QED
    BY <2>2, <2>4, <2>5
<1>. QED
  BY <1>3, <1>4

LEMMA Phases ==
  /\ parent.status = Missing => Phase = "none"
  /\ parent.status = "COMPLETED" => Phase = "completed"
  /\ parent.status \in Reopenable => Phase = "stopped"
  /\ parent.status \in Statuses \ TERMINAL => Phase = "open"
<1>. USE DEF Phase, Missing, Reopenable, Statuses, TERMINAL
<1>1. parent.status = Missing => Phase = "none"
  OBVIOUS
<1>2. parent.status = "COMPLETED" => Phase = "completed"
  OBVIOUS
<1>3. parent.status \in Reopenable => Phase = "stopped"
  OBVIOUS
<1>4. parent.status \in Statuses \ TERMINAL => Phase = "open"
  OBVIOUS
<1>. QED
  BY <1>1, <1>2, <1>3, <1>4

LEMMA PhasesAfter ==
  /\ parent'.status = "COMPLETED" => Phase' = "completed"
  /\ parent'.status \in Reopenable => Phase' = "stopped"
  /\ parent'.status \in Statuses \ TERMINAL => Phase' = "open"
<1>. USE DEF Phase, Missing, Reopenable, Statuses, TERMINAL
<1>1. parent'.status = "COMPLETED" => Phase' = "completed"
  OBVIOUS
<1>2. parent'.status \in Reopenable => Phase' = "stopped"
  OBVIOUS
<1>3. parent'.status \in Statuses \ TERMINAL => Phase' = "open"
  OBVIOUS
<1>. QED
  BY <1>1, <1>2, <1>3

LEMMA PromiseInit == Init => Promise!Init
<1>. SUFFICES ASSUME Init
              PROVE  Promise!Init
  OBVIOUS
<1>1. Phase = "none"
  BY Phases DEF Init, NoParent
<1>2. \A i \in Children : child[i] # "COMPLETED"
  BY DEF Init, Missing
<1>. QED
  BY <1>1, <1>2 DEF Promise!Init

\* A child that ends its work is verified; the parent record asks, stops, reopens or
\* completes the batch, or stays in its phase.
LEMMA PromiseStep ==
  ASSUME IInv, clone = NoParent, [Next]_vars
  PROVE  Promise!Next \/ (Done' = Done /\ Phase' = Phase)
<1>1. /\ TypeInv /\ PlanInv /\ WorksUndone /\ CompletedIsWhole /\ ParentChange
      /\ parent.status \in Statuses \cup {Missing}
  BY ParentSteps DEF IInv, WorkInv, Whole, TypeInv, TypeOK, ParentRecords, OnDisk
<1>2. CASE Done' # Done
  <2>1. PICK i \in Children :
          /\ i \notin Done /\ Done' = Done \cup {i} /\ parent' = parent
          /\ \E r \in Runs : pc[r] = "working"
    BY <1>1, <1>2, DoneSteps
  <2>2. parent.status # Missing
    BY <1>1, <2>1, Engaged DEF TypeInv, Aside, Actors
  <2>3. parent.status # "COMPLETED"
    BY <1>1, <2>1 DEF CompletedIsWhole, Verified, Done
  <2>4. Phase \in {"open", "stopped"}
    BY <1>1, <2>2, <2>3, Phases DEF Reopenable
  <2>5. Phase' = Phase
    BY <2>1 DEF Phase
  <2>6. Promise!Verify(i)
    BY <2>1, <2>4, <2>5 DEF Promise!Verify, Done
  <2>. QED
    BY <2>6 DEF Promise!Next
<1>3. CASE Done' = Done /\ parent'.status = parent.status
  BY <1>3 DEF Phase
<1>4. CASE Done' = Done /\ parent.status = Missing /\ parent'.status = "CREATED"
  <2>1. Phase = "none" /\ Phase' = "open"
    BY <1>4, Phases, PhasesAfter DEF Statuses, TERMINAL
  <2>. QED
    BY <1>4, <2>1 DEF Promise!Next, Promise!Ask, Done
<1>5. CASE Done' = Done /\ parent.status \in Reopenable /\ parent'.status = "QUEUED"
  <2>1. Phase = "stopped" /\ Phase' = "open"
    BY <1>5, Phases, PhasesAfter DEF Statuses, TERMINAL
  <2>. QED
    BY <1>5, <2>1 DEF Promise!Next, Promise!Reopen, Done
<1>6. CASE /\ Done' = Done /\ parent.status \in Statuses \ TERMINAL
           /\ parent'.status \in Statuses \ {"COMPLETED"}
  <2>1. Phase = "open" /\ Phase' \in {"open", "stopped"}
    <3>1. parent'.status \in Statuses \ TERMINAL \/ parent'.status \in Reopenable
      BY <1>6 DEF Reopenable
    <3>. QED
      BY <1>6, <3>1, Phases, PhasesAfter
  <2>. QED
    BY <1>6, <2>1 DEF Promise!Next, Promise!Stop, Done
<1>7. CASE /\ Done' = Done /\ parent.status \in Statuses \ TERMINAL
           /\ parent'.status = "COMPLETED" /\ Verified = Children
  <2>1. Phase = "open" /\ Phase' = "completed"
    BY <1>7, Phases, PhasesAfter
  <2>2. Done = Children
    BY <1>7 DEF Verified, Done
  <2>. QED
    BY <1>7, <2>1, <2>2 DEF Promise!Next, Promise!Complete, Done
<1>. QED
  BY <1>1, <1>2, <1>3, <1>4, <1>5, <1>6, <1>7 DEF ParentChange

\* What the batch promises the conversation is kept for every interleaving of the
\* invocations, and every crash, as long as nobody binds it to a chat.
THEOREM PromiseIsKept == ASSUME ~Binds PROVE Spec => PromiseKept
<1>1. Unbound /\ [Next]_vars => [Promise!Next]_<<Done, Phase>>
  BY PromiseStep DEF Unbound
<1>. QED
  BY <1>1, PromiseInit, AlwaysUnbound, PTL DEF Spec, PromiseKept, Promise!Spec, Promise!vars, Done

\* Nothing but the reconciler takes the status COMPLETED away again.
THEOREM CompletedStays == ASSUME ~Binds PROVE Spec => CompletedIsFinal
<1>1. Unbound /\ [Next]_vars => [parent.status = "COMPLETED" => parent'.status = "COMPLETED"]_vars
  BY ParentSteps DEF Unbound, IInv, ParentChange, Missing, Reopenable, Statuses, TERMINAL
<1>. QED
  BY <1>1, AlwaysUnbound, PTL DEF Spec, CompletedIsFinal
=============================================================================
