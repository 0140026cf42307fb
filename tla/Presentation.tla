---------------------------- MODULE Presentation ----------------------------
(***************************************************************************)
(* How the image of a job comes into its chat: the live turn publishes the *)
(* result of its call (aagArtifactPresentation.js), and the reconciler of  *)
(* the same process publishes what nobody did (aagImageProgress.js), told  *)
(* of it by the watched index of the job files (job-index.js).  Both copy  *)
(* the picture under a reserved name (aagArtifactNaming.js), which a       *)
(* scheduled cleanup deletes when nothing refers to it.                    *)
(*                                                                         *)
(* An agent whose turn fails later writes its error into the row, over     *)
(* the card (aagComposerHistory.js).  The native models the reconciler     *)
(* reads with return nothing when the database fails.                      *)
(*                                                                         *)
(* show[a] is how far a is with the publication, which one of them works   *)
(* at at a time.  The chat row is there before any work begins.            *)
(***************************************************************************)
EXTENDS TaskRecovery

VARIABLES
  chat,        \* the row of the turn: without a card, or whose card it shows
  strange,     \* is it a row the reconciler cannot tell to be the turn's?
  picture,     \* the copy under its reserved name; "none": no name is reserved
  invocation,  \* is the invocation of the agent open?
  stamped,     \* does the job record say that it was presented?
  index,       \* has the index a change to see, or the job among its pending ones?
  retry,       \* is the job in the retry map, and why?
  letGo,       \* has the reconciler dropped the job because a read failed?
  over,        \* the calls whose agent has failed, or died with its process
  show,
  publisher    \* whose publication works

cardVars == <<chat, strange, picture, invocation, stamped, index, retry, letGo, over, show,
              publisher>>
allVars == <<vars, cardVars>>

rest == <<strange, letGo, over>>

Publishers == Turns \cup {R}
Shown == chat \in {"live", "recovered"}

CardTypeOK ==
  /\ chat \in {"pending", "live", "recovered"}
  /\ strange \in BOOLEAN /\ letGo \in BOOLEAN
  /\ over \in SUBSET Turns
  /\ picture \in {"none", "fresh", "aged", "deleted"}
  /\ invocation \in BOOLEAN /\ stamped \in BOOLEAN
  /\ index \in {"none", "changed", "pending"}
  /\ retry \in {"no", "grace", "error"}
  /\ show \in [Publishers -> {"idle", "queued", "binding", "drawn", "committed", "shown"}]
  /\ \A t \in Turns : show[t] \notin {"committed", "shown"}
  /\ publisher \in Publishers \cup {Nobody}

CardInit ==
  /\ chat = "pending"
  /\ strange = FALSE /\ letGo = FALSE
  /\ over = {}
  /\ picture = "none"
  /\ invocation = TRUE /\ stamped = FALSE
  /\ index = "none" /\ retry = "no"
  /\ show = [a \in Publishers |-> "idle"]
  /\ publisher = Nobody

-----------------------------------------------------------------------------
(* What a step of the task means for the chat.                             *)

\* A call that returns a completed result is published; the reconciler goes on with what
\* it recovered; a record that becomes COMPLETED is a change of the watched directory.
Completes == parent.status # "COMPLETED" /\ parent'.status = "COMPLETED"

Returns(t) ==
  /\ pc'[t] # pc[t] /\ parent'.status = "COMPLETED"
  /\ pc'[t] = "answered" \/ (pc[t] = "finishing" /\ pc'[t] = "done")

GoesPublic(a) == IF a = R THEN pc[R] = "binding" /\ pc'[R] = "new" ELSE Returns(a)

\* A strange row is one the reconciler cannot tell to be the turn's, an ordinary prompt or
\* two rows alike.  Which it is matters from the completion on and is chosen then.
TaskStep ==
  /\ TaskNext
  /\ pc'[R] # pc[R] => show[R] = "idle"
  /\ show' = [a \in Publishers |-> IF GoesPublic(a) THEN "queued" ELSE show[a]]
  /\ index' = IF Completes THEN "changed" ELSE index
  /\ strange' \in IF Completes THEN BOOLEAN ELSE {strange}
  /\ UNCHANGED <<chat, picture, invocation, stamped, retry, letGo, over, publisher>>

\* A restart reads every job file again.
Restart ==
  /\ Crash
  /\ show' = [a \in Publishers |-> "idle"]
  /\ publisher' = Nobody
  /\ retry' = "no" /\ letGo' = FALSE
  /\ over' = {t \in Turns : pc[t] # "new"}
  /\ index' = IF parent.status = "COMPLETED" /\ ~stamped THEN "pending" ELSE "none"
  /\ UNCHANGED <<chat, strange, picture, invocation, stamped>>

HoursPass ==
  /\ \A a \in Publishers : show[a] = "idle"
  /\ Age
  /\ UNCHANGED cardVars

-----------------------------------------------------------------------------
(* The publication, of the live turn and of the reconciler.                *)

Moves(a, place) == show' = [show EXCEPT ![a] = place] /\ UNCHANGED publisher
Leaves(a) == show' = [show EXCEPT ![a] = "idle"] /\ publisher' = Nobody

\* Variant: nobody waits for the publication of another.
EnterAnyway(a) ==
  /\ busy = Nobody
  /\ show[a] = "queued"
  /\ show' = [show EXCEPT ![a] = "binding"]
  /\ publisher' = a
  /\ UNCHANGED <<vars, chat, picture, invocation, stamped, index, retry, rest>>

\* withArtifactPublication.
Enter(a) ==
  /\ busy = Nobody
  /\ show[a] = "queued"
  /\ publisher = Nobody
  /\ show' = [show EXCEPT ![a] = "binding"]
  /\ publisher' = a
  /\ UNCHANGED <<vars, chat, picture, invocation, stamped, index, retry, rest>>

\* The artifact is fetched and its copy made, or, under a name reserved before, verified:
\* a copy that is missing is not made again.
Draws(a) ==
  /\ busy = Nobody
  /\ show[a] = "binding"
  /\ a = R => chat = "pending" /\ ~strange
  /\ picture # "deleted"
  /\ picture' = IF picture = "none" THEN "fresh" ELSE picture
  /\ Moves(a, "drawn")
  /\ UNCHANGED <<vars, chat, invocation, stamped, index, retry, rest>>

\* The card goes into the row that is the turn's.
Commits(a) ==
  /\ busy = Nobody
  /\ show[a] = "drawn"
  /\ IF a = R THEN chat' = "recovered" /\ Moves(R, "committed") ELSE chat' = "live" /\ Leaves(a)
  /\ UNCHANGED <<vars, picture, invocation, stamped, index, retry, rest>>

\* Variant: an error of the reconciler is as final as a row that is not there.
FailsForGood(a) ==
  /\ busy = Nobody
  /\ show[a] \in {"binding", "drawn", "committed", "shown"}
  /\ retry' = IF a = R THEN "no" ELSE retry
  /\ Leaves(a)
  /\ UNCHANGED <<vars, chat, picture, invocation, stamped, index, rest>>

\* Whatever fails in it ends a publication; the reconciler keeps the job to try again.
Fails(a) ==
  /\ busy = Nobody
  /\ show[a] \in {"binding", "drawn", "committed", "shown"}
  /\ retry' = IF a = R THEN "error" ELSE retry
  /\ Leaves(a)
  /\ UNCHANGED <<vars, chat, picture, invocation, stamped, index, rest>>

-----------------------------------------------------------------------------
(* The reconciler.                                                         *)

IndexSees ==
  /\ busy = Nobody
  /\ index = "changed"
  /\ index' = IF stamped THEN "none" ELSE "pending"
  /\ UNCHANGED <<vars, chat, picture, invocation, stamped, retry, rest, show, publisher>>

\* After its recovery a pass takes the pending jobs and those to retry.
TakePending ==
  /\ busy = Nobody
  /\ pc[R] = "new" /\ show[R] = "idle"
  /\ parent.status = "COMPLETED" /\ ~stamped
  /\ index = "pending" \/ retry # "no"
  /\ index' = IF index = "pending" THEN "none" ELSE index
  /\ Moves(R, "queued")
  /\ UNCHANGED <<vars, chat, picture, invocation, stamped, retry, rest>>

FindsCard ==
  /\ busy = Nobody
  /\ show[R] = "binding"
  /\ Shown
  /\ Moves(R, "shown")
  /\ UNCHANGED <<vars, chat, picture, invocation, stamped, index, retry, rest>>

\* No row is the turn's, or the invocation or the rows could not be read.  A job of this
\* process is tried again for a minute, an older one is let go.
FindsNoRow ==
  /\ busy = Nobody
  /\ show[R] = "binding"
  /\ retry' \in IF ~fresh THEN {"no"} ELSE IF retry = "grace" THEN {"grace", "no"} ELSE {"grace"}
  /\ letGo' = (letGo \/ (~strange /\ retry' = "no"))
  /\ Leaves(R)
  /\ UNCHANGED <<vars, chat, strange, picture, invocation, stamped, index, over>>

Closes ==
  /\ busy = Nobody
  /\ show[R] = "committed"
  /\ invocation' = FALSE
  /\ Moves(R, "shown")
  /\ UNCHANGED <<vars, chat, picture, stamped, index, retry, rest>>

\* The record it took is written back with its presentation.
Stamps ==
  /\ busy = Nobody
  /\ show[R] = "shown"
  /\ SaveParent([status |-> "COMPLETED", artifacts |-> 1 .. form.count])
  /\ stamped' = TRUE
  /\ retry' = "no"
  /\ Leaves(R)
  /\ UNCHANGED <<chat, picture, invocation, index, rest, form, child, claim, fresh, outside,
                 pc, at, mine, copy, holder, busy, crashes>>

-----------------------------------------------------------------------------
(* The cleanup, a process of its own, and what else changes.               *)

\* In one transaction, which chat rows wait for: what no card refers to and no open
\* invocation may still want.
Cleanup ==
  /\ picture = "aged"
  /\ ~Shown /\ ~invocation
  /\ picture' = "deleted"
  /\ UNCHANGED <<vars, chat, invocation, stamped, index, retry, rest, show, publisher>>

\* An hour passes, longer than any publication takes.
PictureAges ==
  /\ picture = "fresh"
  /\ \A a \in Publishers : show[a] = "idle"
  /\ picture' = "aged"
  /\ UNCHANGED <<vars, chat, invocation, stamped, index, retry, rest, show, publisher>>

\* The browser goes away.  Before there is a picture it makes no difference.
InvocationCloses ==
  /\ invocation /\ picture # "none"
  /\ invocation' = FALSE
  /\ UNCHANGED <<vars, chat, picture, stamped, index, retry, rest, show, publisher>>

\* The agent that made call t fails after it, and its error is written into the row; the
\* queue of the publications is not asked.
TurnFails(t) ==
  /\ busy = Nobody
  /\ pc[t] \in {"answered", "done"} /\ show[t] = "idle"
  /\ t \notin over
  /\ over' = over \cup {t}
  /\ chat' = "pending"
  /\ UNCHANGED <<vars, strange, picture, invocation, stamped, index, retry, letGo, show, publisher>>

-----------------------------------------------------------------------------

Publishes(a) == Enter(a) \/ Draws(a) \/ Commits(a) \/ Fails(a)

Reconciles == TakePending \/ FindsCard \/ FindsNoRow \/ Closes \/ Stamps

Init == TaskInit /\ CardInit

Next ==
  \/ TaskStep \/ Restart \/ HoursPass
  \/ \E a \in Publishers : Publishes(a)
  \/ IndexSees \/ Reconciles
  \/ Cleanup \/ PictureAges \/ InvocationCloses
  \/ \E t \in Turns : TurnFails(t)

Spec == Init /\ [][Next]_allVars

\* The index hears of every change, the reconciler's timer and a publication go on, and
\* what fails again and again (the file server is off, the database busy) succeeds at last.
CardFairness ==
  /\ WF_allVars(IndexSees)
  /\ WF_allVars(Publishes(R) \/ Reconciles)
  /\ \A t \in Turns : WF_allVars(Publishes(t))
  /\ SF_allVars(Draws(R)) /\ SF_allVars(Commits(R))
  /\ SF_allVars(FindsCard) /\ SF_allVars(Closes) /\ SF_allVars(Stamps)

FairSpec == Spec /\ Fairness /\ CardFairness

-----------------------------------------------------------------------------

\* Types of the job's state and of its presentation.
TypeOK == TaskTypeOK /\ CardTypeOK

AgentFailed == over' # over /\ crashes' = crashes

\* A card of the live turn stays as it is, and any card stays, unless the agent of a call
\* fails after it; and the cleanup deletes no picture a card refers to
\* (aagArtifactPresentation.js:322-326, aagComposerHistory.js:302-342).
CardKept ==
  [][/\ chat = "live" => chat' = "live" \/ AgentFailed
     /\ Shown => Shown' \/ AgentFailed
     /\ Shown /\ picture # "deleted" => picture' # "deleted"]_allVars

\* A completed job whose row can be told is shown in its chat and marked so, whatever
\* fails or restarts meanwhile, the turn's agent too; but a copy that was deleted is not
\* replaced, and a job whose row could not be read may be let go until the next restart
\* (aagImageProgress.js:386-399).
Presented ==
  parent.status = "COMPLETED" /\ ~strange ~> stamped \/ picture = "deleted" \/ letGo
=============================================================================
