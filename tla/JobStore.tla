------------------------------ MODULE JobStore ------------------------------
(***************************************************************************)
(* The status of a job record, jobs/<id>.json, as store.js lets it change. *)
(* VALIDATED is a status only in memory: both callers that set it go on to *)
(* QUEUED before they write the record.                                    *)
(***************************************************************************)

TERMINAL == {"COMPLETED", "PARTIAL", "FAILED", "CANCELLED", "TIMED_OUT"}
Statuses == {"CREATED", "VALIDATED", "QUEUED", "RUNNING"} \cup TERMINAL

\* A record that does not exist is read as JOB_NOT_FOUND.
Missing == "MISSING"

TRANSITIONS ==
  [status \in Statuses |->
     CASE status = "CREATED" -> {"VALIDATED", "FAILED", "CANCELLED"}
       [] status = "VALIDATED" -> {"QUEUED", "FAILED", "CANCELLED"}
       [] status = "QUEUED" -> {"RUNNING", "FAILED", "CANCELLED", "TIMED_OUT"}
       [] status = "RUNNING" -> TERMINAL
       [] status \in TERMINAL -> {}]

\* transition() throws ILLEGAL_STATE_TRANSITION unless this holds.
Legal(status, next) == status \in Statuses /\ next \in TRANSITIONS[status]

\* Variant: a completed record can be reopened as well.
ReopenableAll == TERMINAL

\* reopenAndWrite: the only way out of a terminal status.
Reopenable == TERMINAL \ {"COMPLETED"}
=============================================================================
