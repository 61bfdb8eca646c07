------------------------------ MODULE JobModel ------------------------------
(***************************************************************************)
(* The job entity and its declared state machine (internal/model/job.go).  *)
(* Payloads, error texts and wall-clock values are abstracted away: a      *)
(* timestamp is kept only as its relation to the instant the program       *)
(* compares it with.                                                       *)
(***************************************************************************)
EXTENDS Integers

JobStatus == {"pending", "scheduled", "running", "completed",
              "failed", "retrying", "dead", "cancelled"}

\* The table the API consults before it cancels a job.
allowedTransitions ==
  [s \in JobStatus |->
     CASE s = "pending"   -> {"running", "scheduled", "cancelled"}
       [] s = "scheduled" -> {"running", "cancelled"}
       [] s = "running"   -> {"completed", "failed", "cancelled"}
       [] s = "failed"    -> {"retrying", "dead"}
       [] s = "retrying"  -> {"running"}
       [] s = "dead"      -> {"pending"}
       [] OTHER           -> {}]

CanTransitionTo(status, target) == target \in allowedTransitions[status]

\* run_at: NULL, still ahead of now, or reached.  Schedule and GetDueJobs compare
\* Unix seconds, so an instant is reached with the second it lies in.
RunAt == {"null", "future", "past"}

\* A timestamp seen against a threshold (created_at against now - 5s,
\* started_at against now - 2 * jobTimeout).
Age == {"recent", "old"}
=============================================================================
