------------------------------ MODULE JobStore ------------------------------
(***************************************************************************)
(* The jobs table (internal/storage/postgres.go).  Every method is one SQL *)
(* statement, hence one atomic operator here.  A row is identified by the  *)
(* order of its insertion: UUIDs are fresh, and created_at follows that    *)
(* order.                                                                  *)
(***************************************************************************)
EXTENDS JobModel, FiniteSets

CONSTANTS MaxJobs,       \* bound on the number of rows ever inserted
          QueueName,     \* queue names that requests use
          JobType,       \* job types that requests use
          BatchLimit,    \* the LIMIT 100 of the recovery query
          StaleLimit,    \* the LIMIT 100 of the stale query
          MaxRetryCount  \* bound: retry counts saturate here

ASSUME StoreAssumption ==
  /\ MaxJobs \in Nat /\ MaxRetryCount \in Nat \ {0}
  /\ BatchLimit \in Nat \ {0} /\ StaleLimit \in Nat \ {0}

JobId == 1 .. MaxJobs

Row == [queue : QueueName, type : JobType, maxRetries : Int,
        retryCount : Nat, status : JobStatus, runAt : RunAt,
        createdAt : Age, startedAt : Age \cup {"null"}]

VARIABLES jobs,          \* id -> row, for the rows that exist
          created        \* number of rows inserted so far

storeVars == <<jobs, created>>

StoreTypeOK ==
  /\ created \in 0 .. MaxJobs
  /\ DOMAIN jobs \subseteq 1 .. created
  /\ jobs \in [DOMAIN jobs -> Row]

StoreInit == jobs = <<>> /\ created = 0

Exists(id) == id \in DOMAIN jobs

InsertRow(row) ==
  /\ created < MaxJobs
  /\ created' = created + 1
  /\ jobs' = [id \in DOMAIN jobs \cup {created + 1} |->
                IF id = created + 1 THEN row ELSE jobs[id]]

\* Mutant: started_at is not set with the status.
UpdateJobStatusUntimed(id, status) ==
  /\ jobs' = IF Exists(id) THEN [jobs EXCEPT ![id].status = status] ELSE jobs
  /\ UNCHANGED created

\* UPDATE ... WHERE id: the current status is not consulted, and a row that
\* is gone is no error.
UpdateJobStatus(id, status) ==
  /\ jobs' = IF Exists(id)
               THEN [jobs EXCEPT ![id].status = status,
                                 ![id].startedAt = IF status = "running"
                                                     THEN "recent" ELSE @]
               ELSE jobs
  /\ UNCHANGED created

UpdateJobError(id, status, retryCount) ==
  /\ jobs' = IF Exists(id)
               THEN [jobs EXCEPT ![id].status = status,
                                 ![id].retryCount = retryCount]
               ELSE jobs
  /\ UNCHANGED created

\* DELETE ... AND status = 'dead'; no row affected is a 409 that changes nothing.
DeleteRow(id) ==
  /\ Exists(id) /\ jobs[id].status = "dead"
  /\ jobs' = [k \in DOMAIN jobs \ {id} |-> jobs[k]]
  /\ UNCHANGED created

\* The first BatchLimit of a set of rows in order of created_at.
Oldest(ids) == {id \in ids : Cardinality({k \in ids : k < id}) < BatchLimit}

PendingOld ==
  {id \in DOMAIN jobs : /\ jobs[id].status = "pending"
                        /\ jobs[id].runAt = "null"
                        /\ jobs[id].createdAt = "old"}

\* Mutant: ORDER BY created_at DESC.
GetPendingUnqueuedNewest ==
  {id \in PendingOld : Cardinality({k \in PendingOld : k > id}) < BatchLimit}

GetPendingUnqueued == Oldest(PendingOld)

StaleRunning ==
  {id \in DOMAIN jobs : jobs[id].status = "running" /\ jobs[id].startedAt = "old"}

\* The LIMIT keeps the longest running ones; which they are is left open.
GetStaleRunningJobs ==
  {ids \in SUBSET StaleRunning :
     Cardinality(ids) = IF Cardinality(StaleRunning) < StaleLimit
                          THEN Cardinality(StaleRunning) ELSE StaleLimit}

(* Time passing over the two columns the recovery queries compare with now, *)
(* for the rows whose other columns make the comparison matter.            *)
CreatedAtAges(id) ==
  /\ Exists(id) /\ jobs[id].runAt = "null" /\ jobs[id].createdAt = "recent"
  /\ jobs' = [jobs EXCEPT ![id].createdAt = "old"]
  /\ UNCHANGED created

StartedAtAges(id) ==
  /\ Exists(id) /\ jobs[id].status = "running" /\ jobs[id].startedAt = "recent"
  /\ jobs' = [jobs EXCEPT ![id].startedAt = "old"]
  /\ UNCHANGED created
=============================================================================
