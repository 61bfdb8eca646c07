----------------------------- MODULE WorkerPool -----------------------------
(***************************************************************************)
(* The worker goroutines of all instances (internal/worker/worker.go).     *)
(* One action per call of processJob and handleFailure that reads or       *)
(* writes shared state; the snapshot taken by GetJob is the only thing a   *)
(* worker knows of the job from then on.                                   *)
(***************************************************************************)
EXTENDS RedisQueue, Environment

CONSTANTS Worker, Registered   \* goroutines; the job types with a handler

ASSUME WorkerAssumption == Registered \subseteq JobType

VARIABLES worker

IdleWorker == [pc |-> "idle", id |-> 0, maxRetries |-> 0, retryCount |-> 0]

Popped(jobID) == [pc |-> "popped", id |-> jobID, maxRetries |-> 0, retryCount |-> 0]

\* maxRetries and retryCount are those of the snapshot, once there is one.
WorkerState ==
  {IdleWorker} \cup
  [pc : {"popped", "nohandler", "fetched", "executing", "reschedule"},
   id : JobId, maxRetries : Int, retryCount : Nat]

WorkerTypeOK == worker \in [Worker -> WorkerState]

WorkerInit == worker = [w \in Worker |-> IdleWorker]

Become(w, state) == worker' = [worker EXCEPT ![w] = state]
Goto(w, pc) == worker' = [worker EXCEPT ![w].pc = pc]

PopJob(w) ==
  /\ worker[w].pc = "idle"
  /\ \E q \in QueueName :
       /\ Pop(q)
       /\ Become(w, Popped(Head(lists[q])))
  /\ UNCHANGED <<storeVars, envVars>>

\* GetJob and the registry lookup.  A row that is gone ends the attempt.
FetchJob(w) ==
  LET id == worker[w].id IN
  /\ worker[w].pc = "popped"
  /\ Become(w, IF Exists(id)
                 THEN [pc |-> IF jobs[id].type \in Registered THEN "fetched" ELSE "nohandler",
                       id |-> id,
                       maxRetries |-> jobs[id].maxRetries,
                       retryCount |-> jobs[id].retryCount]
                 ELSE IdleWorker)
  /\ UNCHANGED <<storeVars, queueVars, envVars>>

RejectUnknownType(w) ==
  /\ worker[w].pc = "nohandler"
  /\ UpdateJobError(worker[w].id, "failed", worker[w].retryCount)
  /\ Become(w, IdleWorker)
  /\ UNCHANGED <<queueVars, envVars>>

\* The status found by GetJob is not checked before it is overwritten.
StartJob(w) ==
  /\ worker[w].pc = "fetched"
  /\ UpdateJobStatus(worker[w].id, "running")
  /\ Goto(w, "executing")
  /\ UNCHANGED <<queueVars, envVars>>


\* The handler returns nil.
CompleteJob(w) ==
  /\ worker[w].pc = "executing"
  /\ UpdateJobStatus(worker[w].id, "completed")
  /\ Become(w, IdleWorker)
  /\ UNCHANGED <<queueVars, envVars>>

(* The handler returns an error: handleFailure.  A count at MaxRetryCount,  *)
(* which no max_retries exceeds, stands for every larger one.              *)
newRetryCount(w) ==
  IF worker[w].retryCount < MaxRetryCount THEN worker[w].retryCount + 1 ELSE MaxRetryCount

\* Mutant: a job that fails is buried whatever its count.
BuryJobAtOnce(w) ==
  /\ worker[w].pc = "executing"
  /\ UpdateJobError(worker[w].id, "dead", newRetryCount(w))
  /\ Become(w, IdleWorker)
  /\ UNCHANGED <<queueVars, envVars>>

BuryJob(w) ==
  /\ worker[w].pc = "executing"
  /\ newRetryCount(w) >= worker[w].maxRetries
  /\ UpdateJobError(worker[w].id, "dead", newRetryCount(w))
  /\ Become(w, IdleWorker)
  /\ UNCHANGED <<queueVars, envVars>>

RetryLater(w) ==
  /\ worker[w].pc = "executing"
  /\ newRetryCount(w) < worker[w].maxRetries
  /\ UpdateJobError(worker[w].id, "retrying", newRetryCount(w))
  /\ Goto(w, "reschedule")
  /\ UNCHANGED <<queueVars, envVars>>

\* The backoff is at least two seconds, so the new entry is never due at once.
ScheduleRetry(w) ==
  /\ worker[w].pc = "reschedule"
  /\ Schedule(worker[w].id, "future")
  /\ Become(w, IdleWorker)
  /\ UNCHANGED <<storeVars, envVars>>

\* The call the worker is at fails, its context is cancelled, or its instance
\* dies: nothing is written and the job id it held is forgotten.
AbandonJob(w) ==
  /\ worker[w].pc # "idle"
  /\ Fault({worker[w].id})
  /\ Become(w, IdleWorker)
  /\ UNCHANGED <<storeVars, queueVars>>

\* handleFailure ignores the error of UpdateJobError and schedules all the same.
RetryUnrecorded(w) ==
  /\ worker[w].pc = "executing"
  /\ newRetryCount(w) < worker[w].maxRetries
  /\ Fault({worker[w].id})
  /\ Goto(w, "reschedule")
  /\ UNCHANGED <<storeVars, queueVars>>

WorkerStep(w) == \/ PopJob(w) \/ FetchJob(w) \/ RejectUnknownType(w)
                 \/ StartJob(w) \/ CompleteJob(w) \/ BuryJob(w)
                 \/ RetryLater(w) \/ ScheduleRetry(w)

WorkerFault(w) == AbandonJob(w) \/ RetryUnrecorded(w)
=============================================================================
