--------------------------- MODULE GoQueueProofs ---------------------------
(***************************************************************************)
(* Types and retry budget of the job pipeline, for every number of jobs,   *)
(* workers, instances, clients and faults.                                 *)
(***************************************************************************)
EXTENDS GoQueue, TLAPS

----------------------------------------------------------------------------
(* Cardinality is a recursive function; a function that satisfies its      *)
(* equation is named, so the chosen one satisfies it too.                  *)
LEMMA NoElement == Cardinality({}) = 0
<1> DEFINE Body(c) == [T \in SUBSET {} |-> IF T = {} THEN 0 ELSE 1 + c[T \ {CHOOSE x : x \in T}]]
           count == [T \in SUBSET {} |-> 0]
<1>1. count = Body(count)
  OBVIOUS
<1> DEFINE c == CHOOSE f : f = Body(f)
<1>2. c = Body(c)
  BY <1>1
<1>3. c[{}] = 0
  BY <1>2, Zenon
<1> QED
  BY <1>3 DEF Cardinality

\* A set of one element counts one.
LEMMA OneElement == ASSUME NEW x PROVE Cardinality({x}) = 1
<1> DEFINE Body(c) == [T \in SUBSET {x} |-> IF T = {} THEN 0 ELSE 1 + c[T \ {CHOOSE y : y \in T}]]
           count == [T \in SUBSET {x} |-> IF T = {} THEN 0 ELSE 1]
<1>1. SUBSET {x} = {{}, {x}}
  OBVIOUS
<1>2. (CHOOSE y : y \in {x}) = x
  OBVIOUS
<1>3. count = Body(count)
  BY <1>1, <1>2
<1> DEFINE c == CHOOSE f : f = Body(f)
<1>4. c = Body(c)
  BY <1>3, Zenon
<1>5. c[{}] = 0
  BY <1>4, Zenon
<1> HIDE DEF c
<1>6. c[{x}] = 1 + c[{x} \ {x}]
  BY <1>2, <1>4
<1>7. c[{x}] = 1
  BY <1>5, <1>6
<1> QED
  BY <1>7 DEF c, Cardinality

----------------------------------------------------------------------------
(* What the operations on the table and on Redis keep.                     *)

\* A status update keeps the table well-formed.
LEMMA UpdateJobStatusType ==
  ASSUME StoreTypeOK, NEW id, NEW status \in JobStatus, UpdateJobStatus(id, status)
  PROVE  StoreTypeOK'
BY StoreAssumption DEF StoreTypeOK, UpdateJobStatus, Exists, Row, Age

\* So does an update of status and retry count.
LEMMA UpdateJobErrorType ==
  ASSUME StoreTypeOK, NEW id, NEW status \in JobStatus, NEW retryCount \in Nat,
         UpdateJobError(id, status, retryCount)
  PROVE  StoreTypeOK'
BY StoreAssumption DEF StoreTypeOK, UpdateJobError, Exists, Row

\* An INSERT of a row.
LEMMA InsertRowType ==
  ASSUME StoreTypeOK, NEW row \in Row, InsertRow(row)
  PROVE  StoreTypeOK'
BY StoreAssumption DEF StoreTypeOK, InsertRow

\* A push keeps the lists well-formed.
LEMMA PushType ==
  ASSUME QueueTypeOK, NEW q \in QueueName, NEW id \in JobId, Push(q, id)
  PROVE  QueueTypeOK'
BY DEF QueueTypeOK, Push

\* ZADD keeps the lists and the sorted set well formed.
LEMMA ScheduleType ==
  ASSUME QueueTypeOK, NEW id, NEW score \in {"future", "due"}, Schedule(id, score)
  PROVE  QueueTypeOK'
BY Zenon DEF QueueTypeOK, Schedule

\* Recording a fault stays within its bound.
LEMMA FaultType ==
  ASSUME EnvTypeOK, NEW ids, Fault(ids)
  PROVE  EnvTypeOK'
BY MaxFaultsAssumption DEF EnvTypeOK, Fault

----------------------------------------------------------------------------
(* Type correctness, one lemma per component.                              *)

\* The worker steps keep every variable in its type.
LEMMA WorkerType ==
  ASSUME TypeOK, NEW w \in Worker, WorkerNext(w)
  PROVE  TypeOK'
<1> USE DEF TypeOK
<1>0. worker[w] \in WorkerState
  BY DEF WorkerTypeOK
<1>1. SchedTypeOK' /\ ApiTypeOK'
  BY DEF WorkerNext, SchedTypeOK, ApiTypeOK, schedVars
<1>2. CASE PopJob(w)
  <2>1. PICK q \in QueueName : Pop(q) /\ Become(w, Popped(Head(lists[q])))
    BY <1>2 DEF PopJob
  <2>2. lists[q] # <<>> /\ lists[q] \in Seq(JobId)
    BY <2>1 DEF Pop, QueueTypeOK
  <2>3. Head(lists[q]) \in JobId /\ Tail(lists[q]) \in Seq(JobId)
    BY <2>2
  <2>4. QueueTypeOK'
    BY <2>1, <2>3 DEF Pop, QueueTypeOK
  <2>5. WorkerTypeOK'
    BY <2>1, <2>3 DEF Become, Popped, WorkerTypeOK, WorkerState
  <2>6. StoreTypeOK' /\ EnvTypeOK'
    BY <1>2 DEF PopJob, storeVars, envVars, StoreTypeOK, EnvTypeOK
  <2> QED BY <1>1, <2>4, <2>5, <2>6
<1>3. CASE FetchJob(w)
  <2>1. WorkerTypeOK'
    <3> DEFINE id == worker[w].id
    <3>1. worker[w].pc = "popped" /\ id \in JobId
      BY <1>0, <1>3 DEF FetchJob, WorkerState, IdleWorker
    <3>2. Exists(id) => jobs[id] \in Row
      BY DEF Exists, StoreTypeOK
    <3> QED BY <1>3, <3>1, <3>2, ZenonT(60) DEF FetchJob, Become, WorkerTypeOK, WorkerState, Row
  <2>2. StoreTypeOK' /\ EnvTypeOK' /\ QueueTypeOK'
    BY <1>3 DEF FetchJob, storeVars, envVars, queueVars, StoreTypeOK, EnvTypeOK, QueueTypeOK
  <2> QED BY <1>1, <2>1, <2>2, Zenon
<1>4. CASE RejectUnknownType(w)
  <2>1. StoreTypeOK'
    BY <1>0, <1>4, UpdateJobErrorType DEF RejectUnknownType, WorkerState, IdleWorker, JobStatus
  <2> QED BY <1>1, <1>4, <2>1 DEF RejectUnknownType, Become, WorkerTypeOK, WorkerState,
             envVars, queueVars, EnvTypeOK, QueueTypeOK
<1>5. CASE StartJob(w)
  <2>1. StoreTypeOK'
    BY <1>5, UpdateJobStatusType DEF StartJob, JobStatus
  <2>2. WorkerTypeOK'
    BY <1>0, <1>5 DEF StartJob, Goto, WorkerTypeOK, WorkerState, IdleWorker
  <2> QED BY <1>1, <1>5, <2>1, <2>2 DEF StartJob, envVars, queueVars, EnvTypeOK, QueueTypeOK
<1>6. CASE CompleteJob(w)
  <2>1. StoreTypeOK'
    BY <1>6, UpdateJobStatusType DEF CompleteJob, JobStatus
  <2> QED BY <1>1, <1>6, <2>1 DEF CompleteJob, Become, WorkerTypeOK, WorkerState,
             envVars, queueVars, EnvTypeOK, QueueTypeOK
<1>7. newRetryCount(w) \in Nat
  BY <1>0, StoreAssumption DEF newRetryCount, WorkerState, IdleWorker
<1>8. CASE BuryJob(w)
  <2>1. StoreTypeOK'
    BY <1>7, <1>8, UpdateJobErrorType DEF BuryJob, JobStatus
  <2> QED BY <1>1, <1>8, <2>1 DEF BuryJob, Become, WorkerTypeOK, WorkerState,
             envVars, queueVars, EnvTypeOK, QueueTypeOK
<1>9. CASE RetryLater(w)
  <2>1. StoreTypeOK'
    BY <1>7, <1>9, UpdateJobErrorType DEF RetryLater, JobStatus
  <2>2. WorkerTypeOK'
    BY <1>0, <1>9 DEF RetryLater, Goto, WorkerTypeOK, WorkerState, IdleWorker
  <2> QED BY <1>1, <1>9, <2>1, <2>2 DEF RetryLater, envVars, queueVars, EnvTypeOK, QueueTypeOK
<1>10. CASE ScheduleRetry(w)
  <2>1. QueueTypeOK'
    BY <1>10, ScheduleType DEF ScheduleRetry
  <2> QED BY <1>1, <1>10, <2>1 DEF ScheduleRetry, Become, WorkerTypeOK, WorkerState,
             envVars, storeVars, EnvTypeOK, StoreTypeOK
<1>11. CASE AbandonJob(w)
  <2>1. EnvTypeOK'
    BY <1>11, FaultType DEF AbandonJob
  <2> QED BY <1>1, <1>11, <2>1 DEF AbandonJob, Become, WorkerTypeOK, WorkerState,
             queueVars, storeVars, QueueTypeOK, StoreTypeOK
<1>12. CASE RetryUnrecorded(w)
  <2>1. EnvTypeOK'
    BY <1>12, FaultType DEF RetryUnrecorded
  <2>2. WorkerTypeOK'
    BY <1>0, <1>12 DEF RetryUnrecorded, Goto, WorkerTypeOK, WorkerState, IdleWorker
  <2> QED BY <1>1, <1>12, <2>1, <2>2 DEF RetryUnrecorded, queueVars, storeVars, QueueTypeOK, StoreTypeOK
<1> QED BY <1>2, <1>3, <1>4, <1>5, <1>6, <1>8, <1>9, <1>10, <1>11, <1>12, Zenon
        DEF WorkerNext, WorkerStep, WorkerFault

\* The scheduler loops keep every variable in its type.
LEMMA SchedType ==
  ASSUME TypeOK, NEW i \in Instance, SchedNext(i)
  PROVE  TypeOK'
<1> USE DEF TypeOK
<1>0. promoting[i] \in Promotion
  BY DEF SchedTypeOK
<1>1. WorkerTypeOK' /\ ApiTypeOK'
  BY DEF SchedNext, WorkerTypeOK, ApiTypeOK
<1>2. CASE Start(i)
  BY <1>1, <1>2 DEF Start, SchedTypeOK, storeVars, queueVars, envVars,
                    StoreTypeOK, QueueTypeOK, EnvTypeOK
<1>3. CASE Stop(i)
  <2>1. EnvTypeOK'
    BY <1>3, FaultType DEF Stop
  <2>2. SchedTypeOK'
    BY <1>3 DEF Stop, SchedTypeOK, Promotion
  <2> QED BY <1>1, <1>3, <2>1, <2>2 DEF Stop, storeVars, queueVars, StoreTypeOK, QueueTypeOK
<1>4. ASSUME NEW state \in Promotion, Promote(i, state)
      PROVE  SchedTypeOK'
  BY <1>4 DEF Promote, SchedTypeOK
<1>5. promoting[i].batch \in SUBSET JobId
  BY <1>0 DEF Promotion, Between
<1>6. \A batch \in SUBSET JobId : Between(batch) \in Promotion
  BY DEF Promotion
<1>7. CASE TakeDueJobs(i)
  <2>1. SchedTypeOK'
    BY <1>4, <1>6, <1>7 DEF TakeDueJobs, DueJobs
  <2>2. QueueTypeOK'
    BY <1>7 DEF TakeDueJobs, GetDueJobs, QueueTypeOK
  <2> QED BY <1>1, <1>7, <2>1, <2>2 DEF TakeDueJobs, storeVars, envVars, StoreTypeOK, EnvTypeOK
<1>8. CASE FetchDueJob(i)
  <2>1. PICK id \in promoting[i].batch :
          Promote(i, IF Exists(id)
                       THEN [batch |-> promoting[i].batch \ {id}, pc |-> "push", id |-> id,
                             queue |-> jobs[id].queue, status |-> jobs[id].status]
                       ELSE Between(promoting[i].batch \ {id}))
    BY <1>8, Zenon DEF FetchDueJob
  <2>2. CASE Exists(id)
    <3>1. jobs[id] \in Row
      BY <2>2 DEF Exists, StoreTypeOK
    <3> DEFINE state == [batch |-> promoting[i].batch \ {id}, pc |-> "push", id |-> id,
                         queue |-> jobs[id].queue, status |-> jobs[id].status]
    <3>2. state \in Promotion
      BY <1>5, <3>1, Zenon DEF Promotion, Row
    <3> QED BY <1>1, <1>4, <1>8, <2>1, <2>2, <3>2, Zenon DEF FetchDueJob, storeVars, queueVars, envVars,
                   StoreTypeOK, QueueTypeOK, EnvTypeOK
  <2>3. CASE ~Exists(id)
    <3>1. Between(promoting[i].batch \ {id}) \in Promotion
      BY <1>5, <1>6, Zenon
    <3> QED BY <1>1, <1>4, <1>8, <2>1, <2>3, <3>1 DEF FetchDueJob, storeVars, queueVars, envVars,
                   StoreTypeOK, QueueTypeOK, EnvTypeOK
  <2> QED BY <2>2, <2>3
<1>9. promoting[i].pc \in {"push", "mark"} =>
        /\ promoting[i] \in [batch : SUBSET JobId, pc : {"push", "mark"},
                              id : JobId, queue : QueueName, status : JobStatus]
        /\ promoting[i].id \in JobId /\ promoting[i].queue \in QueueName
  BY <1>0 DEF Promotion, Between
<1>10. CASE PushDueJob(i)
  <2>1. QueueTypeOK'
    BY <1>9, <1>10, PushType DEF PushDueJob
  <2>2. [promoting[i] EXCEPT !.pc = "mark"] \in Promotion
    BY <1>9, <1>10 DEF PushDueJob, Promotion
  <2>3. Between(promoting[i].batch) \in Promotion
    BY <1>5, <1>6
  <2>4. SchedTypeOK'
    BY <1>4, <1>10, <2>2, <2>3, Zenon DEF PushDueJob
  <2> QED BY <1>1, <1>10, <2>1, <2>4 DEF PushDueJob, storeVars, envVars, StoreTypeOK, EnvTypeOK
<1>11. CASE MarkPending(i)
  <2>1. StoreTypeOK'
    BY <1>11, UpdateJobStatusType, Zenon DEF MarkPending, JobStatus
  <2>2. SchedTypeOK'
    BY <1>4, <1>5, <1>6, <1>11, SMTT(30) DEF MarkPending
  <2> QED BY <1>1, <1>11, <2>1, <2>2 DEF MarkPending, queueVars, envVars, QueueTypeOK, EnvTypeOK
<1>12. CASE SkipDueJob(i)
  <2>1. EnvTypeOK'
    BY <1>12, FaultType, Zenon DEF SkipDueJob
  <2>2. \A id : Between(promoting[i].batch \ {id}) \in Promotion
    BY <1>5, <1>6
  <2>3. Between(promoting[i].batch) \in Promotion
    BY <1>5, <1>6
  <2>4. SchedTypeOK'
    BY <1>4, <1>12, <2>2, <2>3, Zenon DEF SkipDueJob
  <2> QED BY <1>1, <1>12, <2>1, <2>4 DEF SkipDueJob, storeVars, queueVars, StoreTypeOK, QueueTypeOK
<1>13. CASE FindUnqueued(i)
  <2>1. \A id \in GetPendingUnqueued : id \in JobId /\ jobs[id].queue \in QueueName
    BY StoreAssumption, SMTT(30) DEF GetPendingUnqueued, PendingOld, Oldest, StoreTypeOK, Row, JobId
  <2>2. SchedTypeOK'
    BY <1>13, <2>1 DEF FindUnqueued, SchedTypeOK
  <2> QED BY <1>1, <1>13, <2>2 DEF FindUnqueued, storeVars, queueVars, envVars,
             StoreTypeOK, QueueTypeOK, EnvTypeOK
<1>14. CASE PushUnqueued(i)
  <2>1. PICK job \in recovering[i] : RecoverNext(i, job) /\ Push(job.queue, job.id)
    BY <1>14 DEF PushUnqueued
  <2>2. job.id \in JobId /\ job.queue \in QueueName
    BY DEF SchedTypeOK
  <2>3. QueueTypeOK'
    BY <2>1, <2>2, PushType
  <2>4. SchedTypeOK'
    BY <2>1 DEF RecoverNext, SchedTypeOK
  <2> QED BY <1>1, <1>14, <2>3, <2>4 DEF PushUnqueued, Requeue, storeVars, StoreTypeOK, EnvTypeOK
<1>15. CASE SkipUnqueued(i)
  <2>1. EnvTypeOK'
    BY <1>15, FaultType DEF SkipUnqueued
  <2>2. SchedTypeOK'
    BY <1>15 DEF SkipUnqueued, RecoverNext, SchedTypeOK
  <2> QED BY <1>1, <1>15, <2>1, <2>2 DEF SkipUnqueued, storeVars, queueVars, StoreTypeOK, QueueTypeOK
<1>16. CASE FindStale(i)
  <2>1. PICK ids \in GetStaleRunningJobs :
          expiring' = [expiring EXCEPT ![i] =
                         {[id |-> id, retryCount |-> jobs[id].retryCount] : id \in ids}]
    BY <1>16, Zenon DEF FindStale
  <2>2. \A id \in ids : id \in JobId /\ jobs[id].retryCount \in Nat
    BY StoreAssumption, SMTT(30) DEF GetStaleRunningJobs, StaleRunning, StoreTypeOK, Row, JobId
  <2>3. SchedTypeOK'
    BY <1>16, <2>1, <2>2 DEF FindStale, SchedTypeOK
  <2> QED BY <1>1, <1>16, <2>3 DEF FindStale, storeVars, queueVars, envVars,
             StoreTypeOK, QueueTypeOK, EnvTypeOK
<1>17. CASE FailStale(i)
  <2>1. PICK job \in expiring[i] :
          /\ UpdateJobError(job.id, "failed", job.retryCount)
          /\ expiring' = [expiring EXCEPT ![i] = @ \ {job}]
    BY <1>17, Zenon DEF FailStale
  <2>2. job.retryCount \in Nat
    BY DEF SchedTypeOK
  <2>3. StoreTypeOK'
    BY <2>1, <2>2, UpdateJobErrorType DEF JobStatus
  <2>4. SchedTypeOK'
    BY <1>17, <2>1 DEF FailStale, SchedTypeOK
  <2> QED BY <1>1, <1>17, <2>3, <2>4 DEF FailStale, queueVars, envVars, QueueTypeOK, EnvTypeOK
<1>18. CASE SkipStale(i)
  <2>1. EnvTypeOK'
    BY <1>18, FaultType DEF SkipStale
  <2>2. SchedTypeOK'
    BY <1>18, ZenonT(60) DEF SkipStale, SchedTypeOK
  <2> QED BY <1>1, <1>18, <2>1, <2>2 DEF SkipStale, storeVars, queueVars, StoreTypeOK, QueueTypeOK
<1> QED BY <1>2, <1>3, <1>7, <1>8, <1>10, <1>11, <1>12, <1>13, <1>14, <1>15, <1>16, <1>17, <1>18, Zenon
        DEF SchedNext, SchedStep, SchedFault, runScheduledLoop, runRecoveryLoop, runStaleCheckLoop

\* The requests keep every variable in its type.
LEMMA ApiType ==
  ASSUME TypeOK, NEW c \in Client, ApiNext(c)
  PROVE  TypeOK'
<1> USE DEF TypeOK
<1>0. request[c] \in RequestState
  BY DEF ApiTypeOK
<1>1. WorkerTypeOK' /\ SchedTypeOK'
  BY DEF ApiNext, WorkerTypeOK, SchedTypeOK, schedVars
<1>2. ASSUME NEW state \in RequestState, Await(c, state)
      PROVE  ApiTypeOK'
  BY <1>2 DEF Await, ApiTypeOK
<1>3. NoRequest \in RequestState
  BY DEF RequestState
<1>4. request[c].pc \in {"enqueue", "retry", "push"} =>
        /\ request[c] \in [pc : {"enqueue", "retry", "push"}, id : JobId,
                            queue : QueueName, deferred : BOOLEAN]
        /\ request[c].id \in JobId /\ request[c].queue \in QueueName
  <2> HAVE request[c].pc \in {"enqueue", "retry", "push"}
  <2>1. request[c] # NoRequest
    BY DEF NoRequest
  <2>2. request[c] \notin [pc : {"cancel"}, id : JobId, queue : {"none"}, deferred : {FALSE}]
    BY Zenon
  <2>3. request[c] \in [pc : {"enqueue", "retry", "push"}, id : JobId,
                        queue : QueueName, deferred : BOOLEAN]
    BY <1>0, <2>1, <2>2, ZenonT(60) DEF RequestState
  <2> QED BY <2>3
<1>5. ASSUME NEW req \in Request, CreateJob(c, req)
      PROVE  TypeOK'
  <2>1. req \in [queue : QueueName, type : JobType, maxRetries : Int, runAt : RunAt]
    BY RequestAssumption
  <2> DEFINE row == [queue |-> req.queue, type |-> req.type,
                     maxRetries |-> req.maxRetries, retryCount |-> 0,
                     status |-> IF req.runAt = "null" THEN "pending" ELSE "scheduled",
                     runAt |-> req.runAt, createdAt |-> "recent", startedAt |-> "null"]
  <2>2. row \in Row
    BY <2>1, Zenon DEF Row, JobStatus, Age
  <2>3. StoreTypeOK'
    BY <1>5, <2>2, InsertRowType, Zenon DEF CreateJob
  <2>4. created + 1 \in JobId
    BY <1>5, StoreAssumption, SMTT(30) DEF CreateJob, InsertRow, StoreTypeOK, JobId
  <2> DEFINE state == [pc |-> "enqueue", id |-> created + 1, queue |-> req.queue,
                       deferred |-> req.runAt # "null"]
  <2>5. state \in RequestState
    BY <2>1, <2>4, SMTT(30) DEF RequestState
  <2>6. ApiTypeOK'
    BY <1>2, <1>5, <2>5, ZenonT(60) DEF CreateJob
  <2> QED BY <1>1, <1>5, <2>3, <2>6, Zenon DEF CreateJob, queueVars, envVars, QueueTypeOK, EnvTypeOK
<1>6. CASE EnqueueCreated(c)
  <2>1. QueueTypeOK'
    BY <1>4, <1>6, PushType, ScheduleType, Zenon DEF EnqueueCreated
  <2>2. ApiTypeOK'
    BY <1>2, <1>3, <1>6, Zenon DEF EnqueueCreated
  <2> QED BY <1>1, <1>6, <2>1, <2>2, Zenon DEF EnqueueCreated, storeVars, envVars, StoreTypeOK, EnvTypeOK
<1>7. ASSUME NEW id \in JobId, CheckCancel(c, id)
      PROVE  TypeOK'
  <2>1. [pc |-> "cancel", id |-> id, queue |-> "none", deferred |-> FALSE] \in RequestState
    BY Zenon DEF RequestState
  <2>2. ApiTypeOK'
    BY <1>2, <1>7, <2>1, Zenon DEF CheckCancel
  <2> QED BY <1>1, <1>7, <2>2, Zenon DEF CheckCancel, storeVars, queueVars, envVars,
             StoreTypeOK, QueueTypeOK, EnvTypeOK
<1>8. CASE CancelJob(c)
  <2>1. StoreTypeOK'
    BY <1>8, UpdateJobStatusType DEF CancelJob, JobStatus
  <2>2. ApiTypeOK'
    BY <1>2, <1>3, <1>8, Zenon DEF CancelJob
  <2> QED BY <1>1, <1>8, <2>1, <2>2, ZenonT(60) DEF CancelJob, queueVars, envVars, QueueTypeOK, EnvTypeOK
<1>9. ASSUME NEW id \in JobId, CheckRetry(c, id)
      PROVE  TypeOK'
  <2>1. jobs[id].queue \in QueueName
    BY <1>9, Zenon DEF CheckRetry, Exists, StoreTypeOK, Row
  <2>2. [pc |-> "retry", id |-> id, queue |-> jobs[id].queue, deferred |-> FALSE] \in RequestState
    BY <2>1, Zenon DEF RequestState
  <2>3. ApiTypeOK'
    BY <1>2, <1>9, <2>2, Zenon DEF CheckRetry
  <2> QED BY <1>1, <1>9, <2>3, Zenon DEF CheckRetry, storeVars, queueVars, envVars,
             StoreTypeOK, QueueTypeOK, EnvTypeOK
<1>10. CASE RetryJob(c)
  <2>1. StoreTypeOK'
    BY <1>10, UpdateJobErrorType DEF RetryJob, JobStatus
  <2>2. [request[c] EXCEPT !.pc = "push"] \in RequestState
    BY <1>4, <1>10, Zenon DEF RetryJob, RequestState
  <2>3. ApiTypeOK'
    BY <1>2, <1>10, <2>2, SMTT(30) DEF RetryJob
  <2>4. EnvTypeOK'
    BY <1>10 DEF RetryJob, Requeue, envVars, EnvTypeOK
  <2> QED BY <1>1, <1>10, <2>1, <2>3, <2>4 DEF RetryJob, queueVars, QueueTypeOK
<1>11. CASE PushRetried(c)
  <2>1. QueueTypeOK'
    BY <1>4, <1>11, PushType, Zenon DEF PushRetried
  <2>2. ApiTypeOK'
    BY <1>2, <1>3, <1>11 DEF PushRetried
  <2> QED BY <1>1, <1>11, <2>1, <2>2, Zenon DEF PushRetried, storeVars, envVars, StoreTypeOK, EnvTypeOK
<1>12. ASSUME NEW id \in JobId, DeleteJob(c, id)
       PROVE  TypeOK'
  <2>1. StoreTypeOK'
    BY <1>12 DEF DeleteJob, DeleteRow, StoreTypeOK
  <2> QED BY <1>1, <1>12, <2>1 DEF DeleteJob, queueVars, envVars, QueueTypeOK, EnvTypeOK, ApiTypeOK
<1>13. CASE RequestFails(c)
  <2>1. EnvTypeOK'
    BY <1>13, FaultType DEF RequestFails
  <2>2. ApiTypeOK'
    BY <1>2, <1>3, <1>13, Zenon DEF RequestFails
  <2> QED BY <1>1, <1>13, <2>1, <2>2, Zenon DEF RequestFails, storeVars, queueVars, StoreTypeOK, QueueTypeOK
<1> QED BY <1>5, <1>6, <1>7, <1>8, <1>9, <1>10, <1>11, <1>12, <1>13, Zenon
        DEF ApiNext, NewRequest, RequestStep

\* The passing of time keeps every variable in its type.
LEMMA TimeType ==
  ASSUME TypeOK, NEW id \in JobId, TimeNext(id)
  PROVE  TypeOK'
<1> USE DEF TypeOK
<1>1. WorkerTypeOK' /\ SchedTypeOK' /\ ApiTypeOK'
  BY DEF TimeNext, WorkerTypeOK, SchedTypeOK, ApiTypeOK, schedVars
<1>2. CASE CreatedAtAges(id) /\ UNCHANGED <<queueVars, envVars>>
  <2>1. StoreTypeOK'
    BY <1>2 DEF CreatedAtAges, Exists, StoreTypeOK, Row, Age
  <2> QED BY <1>1, <1>2, <2>1 DEF queueVars, envVars, QueueTypeOK, EnvTypeOK
<1>3. CASE StartedAtAges(id) /\ UNCHANGED <<queueVars, envVars>>
  <2>1. StoreTypeOK'
    BY <1>3 DEF StartedAtAges, Exists, StoreTypeOK, Row, Age
  <2> QED BY <1>1, <1>3, <2>1 DEF queueVars, envVars, QueueTypeOK, EnvTypeOK
<1>4. CASE RunAtArrives(id)
  <2>1. StoreTypeOK'
    BY <1>4 DEF RunAtArrives, Exists, StoreTypeOK, Row, RunAt
  <2> QED BY <1>1, <1>4, <2>1 DEF RunAtArrives, envVars, QueueTypeOK, EnvTypeOK
<1>5. CASE BackoffElapses(id)
  BY <1>1, <1>5 DEF BackoffElapses, storeVars, envVars, StoreTypeOK, QueueTypeOK, EnvTypeOK
<1> QED BY <1>2, <1>3, <1>4, <1>5, Zenon DEF TimeNext, TimePasses

\* Type correctness of the whole pipeline: whatever the interleaving and the
\* faults, every row, list, snapshot and batch keeps its shape, and only ids
\* that an INSERT has issued have rows.
THEOREM TypeCorrect == Spec => []TypeOK
<1>1. Init => TypeOK
  <2> SUFFICES ASSUME Init PROVE TypeOK
    OBVIOUS
  <2>1. StoreTypeOK
    BY StoreAssumption DEF Init, StoreInit, StoreTypeOK
  <2>2. QueueTypeOK
    BY DEF Init, QueueInit, QueueTypeOK
  <2>3. EnvTypeOK
    BY MaxFaultsAssumption DEF Init, EnvInit, EnvTypeOK
  <2>4. WorkerTypeOK
    BY DEF Init, WorkerInit, WorkerTypeOK, WorkerState
  <2>5. SchedTypeOK
    BY DEF Init, SchedInit, SchedTypeOK, Promotion
  <2>6. ApiTypeOK
    BY Zenon DEF Init, ApiInit, ApiTypeOK, RequestState
  <2> QED BY <2>1, <2>2, <2>3, <2>4, <2>5, <2>6 DEF TypeOK
<1>2. TypeOK /\ [Next]_vars => TypeOK'
  <2> SUFFICES ASSUME TypeOK, [Next]_vars PROVE TypeOK'
    OBVIOUS
  <2>1. CASE Next
    BY <2>1, WorkerType, SchedType, ApiType, TimeType, ZenonT(60) DEF Next
  <2>2. CASE UNCHANGED vars
    BY <2>2 DEF TypeOK, vars, storeVars, queueVars, envVars, schedVars, StoreTypeOK,
                QueueTypeOK, EnvTypeOK, WorkerTypeOK, SchedTypeOK, ApiTypeOK
  <2> QED BY <2>1, <2>2
<1> QED BY <1>1, <1>2, PTL DEF Spec

----------------------------------------------------------------------------
(* What the two UPDATE statements do to each row.                          *)

\* UpdateJobStatus changes the status of one row; retry_count, max_retries and
\* run_at stay.
LEMMA UpdateJobStatusRows ==
  ASSUME StoreTypeOK, NEW id, NEW status, UpdateJobStatus(id, status)
  PROVE  /\ DOMAIN jobs' = DOMAIN jobs /\ created' = created
         /\ \A k \in DOMAIN jobs :
              /\ jobs'[k].status = IF k = id THEN status ELSE jobs[k].status
              /\ jobs'[k].retryCount = jobs[k].retryCount
              /\ jobs'[k].maxRetries = jobs[k].maxRetries
              /\ jobs'[k].runAt = jobs[k].runAt
BY DEF StoreTypeOK, UpdateJobStatus, Exists, Row

\* UpdateJobError changes status and retry_count of one row together.
LEMMA UpdateJobErrorRows ==
  ASSUME StoreTypeOK, NEW id, NEW status, NEW retryCount,
         UpdateJobError(id, status, retryCount)
  PROVE  /\ DOMAIN jobs' = DOMAIN jobs /\ created' = created
         /\ \A k \in DOMAIN jobs :
              /\ jobs'[k].status = IF k = id THEN status ELSE jobs[k].status
              /\ jobs'[k].retryCount = IF k = id THEN retryCount ELSE jobs[k].retryCount
              /\ jobs'[k].maxRetries = jobs[k].maxRetries
              /\ jobs'[k].runAt = jobs[k].runAt
BY DEF StoreTypeOK, UpdateJobError, Exists, Row

\* A request that is to push a job knows its id and its queue.
LEMMA Submitting ==
  ASSUME NEW r \in RequestState, r.pc \in {"enqueue", "push"}
  PROVE  r.id \in JobId /\ r.queue \in QueueName
<1>1. CASE r = NoRequest
  BY <1>1 DEF NoRequest
<1>2. CASE r \in [pc : {"cancel"}, id : JobId, queue : {"none"}, deferred : {FALSE}]
  BY <1>2
<1>3. CASE r \in [pc : {"enqueue", "retry", "push"}, id : JobId, queue : QueueName, deferred : BOOLEAN]
  BY <1>3, Zenon
<1> QED BY <1>1, <1>2, <1>3, Zenon DEF RequestState

\* What a state of processScheduledJobs holds.
Holds(state) == state.batch \cup IF state.pc = "push" THEN {state.id} ELSE {}

----------------------------------------------------------------------------
(* RetryBudget is not inductive alone: handleFailure compares the          *)
(* snapshot's max_retries, so the proof carries along that the snapshot    *)
(* agrees with the row on it.                                              *)
SnapshotAgrees ==
  \A w \in Worker :
    worker[w].pc \in {"nohandler", "fetched", "executing", "reschedule"} =>
      /\ worker[w].id \in 1 .. created
      /\ Exists(worker[w].id) => worker[w].maxRetries = jobs[worker[w].id].maxRetries

\* Writing a status other than retrying or dead keeps the budget.
LEMMA StatusKeepsBudget ==
  ASSUME StoreTypeOK, RetryBudget, NEW id, NEW status, status \notin {"retrying", "dead"},
         UpdateJobStatus(id, status)
  PROVE  RetryBudget'
BY UpdateJobStatusRows, SMTT(30) DEF RetryBudget

\* So does writing failed or pending together with a count.
LEMMA ErrorKeepsBudget ==
  ASSUME StoreTypeOK, RetryBudget, NEW id, NEW status, NEW retryCount,
         UpdateJobError(id, status, retryCount),
         Exists(id) =>
           /\ status = "retrying" => retryCount \in 1 .. jobs[id].maxRetries
           /\ status = "dead" => retryCount >= jobs[id].maxRetries
  PROVE  RetryBudget'
BY UpdateJobErrorRows DEF RetryBudget, Exists

\* A step that moves no worker, adds no row and leaves max_retries alone keeps
\* the snapshots in agreement.
LEMMA SnapshotStable ==
  ASSUME SnapshotAgrees, UNCHANGED <<worker, created>>, DOMAIN jobs' \subseteq DOMAIN jobs,
         \A k \in DOMAIN jobs' : jobs'[k].maxRetries = jobs[k].maxRetries
  PROVE  SnapshotAgrees'
BY Zenon DEF SnapshotAgrees, Exists

\* A worker that moves to a state whose snapshot agrees keeps them in agreement.
LEMMA SnapshotMoves ==
  ASSUME WorkerTypeOK, SnapshotAgrees, NEW w \in Worker, NEW state,
         worker' = [worker EXCEPT ![w] = state],
         DOMAIN jobs' = DOMAIN jobs, created' = created,
         \A k \in DOMAIN jobs : jobs'[k].maxRetries = jobs[k].maxRetries,
         state.pc \in {"nohandler", "fetched", "executing", "reschedule"} =>
           /\ state.id \in 1 .. created
           /\ Exists(state.id) => state.maxRetries = jobs[state.id].maxRetries
  PROVE  SnapshotAgrees'
BY DEF WorkerTypeOK, SnapshotAgrees, Exists

BudgetInv == RetryBudget /\ SnapshotAgrees

\* The worker steps keep the budget: handleFailure decides on a max_retries that
\* is still the row's.
LEMMA WorkerBudget ==
  ASSUME TypeOK, BudgetInv, NEW w \in Worker, WorkerNext(w)
  PROVE  BudgetInv'
<1> USE DEF BudgetInv
<1>0. StoreTypeOK /\ WorkerTypeOK /\ worker[w] \in WorkerState
  BY DEF TypeOK, WorkerTypeOK
<1>a. ASSUME UNCHANGED storeVars PROVE RetryBudget'
  BY <1>a DEF storeVars, RetryBudget
<1>b. ASSUME NEW pc, worker[w].pc \in {"fetched", "executing"}
      PROVE  LET state == [worker[w] EXCEPT !.pc = pc] IN
             /\ state.id \in 1 .. created
             /\ Exists(state.id) => state.maxRetries = jobs[state.id].maxRetries
  BY <1>0, <1>b DEF SnapshotAgrees, WorkerState, IdleWorker
<1>c. Goto(w, "executing") => worker' = [worker EXCEPT ![w] = [worker[w] EXCEPT !.pc = "executing"]]
  BY <1>0 DEF Goto
<1>d. Goto(w, "reschedule") => worker' = [worker EXCEPT ![w] = [worker[w] EXCEPT !.pc = "reschedule"]]
  BY <1>0 DEF Goto
<1>e. IdleWorker.pc = "idle"
  BY DEF IdleWorker
<1>2. CASE PopJob(w)
  <2>1. PICK q \in QueueName : Become(w, Popped(Head(lists[q])))
    BY <1>2 DEF PopJob
  <2>2. Popped(Head(lists[q])).pc = "popped"
    BY DEF Popped
  <2>3. SnapshotAgrees'
    BY <1>0, <1>2, <2>1, <2>2, SnapshotMoves, Zenon DEF PopJob, Become, storeVars
  <2> QED BY <1>2, <1>a, <2>3 DEF PopJob
<1>3. CASE FetchJob(w)
  <2> DEFINE id == worker[w].id
             state == IF Exists(id)
                 THEN [pc |-> IF jobs[id].type \in Registered THEN "fetched" ELSE "nohandler",
                       id |-> id,
                       maxRetries |-> jobs[id].maxRetries,
                       retryCount |-> jobs[id].retryCount]
                 ELSE IdleWorker
  <2>1. worker' = [worker EXCEPT ![w] = state] /\ UNCHANGED <<jobs, created>>
    BY <1>3, ZenonT(60) DEF FetchJob, Become, storeVars
  <2>2. state.pc \in {"nohandler", "fetched", "executing", "reschedule"} =>
           /\ state.id \in 1 .. created
           /\ Exists(state.id) => state.maxRetries = jobs[state.id].maxRetries
    BY <1>0, <1>e, Zenon DEF Exists, StoreTypeOK
  <2> HIDE DEF state
  <2>3. SnapshotAgrees'
    BY <1>0, <2>1, <2>2, SnapshotMoves, Zenon
  <2> QED BY <1>3, <1>a, <2>3, Zenon DEF FetchJob
<1>5. CASE RejectUnknownType(w)
  <2>1. RetryBudget'
    BY <1>0, <1>5, ErrorKeepsBudget, Zenon DEF RejectUnknownType
  <2>2. SnapshotAgrees'
    BY <1>0, <1>5, <1>e, UpdateJobErrorRows, SnapshotMoves, ZenonT(60) DEF RejectUnknownType, Become
  <2> QED BY <2>1, <2>2, SMTT(30)
<1>6. CASE StartJob(w)
  <2>1. RetryBudget'
    BY <1>0, <1>6, StatusKeepsBudget DEF StartJob
  <2> DEFINE state == [worker[w] EXCEPT !.pc = "executing"]
  <2>a. worker' = [worker EXCEPT ![w] = state]
    BY <1>6, <1>c DEF StartJob
  <2>b. state.id \in 1 .. created /\ (Exists(state.id) => state.maxRetries = jobs[state.id].maxRetries)
    BY <1>6, <1>b DEF StartJob
  <2> HIDE DEF state
  <2>2. SnapshotAgrees'
    BY <1>0, <1>6, <2>a, <2>b, UpdateJobStatusRows, SnapshotMoves, ZenonT(60) DEF StartJob
  <2> QED BY <2>1, <2>2
<1>7. CASE CompleteJob(w)
  <2>1. RetryBudget'
    BY <1>0, <1>7, StatusKeepsBudget DEF CompleteJob
  <2>2. SnapshotAgrees'
    BY <1>0, <1>7, <1>e, UpdateJobStatusRows, SnapshotMoves, ZenonT(60) DEF CompleteJob, Become
  <2> QED BY <2>1, <2>2
<1>8. /\ newRetryCount(w) \in Nat \ {0}
      /\ worker[w].maxRetries \in Int
      /\ worker[w].pc = "executing" /\ Exists(worker[w].id) =>
           worker[w].maxRetries = jobs[worker[w].id].maxRetries
  BY <1>0, StoreAssumption, SMTT(30) DEF newRetryCount, WorkerState, IdleWorker, SnapshotAgrees
<1>9. CASE BuryJob(w)
  <2>1. RetryBudget'
    BY <1>0, <1>8, <1>9, ErrorKeepsBudget, Zenon DEF BuryJob
  <2>2. SnapshotAgrees'
    BY <1>0, <1>9, <1>e, UpdateJobErrorRows, SnapshotMoves, ZenonT(60) DEF BuryJob, Become
  <2> QED BY <2>1, <2>2
<1>10. CASE RetryLater(w)
  <2>1. RetryBudget'
    BY <1>0, <1>8, <1>10, ErrorKeepsBudget DEF RetryLater
  <2> DEFINE state == [worker[w] EXCEPT !.pc = "reschedule"]
  <2>a. worker' = [worker EXCEPT ![w] = state]
    BY <1>10, <1>d DEF RetryLater
  <2>b. state.id \in 1 .. created /\ (Exists(state.id) => state.maxRetries = jobs[state.id].maxRetries)
    BY <1>10, <1>b DEF RetryLater
  <2> HIDE DEF state
  <2>2. SnapshotAgrees'
    BY <1>0, <1>10, <2>a, <2>b, UpdateJobErrorRows, SnapshotMoves, ZenonT(60) DEF RetryLater
  <2> QED BY <2>1, <2>2
<1>11. CASE ScheduleRetry(w)
  <2>1. SnapshotAgrees'
    BY <1>0, <1>11, <1>e, SnapshotMoves, Zenon DEF ScheduleRetry, Become, storeVars
  <2> QED BY <1>11, <1>a, <2>1 DEF ScheduleRetry
<1>12. CASE AbandonJob(w)
  <2>1. SnapshotAgrees'
    BY <1>0, <1>12, <1>e, SnapshotMoves, ZenonT(60) DEF AbandonJob, Become, storeVars
  <2> QED BY <1>12, <1>a, <2>1 DEF AbandonJob
<1>13. CASE RetryUnrecorded(w)
  <2> DEFINE state == [worker[w] EXCEPT !.pc = "reschedule"]
  <2>a. worker' = [worker EXCEPT ![w] = state]
    BY <1>13, <1>d DEF RetryUnrecorded
  <2>b. state.id \in 1 .. created /\ (Exists(state.id) => state.maxRetries = jobs[state.id].maxRetries)
    BY <1>13, <1>b DEF RetryUnrecorded
  <2> HIDE DEF state
  <2>1. SnapshotAgrees'
    BY <1>0, <1>13, <2>a, <2>b, SnapshotMoves, Zenon DEF RetryUnrecorded, storeVars
  <2> QED BY <1>13, <1>a, <2>1 DEF RetryUnrecorded
<1> QED BY <1>2, <1>3, <1>5, <1>6, <1>7, <1>9, <1>10, <1>11, <1>12, <1>13, SMTT(30)
        DEF WorkerNext, WorkerStep, WorkerFault

\* The scheduler writes failed and pending only.
LEMMA SchedBudget ==
  ASSUME TypeOK, BudgetInv, NEW i \in Instance, SchedNext(i)
  PROVE  BudgetInv'
<1> USE DEF BudgetInv
<1>0. StoreTypeOK /\ UNCHANGED worker
  BY Zenon DEF TypeOK, SchedNext
<1>1. CASE UNCHANGED storeVars
  BY <1>0, <1>1, Zenon DEF storeVars, RetryBudget, SnapshotAgrees, Exists
<1>2. CASE MarkPending(i)
  <2>1. RetryBudget'
    BY <1>0, <1>2, StatusKeepsBudget DEF MarkPending
  <2> QED BY <1>0, <1>2, <2>1, UpdateJobStatusRows, SnapshotStable, ZenonT(60) DEF MarkPending
<1>3. CASE FailStale(i)
  <2>1. PICK job \in expiring[i] : UpdateJobError(job.id, "failed", job.retryCount)
    BY <1>3, Zenon DEF FailStale
  <2>2. RetryBudget'
    BY <1>0, <2>1, ErrorKeepsBudget, SMTT(30)
  <2> QED BY <1>0, <2>1, <2>2, UpdateJobErrorRows, SnapshotStable
<1> QED BY <1>1, <1>2, <1>3, Zenon
        DEF SchedNext, SchedStep, SchedFault, runScheduledLoop, runRecoveryLoop, runStaleCheckLoop,
            Start, Stop, TakeDueJobs, FetchDueJob, PushDueJob, SkipDueJob, FindUnqueued,
            PushUnqueued, SkipUnqueued, FindStale, SkipStale

\* CreateJob inserts a row that is pending or scheduled.
LEMMA CreatedRow ==
  ASSUME NEW c, NEW req, CreateJob(c, req)
  PROVE  \E row : InsertRow(row) /\ row.status \in {"pending", "scheduled"}
BY DEF CreateJob

\* A request inserts a pending or scheduled row under a fresh id, writes
\* cancelled or pending, or deletes a row.
LEMMA ApiBudget ==
  ASSUME TypeOK, BudgetInv, NEW c \in Client, ApiNext(c)
  PROVE  BudgetInv'
<1> USE DEF BudgetInv
<1>0. StoreTypeOK /\ UNCHANGED worker
  BY SMTT(30) DEF TypeOK, ApiNext
<1>1. CASE UNCHANGED storeVars
  BY <1>0, <1>1 DEF storeVars, RetryBudget, SnapshotAgrees, Exists
<1>2. ASSUME NEW req \in Request, CreateJob(c, req)
      PROVE  BudgetInv'
  <2>1. PICK row : InsertRow(row) /\ row.status \in {"pending", "scheduled"}
    BY <1>2, CreatedRow, Zenon
  <2>2. /\ DOMAIN jobs' = DOMAIN jobs \cup {created + 1} /\ created' = created + 1
        /\ created \in Nat /\ DOMAIN jobs \subseteq 1 .. created
        /\ jobs'[created + 1] = row
        /\ \A k \in DOMAIN jobs : jobs'[k] = jobs[k]
    BY <1>0, <2>1, StoreAssumption DEF InsertRow, StoreTypeOK
  <2>3. RetryBudget'
    BY <2>1, <2>2, ZenonT(60) DEF RetryBudget
  <2>4. SnapshotAgrees'
    BY <1>0, <2>2 DEF SnapshotAgrees, Exists
  <2> QED BY <2>3, <2>4, ZenonT(60)
<1>3. CASE CancelJob(c)
  <2>1. RetryBudget'
    <3>1. UpdateJobStatus(request[c].id, "cancelled")
      BY <1>3, Zenon DEF CancelJob
    <3>2. "cancelled" \notin {"retrying", "dead"}
      BY Zenon
    <3> QED BY <1>0, <3>1, <3>2, StatusKeepsBudget, Zenon
  <2> QED BY <1>0, <1>3, <2>1, UpdateJobStatusRows, SnapshotStable, ZenonT(60) DEF CancelJob
<1>4. CASE RetryJob(c)
  <2>1. RetryBudget'
    BY <1>0, <1>4, ErrorKeepsBudget, Zenon DEF RetryJob
  <2> QED BY <1>0, <1>4, <2>1, UpdateJobErrorRows, SnapshotStable DEF RetryJob
<1>5. ASSUME NEW id \in JobId, DeleteJob(c, id)
      PROVE  BudgetInv'
  <2>1. DOMAIN jobs' \subseteq DOMAIN jobs /\ created' = created
        /\ \A k \in DOMAIN jobs' : jobs'[k] = jobs[k]
    BY <1>5, Zenon DEF DeleteJob, DeleteRow
  <2> QED BY <1>0, <2>1, SnapshotStable, Zenon DEF RetryBudget
<1> QED BY <1>1, <1>2, <1>3, <1>4, <1>5, Zenon
        DEF ApiNext, NewRequest, RequestStep, EnqueueCreated, CheckCancel, CheckRetry,
            PushRetried, RequestFails

\* Time touches none of the columns involved.
LEMMA TimeBudget ==
  ASSUME TypeOK, BudgetInv, NEW id \in JobId, TimeNext(id)
  PROVE  BudgetInv'
<1> USE DEF BudgetInv
<1>0. StoreTypeOK /\ UNCHANGED worker
  BY DEF TypeOK, TimeNext
<1>1. /\ DOMAIN jobs' = DOMAIN jobs /\ created' = created
      /\ \A k \in DOMAIN jobs : /\ jobs'[k].status = jobs[k].status
                                /\ jobs'[k].retryCount = jobs[k].retryCount
                                /\ jobs'[k].maxRetries = jobs[k].maxRetries
  BY <1>0 DEF TimeNext, TimePasses, CreatedAtAges, StartedAtAges, RunAtArrives, BackoffElapses,
              Exists, storeVars, StoreTypeOK, Row
<1> QED BY <1>0, <1>1, SnapshotStable DEF RetryBudget

\* The two hold together.
LEMMA BudgetInvariant == Spec => []BudgetInv
<1>1. Init => BudgetInv
  BY DEF Init, StoreInit, WorkerInit, IdleWorker, BudgetInv, RetryBudget, SnapshotAgrees
<1>2. TypeOK /\ BudgetInv /\ [Next]_vars => BudgetInv'
  <2> SUFFICES ASSUME TypeOK, BudgetInv, [Next]_vars PROVE BudgetInv'
    OBVIOUS
  <2>1. CASE Next
    BY <2>1, WorkerBudget, SchedBudget, ApiBudget, TimeBudget, ZenonT(60) DEF Next
  <2>2. CASE UNCHANGED vars
    BY <2>2, Zenon DEF vars, storeVars, BudgetInv, RetryBudget, SnapshotAgrees, Exists
  <2> QED BY <2>1, <2>2
<1> QED BY <1>1, <1>2, TypeCorrect, PTL DEF Spec

\* For every workload and any number of workers, schedulers, requests and faults:
\* no row waits for a retry beyond its max_retries and none is dead before they are
\* used up, although statuses are overwritten without being read and from
\* snapshots of any age.
THEOREM RetryBudgetHolds == Spec => []RetryBudget
<1>1. BudgetInv => RetryBudget
  BY DEF BudgetInv
<1> QED BY <1>1, BudgetInvariant, PTL
=============================================================================
