---------------------------- MODULE EarlyProofs ----------------------------
(***************************************************************************)
(* NeverEarly holds for every instance of the pipeline.  It takes many     *)
(* steps to execute a job, so the invariant speaks of the first of them:   *)
(* while run_at lies ahead, nothing but the request that created the job   *)
(* and its entry in the sorted set knows the id.                           *)
(***************************************************************************)
EXTENDS GoQueueProofs

\* The job has yet to be created, or its run_at to be reached.
Ahead(id) == id > created \/ (Exists(id) /\ jobs[id].runAt = "future")

LoopFree(id) ==
  \A i \in Instance :
    /\ id \notin promoting[i].batch
    /\ promoting[i].pc # "next" => promoting[i].id # id
    /\ \A job \in recovering[i] : job.id # id
    /\ \A job \in expiring[i] : job.id # id

WorkerFree(id) == \A w \in Worker : worker[w].id # id

\* Only a request that defers or cancels the job is under way.
RequestFree(id) ==
  \A c \in Client : request[c].id = id =>
    /\ id \in 1 .. created
    /\ request[c].pc = "cancel" \/ (request[c].pc = "enqueue" /\ request[c].deferred)

RowFree(id) ==
  IF Exists(id) THEN jobs[id].status \in {"scheduled", "cancelled"} ELSE scheduled[id] = "absent"

Early(id) ==
  /\ scheduled[id] # "due" /\ ~InList(id)
  /\ LoopFree(id) /\ WorkerFree(id) /\ RequestFree(id) /\ RowFree(id)

EarlyInv == \A id \in JobId : Ahead(id) => Early(id)

----------------------------------------------------------------------------
(* What the operations leave alone.                                        *)

\* An update of one row leaves every run_at and every other status.
LEMMA UpdateKeeps ==
  ASSUME StoreTypeOK, NEW id, NEW status, NEW count,
         UpdateJobStatus(id, status) \/ UpdateJobError(id, status, count)
  PROVE  /\ created' = created /\ DOMAIN jobs' = DOMAIN jobs
         /\ \A k \in DOMAIN jobs : /\ jobs'[k].runAt = jobs[k].runAt
                                   /\ k # id => jobs'[k].status = jobs[k].status
BY DEF UpdateJobStatus, UpdateJobError, Exists, StoreTypeOK, Row

\* A push adds no other id to the lists.
LEMMA PushAdds ==
  ASSUME QueueTypeOK, NEW q \in QueueName, NEW id \in JobId, Push(q, id), NEW k, k # id
  PROVE  scheduled' = scheduled /\ (InList(k)' => InList(k))
<1>0. lists[q] \in Seq(JobId)
  BY DEF QueueTypeOK
<1>1. CASE lists' = lists
  BY <1>1 DEF Push, InList
<1>2. CASE lists' = [lists EXCEPT ![q] = Append(lists[q], id)]
  <2>1. lists'[q] = Append(lists[q], id)
    BY <1>2 DEF QueueTypeOK
  <2>2. \A n \in DOMAIN lists'[q] :
          lists'[q][n] = k => n \in DOMAIN lists[q] /\ lists[q][n] = k
    BY <1>0, <2>1
  <2>3. \A r \in QueueName : r # q => lists'[r] = lists[r]
    BY <1>2 DEF QueueTypeOK
  <2>4. InList(k)' => InList(k)
    BY <2>2, <2>3 DEF InList
  <2> QED BY <2>4 DEF Push
<1> QED BY <1>1, <1>2 DEF Push

\* A pop adds none and returns one that was there.
LEMMA PopTakes ==
  ASSUME QueueTypeOK, NEW q \in QueueName, Pop(q), NEW k
  PROVE  /\ scheduled' = scheduled /\ (InList(k)' => InList(k))
         /\ InList(Head(lists[q]))
<1>0. lists[q] \in Seq(JobId) /\ lists[q] # <<>>
  BY DEF QueueTypeOK, Pop
<1>1. lists'[q] = Tail(lists[q]) /\ (\A r \in QueueName : r # q => lists'[r] = lists[r])
  BY DEF QueueTypeOK, Pop
<1>2. \A n \in DOMAIN lists'[q] : n + 1 \in DOMAIN lists[q] /\ lists[q][n + 1] = lists'[q][n]
  BY <1>0, <1>1
<1>3. 1 \in DOMAIN lists[q] /\ Head(lists[q]) = lists[q][1]
  BY <1>0
<1>4. InList(k)' => InList(k)
  BY <1>1, <1>2, ZenonT(60) DEF InList
<1> QED BY <1>3, <1>4 DEF Pop, InList

\* What lies ahead after a step that inserts nothing lay ahead before it.
LEMMA AheadBack ==
  ASSUME NEW id, created' = created, DOMAIN jobs' \subseteq DOMAIN jobs,
         \A k \in DOMAIN jobs' : jobs'[k].runAt = jobs[k].runAt, Ahead(id)'
  PROVE  Ahead(id) /\ (Exists(id)' => Exists(id))
BY DEF Ahead, Exists

----------------------------------------------------------------------------
(* Every step keeps EarlyInv.                                              *)

\* A worker only ever holds jobs that are not ahead.
LEMMA WorkerEarly ==
  ASSUME TypeOK, EarlyInv, NEW w \in Worker, WorkerNext(w), NEW id \in JobId, Ahead(id)'
  PROVE  Early(id)'
<1>0. StoreTypeOK /\ QueueTypeOK /\ WorkerTypeOK
  BY DEF TypeOK
<1>1. /\ UNCHANGED <<active, promoting, recovering, expiring>> /\ request' = request
  BY DEF WorkerNext, schedVars
<1>2. created' = created /\ DOMAIN jobs' = DOMAIN jobs
      /\ \A k \in DOMAIN jobs : /\ jobs'[k].runAt = jobs[k].runAt
                                /\ k # worker[w].id => jobs'[k].status = jobs[k].status
  <2>1. CASE UNCHANGED storeVars
    BY <2>1 DEF storeVars
  <2>2. CASE ~UNCHANGED storeVars
    <3>1. \E status, count : \/ UpdateJobStatus(worker[w].id, status)
                             \/ UpdateJobError(worker[w].id, status, count)
      BY <2>2, Zenon DEF WorkerNext, WorkerStep, WorkerFault, PopJob, FetchJob, RejectUnknownType,
                  StartJob, CompleteJob, BuryJob, RetryLater, ScheduleRetry, AbandonJob, RetryUnrecorded
    <3> QED BY <1>0, <3>1, UpdateKeeps, ZenonT(60)
  <2> QED BY <2>1, <2>2
<1>3. Ahead(id) /\ Early(id)
  BY <1>2, AheadBack DEF EarlyInv
<1>4. worker[w].id # id
  BY <1>3 DEF Early, WorkerFree
<1>5. LoopFree(id)' /\ RequestFree(id)'
  BY <1>1, <1>2, <1>3 DEF Early, LoopFree, RequestFree
<1>6. /\ scheduled'[id] = scheduled[id] /\ (InList(id)' => InList(id))
      /\ WorkerFree(id)'
  <2>1. CASE PopJob(w)
    <3>1. PICK q \in QueueName : Pop(q) /\ Become(w, Popped(Head(lists[q])))
      BY <2>1 DEF PopJob
    <3>2. scheduled' = scheduled /\ (InList(id)' => InList(id)) /\ InList(Head(lists[q]))
      BY <1>0, <3>1, PopTakes
    <3>3. Head(lists[q]) # id
      BY <1>3, <3>2 DEF Early
    <3>4. WorkerFree(id)'
      BY <1>0, <1>3, <3>1, <3>3 DEF Become, Popped, WorkerTypeOK, Early, WorkerFree
    <3> QED BY <3>2, <3>4
  <2>2. CASE ~PopJob(w)
    <3>1. lists' = lists /\ scheduled'[id] = scheduled[id]
      BY <1>0, <1>4, <2>2, Zenon DEF WorkerNext, WorkerStep, WorkerFault, FetchJob, RejectUnknownType,
           StartJob, CompleteJob, BuryJob, RetryLater, ScheduleRetry, AbandonJob, RetryUnrecorded,
           queueVars, Schedule, QueueTypeOK
    <3>2. worker'[w].id \in {0, worker[w].id}
      BY <1>0, <2>2, SMTT(30) DEF WorkerNext, WorkerStep, WorkerFault, FetchJob, RejectUnknownType,
           StartJob, CompleteJob, BuryJob, RetryLater, ScheduleRetry, AbandonJob, RetryUnrecorded,
           Become, Goto, IdleWorker, WorkerTypeOK, WorkerState
    <3>3. \A v \in Worker : v # w => worker'[v] = worker[v]
      BY <1>0, <2>2, Zenon DEF WorkerNext, WorkerStep, WorkerFault, FetchJob, RejectUnknownType,
           StartJob, CompleteJob, BuryJob, RetryLater, ScheduleRetry, AbandonJob, RetryUnrecorded,
           Become, Goto, WorkerTypeOK
    <3>4. id # 0
      BY DEF JobId
    <3>5. WorkerFree(id)'
      BY <1>3, <1>4, <3>2, <3>3, <3>4, Zenon DEF Early, WorkerFree
    <3> QED BY <3>1, <3>5, Zenon DEF InList
  <2> QED BY <2>1, <2>2
<1>7. RowFree(id)'
  BY <1>2, <1>3, <1>4, <1>6, Zenon DEF Early, RowFree, Exists
<1> QED BY <1>3, <1>5, <1>6, <1>7 DEF Early

\* The loops take up what is due, pending without run_at, or running.
LEMMA SchedEarly ==
  ASSUME TypeOK, EarlyInv, NEW i \in Instance, SchedNext(i), NEW id \in JobId, Ahead(id)'
  PROVE  Early(id)'
<1>0. StoreTypeOK /\ QueueTypeOK /\ SchedTypeOK /\ promoting[i] \in Promotion
  BY DEF TypeOK, SchedTypeOK
<1> DEFINE Steps == \/ Start(i) \/ Stop(i) \/ TakeDueJobs(i) \/ FetchDueJob(i) \/ PushDueJob(i)
                    \/ MarkPending(i) \/ SkipDueJob(i) \/ FindUnqueued(i) \/ PushUnqueued(i)
                    \/ SkipUnqueued(i) \/ FindStale(i) \/ FailStale(i) \/ SkipStale(i)
<1>1. /\ worker' = worker /\ request' = request
      /\ Steps
  BY DEF SchedNext, SchedStep, SchedFault, runScheduledLoop, runRecoveryLoop, runStaleCheckLoop
<1>2. /\ created' = created /\ DOMAIN jobs' = DOMAIN jobs
      /\ \A k \in DOMAIN jobs : jobs'[k].runAt = jobs[k].runAt
      /\ Early(id) => (\A k \in DOMAIN jobs : k = id => jobs'[k].status = jobs[k].status)
  <2>1. CASE MarkPending(i)
    <3>1. UpdateJobStatus(promoting[i].id, "pending") /\ promoting[i].pc # "next"
      BY <2>1 DEF MarkPending
    <3>2. Early(id) => promoting[i].id # id
      BY <3>1 DEF Early, LoopFree
    <3> QED BY <1>0, <3>1, <3>2, UpdateKeeps, Zenon
  <2>2. CASE FailStale(i)
    <3>1. PICK job \in expiring[i] : UpdateJobError(job.id, "failed", job.retryCount)
      BY <2>2 DEF FailStale
    <3>2. Early(id) => job.id # id
      BY DEF Early, LoopFree
    <3> QED BY <1>0, <3>1, <3>2, UpdateKeeps
  <2>3. CASE ~MarkPending(i) /\ ~FailStale(i)
    <3>1. UNCHANGED storeVars
      BY <1>1, <2>3, Zenon DEF Start, Stop, TakeDueJobs, FetchDueJob, PushDueJob, SkipDueJob,
           FindUnqueued, PushUnqueued, SkipUnqueued, FindStale, SkipStale
    <3> QED BY <3>1 DEF storeVars
  <2> QED BY <2>1, <2>2, <2>3
<1>3. Ahead(id) /\ Early(id)
  BY <1>2, AheadBack, Zenon DEF EarlyInv
<1>4. WorkerFree(id)' /\ RequestFree(id)'
  BY <1>1, <1>2, <1>3, Zenon DEF Early, WorkerFree, RequestFree
<1>5. /\ scheduled'[id] = scheduled[id] /\ (InList(id)' => InList(id))
  <2>1. CASE TakeDueJobs(i)
    BY <1>0, <1>3, <2>1, Zenon DEF TakeDueJobs, GetDueJobs, DueJobs, InList, Early
  <2>2. CASE PushDueJob(i)
    <3>1. /\ Push(promoting[i].queue, promoting[i].id) /\ promoting[i].pc = "push"
          /\ promoting[i].queue \in QueueName /\ promoting[i].id \in JobId
      BY <1>0, <2>2 DEF PushDueJob, Promotion, Between
    <3>2. promoting[i].id # id
      BY <1>3, <3>1 DEF Early, LoopFree
    <3> QED BY <1>0, <3>1, <3>2, PushAdds, SMTT(30)
  <2>3. CASE PushUnqueued(i)
    <3>1. PICK job \in recovering[i] : Push(job.queue, job.id)
      BY <2>3 DEF PushUnqueued
    <3>2. job.queue \in QueueName /\ job.id \in JobId
      BY <1>0, <3>1 DEF SchedTypeOK
    <3>3. job.id # id
      BY <1>3 DEF Early, LoopFree
    <3> QED BY <1>0, <3>1, <3>2, <3>3, PushAdds, Zenon
  <2>4. CASE ~TakeDueJobs(i) /\ ~PushDueJob(i) /\ ~PushUnqueued(i)
    <3>1. UNCHANGED queueVars
      BY <1>1, <2>4, ZenonT(60) DEF Start, Stop, FetchDueJob, MarkPending, SkipDueJob,
           FindUnqueued, SkipUnqueued, FindStale, FailStale, SkipStale
    <3> QED BY <3>1, SMTT(30) DEF queueVars, InList
  <2> QED BY <2>1, <2>2, <2>3, <2>4, Zenon
<1>6. LoopFree(id)'
  <2>1. /\ \A j \in Instance : j # i => /\ promoting'[j] = promoting[j]
                                        /\ recovering'[j] = recovering[j]
                                        /\ expiring'[j] = expiring[j]
    BY <1>0, <1>1, Zenon DEF Start, Stop, TakeDueJobs, FetchDueJob, PushDueJob, MarkPending, SkipDueJob,
         FindUnqueued, PushUnqueued, SkipUnqueued, FindStale, FailStale, SkipStale, Promote,
         RecoverNext, SchedTypeOK
  <2>2. id \notin promoting'[i].batch /\ (promoting'[i].pc # "next" => promoting'[i].id # id)
    <3>1. /\ id \notin promoting[i].batch
          /\ promoting[i].pc # "next" => promoting[i].id # id
      BY <1>3, Zenon DEF Early, LoopFree
    <3>2. CASE TakeDueJobs(i)
      <4>1. promoting'[i] = Between(DueJobs)
        BY <1>0, <3>2 DEF TakeDueJobs, Promote, SchedTypeOK
      <4>2. id \notin DueJobs
        BY <1>3, ZenonT(60) DEF Early, DueJobs
      <4> QED BY <4>1, <4>2, SMTT(30) DEF Between
    <3>3. CASE FetchDueJob(i)
      <4>1. PICK k \in promoting[i].batch :
              Promote(i, IF Exists(k)
                    THEN [batch |-> promoting[i].batch \ {k}, pc |-> "push", id |-> k,
                          queue |-> jobs[k].queue, status |-> jobs[k].status]
                    ELSE Between(promoting[i].batch \ {k}))
        BY <3>3, Zenon DEF FetchDueJob
      <4> QED BY <1>0, <3>1, <4>1 DEF Promote, Between, SchedTypeOK
    <3>4. CASE PushDueJob(i)
      <4>1. promoting[i].pc = "push"
        BY <3>4 DEF PushDueJob
      <4>2. \/ promoting'[i] = [promoting[i] EXCEPT !.pc = "mark"]
            \/ promoting'[i] = Between(promoting[i].batch)
        BY <1>0, <3>4, Zenon DEF PushDueJob, Promote, SchedTypeOK
      <4> QED BY <1>0, <3>1, <4>1, <4>2 DEF Between, Promotion
    <3>5. CASE MarkPending(i) \/ SkipDueJob(i) \/ Stop(i)
      <4>1. \E batch \in SUBSET promoting[i].batch : promoting'[i] = Between(batch)
        BY <1>0, <3>5, Zenon DEF MarkPending, SkipDueJob, Stop, Promote, SchedTypeOK
      <4> QED BY <3>1, <4>1 DEF Between
    <3>6. CASE promoting' = promoting
      BY <3>1, <3>6
    <3> QED BY <1>1, <3>2, <3>3, <3>4, <3>5, <3>6, Zenon DEF Start, FindUnqueued, PushUnqueued,
         SkipUnqueued, FindStale, FailStale, SkipStale, RecoverNext
  <2>3. \A job \in recovering'[i] : job.id # id
    <3>1. CASE FindUnqueued(i)
      <4>1. recovering'[i] = {[id |-> k, queue |-> jobs[k].queue] : k \in GetPendingUnqueued}
        BY <1>0, <3>1, Zenon DEF FindUnqueued, SchedTypeOK
      <4>2. id \notin GetPendingUnqueued
        BY <1>0, <1>3, Zenon DEF Ahead, Exists, GetPendingUnqueued, PendingOld, Oldest, StoreTypeOK, Early, RowFree
      <4> QED BY <4>1, <4>2
    <3>2. CASE ~FindUnqueued(i)
      <4>1. recovering'[i] \subseteq recovering[i]
        BY <1>0, <1>1, <3>2, Zenon DEF Start, Stop, TakeDueJobs, FetchDueJob, PushDueJob, MarkPending,
             SkipDueJob, PushUnqueued, SkipUnqueued, FindStale, FailStale, SkipStale, Promote,
             RecoverNext, SchedTypeOK
      <4> QED BY <1>3, <4>1, Zenon DEF Early, LoopFree
    <3> QED BY <3>1, <3>2, Zenon
  <2>4. \A job \in expiring'[i] : job.id # id
    <3>1. CASE FindStale(i)
      <4>1. PICK ids \in GetStaleRunningJobs :
              expiring'[i] = {[id |-> k, retryCount |-> jobs[k].retryCount] : k \in ids}
        BY <1>0, <3>1, Zenon DEF FindStale, SchedTypeOK
      <4>2. ids \subseteq StaleRunning
        BY <4>1, Zenon DEF GetStaleRunningJobs
      <4>3. id \notin StaleRunning
        BY <1>3, SMTT(30) DEF StaleRunning, Early, RowFree, Exists
      <4> QED BY <4>1, <4>2, <4>3
    <3>2. CASE ~FindStale(i)
      <4>1. expiring'[i] \subseteq expiring[i]
        BY <1>0, <1>1, <3>2, ZenonT(60) DEF Start, Stop, TakeDueJobs, FetchDueJob, PushDueJob, MarkPending,
             SkipDueJob, FindUnqueued, PushUnqueued, SkipUnqueued, FailStale, SkipStale, Promote,
             RecoverNext, SchedTypeOK
      <4> QED BY <1>3, <4>1 DEF Early, LoopFree
    <3> QED BY <3>1, <3>2
  <2> QED BY <1>3, <2>1, <2>2, <2>3, <2>4 DEF Early, LoopFree
<1>7. RowFree(id)'
  BY <1>2, <1>3, <1>5 DEF Early, RowFree, Exists
<1> QED BY <1>3, <1>4, <1>5, <1>6, <1>7, SMTT(30) DEF Early

\* A request that moves on to a new state leaves the others.
LEMMA AwaitKeeps ==
  ASSUME ApiTypeOK, NEW c \in Client, NEW state, Await(c, state), NEW id, RequestFree(id),
         created' = created,
         state.id = id => /\ id \in 1 .. created
                          /\ state.pc = "cancel" \/ (state.pc = "enqueue" /\ state.deferred)
  PROVE  RequestFree(id)'
BY DEF ApiTypeOK, Await, RequestFree

\* A new job starts with its request; a request for an old one was refused
\* unless it cancels.
LEMMA ApiEarly ==
  ASSUME TypeOK, EarlyInv, NEW c \in Client, ApiNext(c), NEW id \in JobId, Ahead(id)'
  PROVE  Early(id)'
<1>0. StoreTypeOK /\ QueueTypeOK /\ ApiTypeOK /\ request[c] \in RequestState
  BY DEF TypeOK, ApiTypeOK
<1>1. /\ worker' = worker /\ UNCHANGED <<active, promoting, recovering, expiring>>
  BY DEF ApiNext, schedVars
<1>2. id # 0 /\ id \in Nat /\ created \in Nat
  BY <1>0, StoreAssumption, SMTT(30) DEF JobId, StoreTypeOK
<1>3. Early(id) => LoopFree(id)' /\ WorkerFree(id)'
  BY <1>1 DEF Early, LoopFree, WorkerFree
<1>4. ASSUME NEW req \in Request, CreateJob(c, req) PROVE Early(id)'
  <2> DEFINE new == created + 1
             row == [queue |-> req.queue, type |-> req.type,
                     maxRetries |-> req.maxRetries, retryCount |-> 0,
                     status |-> IF req.runAt = "null" THEN "pending" ELSE "scheduled",
                     runAt |-> req.runAt, createdAt |-> "recent", startedAt |-> "null"]
             state == [pc |-> "enqueue", id |-> new, queue |-> req.queue,
                       deferred |-> req.runAt # "null"]
  <2>1. /\ created' = new /\ Await(c, state) /\ UNCHANGED <<lists, scheduled>>
        /\ jobs' = [k \in DOMAIN jobs \cup {new} |-> IF k = new THEN row ELSE jobs[k]]
    BY <1>4, Zenon DEF CreateJob, InsertRow, queueVars
  <2>2. /\ DOMAIN jobs' = DOMAIN jobs \cup {new} /\ jobs'[new] = row
        /\ \A k \in DOMAIN jobs : k # new => jobs'[k] = jobs[k]
    BY <2>1, Zenon
  <2>3. /\ request'[c] = state
        /\ \A d \in Client : d # c => request'[d] = request[d]
    BY <1>0, <2>1, Zenon DEF Await, ApiTypeOK
  <2>r. /\ row.runAt = req.runAt
        /\ row.status = IF req.runAt = "null" THEN "pending" ELSE "scheduled"
        /\ state.pc = "enqueue" /\ state.id = new /\ state.deferred = (req.runAt # "null")
    OBVIOUS
  <2> HIDE DEF row, state
  <2>4. new \notin DOMAIN jobs
    BY <1>0, <1>2 DEF StoreTypeOK
  <2>5. Ahead(id)
    <3>1. CASE id = new
      BY <1>2, <3>1 DEF Ahead
    <3>2. CASE id # new
      BY <1>2, <2>1, <2>2, <3>2 DEF Ahead, Exists
    <3> QED BY <3>1, <3>2
  <2>6. Early(id)
    BY <2>5, Zenon DEF EarlyInv
  <2>7. CASE id = new
    <3>1. jobs'[id].runAt = "future"
      <4>1. ~(id > created') /\ Exists(id)'
        BY <1>2, <2>1, <2>2, <2>7 DEF Exists
      <4> QED BY <4>1 DEF Ahead
    <3>2. req.runAt = "future"
      BY <2>2, <2>7, <2>r, <3>1, Zenon
    <3>3. RowFree(id)'
      BY <2>2, <2>7, <2>r, <3>2, Zenon DEF RowFree, Exists
    <3>4. RequestFree(id)'
      <4>1. \A d \in Client : request[d].id # id
        BY <1>2, <2>6, <2>7 DEF Early, RequestFree
      <4>2. id \in 1 .. created'
        BY <1>2, <2>1, <2>7
      <4>3. state.pc = "enqueue" /\ state.deferred
        BY <2>r, <3>2, Zenon
      <4>4. ASSUME NEW d \in Client, request'[d].id = id PROVE d = c
        BY <2>3, <4>1, <4>4, Zenon
      <4> QED BY <2>3, <4>2, <4>3, <4>4, ZenonT(60) DEF RequestFree
    <3> QED BY <1>3, <2>1, <2>6, <3>3, <3>4, Zenon DEF Early, InList
  <2>8. CASE id # new
    <3>1. RowFree(id)'
      BY <2>1, <2>2, <2>6, <2>8, Zenon DEF Early, RowFree, Exists
    <3>2. RequestFree(id)'
      <4>1. 1 .. created \subseteq 1 .. created'
        BY <1>2, <2>1
      <4>2. RequestFree(id)
        BY <2>6, Zenon DEF Early
      <4>3. ASSUME NEW d \in Client, request'[d].id = id PROVE request'[d] = request[d]
        BY <2>3, <2>8, <2>r, <4>3, Zenon
      <4> QED BY <4>1, <4>2, <4>3, Zenon DEF RequestFree
    <3> QED BY <1>3, <2>1, <2>6, <3>1, <3>2 DEF Early, InList
  <2> QED BY <2>7, <2>8, Zenon
<1>5. ASSUME EnqueueCreated(c) PROVE Early(id)'
  <2> DEFINE k == request[c].id
  <2>1. created' = created /\ jobs' = jobs /\ Await(c, NoRequest) /\ request[c].pc = "enqueue"
    BY <1>5, Zenon DEF EnqueueCreated, storeVars
  <2>2. Ahead(id) /\ Early(id)
    BY <2>1, Zenon DEF Ahead, Exists, EarlyInv
  <2>3. RequestFree(id)'
    BY <1>0, <1>2, <2>1, <2>2, AwaitKeeps DEF NoRequest, Early
  <2>4. k \in JobId /\ request[c].queue \in QueueName
    BY <1>0, <2>1, Submitting, Zenon
  <2>5. /\ scheduled'[id] # "due" /\ (InList(id)' => InList(id))
        /\ RowFree(id)'
    <3>1. CASE k = id
      <4>1. request[c].deferred /\ id \in 1 .. created
        BY <2>1, <2>2, <3>1, Zenon DEF Early, RequestFree
      <4>2. Exists(id) /\ jobs[id].runAt = "future"
        BY <1>2, <2>2, <4>1 DEF Ahead
      <4>3. Schedule(id, "future")
        BY <1>5, <3>1, <4>1, <4>2, Zenon DEF EnqueueCreated
      <4> QED BY <1>0, <2>1, <2>2, <4>2, <4>3, Zenon DEF Schedule, QueueTypeOK, InList, Early, RowFree, Exists
    <3>2. CASE k # id
      <4>1. CASE request[c].deferred
        <5>1. \E score : Schedule(k, score)
          BY <1>5, <4>1, Zenon DEF EnqueueCreated
        <5> QED BY <1>0, <2>1, <2>2, <3>2, <5>1, Zenon DEF Schedule, QueueTypeOK, InList, Early, RowFree, Exists
      <4>2. CASE ~request[c].deferred
        <5>1. Push(request[c].queue, k)
          BY <1>5, <4>2, Zenon DEF EnqueueCreated
        <5>2. scheduled' = scheduled /\ (InList(id)' => InList(id))
          BY <1>0, <2>4, <3>2, <5>1, PushAdds, Zenon
        <5> QED BY <2>1, <2>2, <5>2, Zenon DEF Early, RowFree, Exists
      <4> QED BY <4>1, <4>2, Zenon
    <3> QED BY <3>1, <3>2, Zenon
  <2> QED BY <1>3, <2>2, <2>3, <2>5, ZenonT(60) DEF Early
<1>6. ASSUME NEW k \in JobId, CheckCancel(c, k) \/ CheckRetry(c, k) \/ DeleteJob(c, k)
      PROVE  Early(id)'
  <2>1. /\ created' = created /\ UNCHANGED <<lists, scheduled>>
        /\ DOMAIN jobs' \subseteq DOMAIN jobs /\ \A j \in DOMAIN jobs' : jobs'[j] = jobs[j]
        /\ Exists(k)
    BY <1>6, Zenon DEF CheckCancel, CheckRetry, DeleteJob, DeleteRow, storeVars, queueVars
  <2>2. Ahead(id) /\ Early(id) /\ (Exists(id) => Exists(id)' \/ jobs[id].status = "dead")
    <3>1. Ahead(id) /\ Early(id)
      BY <2>1 DEF Ahead, Exists, EarlyInv
    <3> QED BY <1>6, <3>1, Zenon DEF CheckCancel, CheckRetry, DeleteJob, DeleteRow, storeVars, Exists
  <2>3. k \in 1 .. created
    BY <1>0, <2>1 DEF StoreTypeOK, Exists
  <2>4. RequestFree(id)'
    <3>1. CASE CheckCancel(c, k)
      BY <1>0, <2>1, <2>2, <2>3, <3>1, AwaitKeeps, SMTT(30) DEF CheckCancel, Early
    <3>2. CASE CheckRetry(c, k)
      <4>1. k # id
        BY <2>2, <3>2, Zenon DEF CheckRetry, Early, RowFree
      <4>2. PICK state : Await(c, state) /\ state.id = k
        BY <3>2, SMTT(30) DEF CheckRetry
      <4> QED BY <1>0, <2>1, <2>2, <4>1, <4>2, AwaitKeeps, Zenon DEF Early
    <3>3. CASE DeleteJob(c, k)
      BY <2>1, <2>2, <3>3, Zenon DEF DeleteJob, Early, RequestFree
    <3> QED BY <1>6, <3>1, <3>2, <3>3, ZenonT(60)
  <2>5. RowFree(id)'
    BY <2>1, <2>2, Zenon DEF Early, RowFree, Exists
  <2> QED BY <1>3, <2>1, <2>2, <2>4, <2>5, Zenon DEF Early, InList
<1>7. ASSUME CancelJob(c) PROVE Early(id)'
  <2>1. UpdateJobStatus(request[c].id, "cancelled") /\ Await(c, NoRequest) /\ UNCHANGED <<lists, scheduled>>
    BY <1>7 DEF CancelJob, queueVars
  <2>2. /\ created' = created /\ DOMAIN jobs' = DOMAIN jobs
        /\ \A k \in DOMAIN jobs : /\ jobs'[k].runAt = jobs[k].runAt
                                  /\ k # request[c].id => jobs'[k].status = jobs[k].status
    BY <1>0, <2>1, UpdateKeeps, ZenonT(60)
  <2>3. Ahead(id) /\ Early(id)
    BY <2>2, AheadBack, Zenon DEF EarlyInv
  <2>4. RequestFree(id)'
    BY <1>0, <1>2, <2>1, <2>2, <2>3, AwaitKeeps DEF NoRequest, Early
  <2>5. Exists(id) /\ id = request[c].id => jobs'[id].status = "cancelled"
    BY <1>0, <2>1, Zenon DEF UpdateJobStatus, Exists, StoreTypeOK, Row
  <2>6. RowFree(id)'
    BY <2>1, <2>2, <2>3, <2>5 DEF Early, RowFree, Exists
  <2> QED BY <1>3, <2>1, <2>3, <2>4, <2>6, Zenon DEF Early, InList
<1>8. ASSUME RetryJob(c) PROVE Early(id)'
  <2>1. /\ UpdateJobError(request[c].id, "pending", 0) /\ UNCHANGED <<lists, scheduled>>
        /\ Await(c, [request[c] EXCEPT !.pc = "push"]) /\ request[c].pc = "retry"
    BY <1>8 DEF RetryJob, queueVars
  <2>2. /\ created' = created /\ DOMAIN jobs' = DOMAIN jobs
        /\ \A k \in DOMAIN jobs : /\ jobs'[k].runAt = jobs[k].runAt
                                  /\ k # request[c].id => jobs'[k].status = jobs[k].status
    BY <1>0, <2>1, UpdateKeeps, SMTT(30)
  <2>3. Ahead(id) /\ Early(id)
    <3>1. Ahead(id)
      BY <2>2, AheadBack
    <3> QED BY <3>1, Zenon DEF EarlyInv
  <2>4. request[c].id # id
    BY <2>1, <2>3 DEF Early, RequestFree
  <2>5. RequestFree(id)'
    <3>1. [request[c] EXCEPT !.pc = "push"].id = request[c].id
      BY <1>0, <2>1 DEF RequestState, NoRequest
    <3> QED BY <1>0, <2>1, <2>2, <2>3, <2>4, <3>1, AwaitKeeps, Zenon DEF Early
  <2>6. RowFree(id)'
    BY <2>1, <2>2, <2>3, <2>4, Zenon DEF Early, RowFree, Exists
  <2> QED BY <1>3, <2>1, <2>3, <2>5, <2>6, Zenon DEF Early, InList
<1>9. ASSUME PushRetried(c) PROVE Early(id)'
  <2>1. /\ created' = created /\ jobs' = jobs /\ Await(c, NoRequest) /\ request[c].pc = "push"
        /\ Push(request[c].queue, request[c].id)
    BY <1>9 DEF PushRetried, storeVars
  <2>2. Ahead(id) /\ Early(id)
    BY <2>1, Zenon DEF Ahead, Exists, EarlyInv
  <2>3. request[c].id # id
    BY <2>1, <2>2, Zenon DEF Early, RequestFree
  <2>4. request[c].id \in JobId /\ request[c].queue \in QueueName
    BY <1>0, <2>1, Submitting, Zenon
  <2>5. scheduled' = scheduled /\ (InList(id)' => InList(id))
    BY <1>0, <2>1, <2>3, <2>4, PushAdds, Zenon
  <2>6. RequestFree(id)'
    BY <1>0, <1>2, <2>1, <2>2, AwaitKeeps DEF NoRequest, Early
  <2> QED BY <1>3, <2>1, <2>2, <2>5, <2>6, ZenonT(60) DEF Early, RowFree, Exists
<1>10. ASSUME RequestFails(c) PROVE Early(id)'
  <2>1. created' = created /\ jobs' = jobs /\ UNCHANGED <<lists, scheduled>> /\ Await(c, NoRequest)
    BY <1>10 DEF RequestFails, storeVars, queueVars
  <2>2. Ahead(id) /\ Early(id)
    BY <2>1, Zenon DEF Ahead, Exists, EarlyInv
  <2>3. RequestFree(id)'
    BY <1>0, <1>2, <2>1, <2>2, AwaitKeeps, SMTT(30) DEF NoRequest, Early
  <2> QED BY <1>3, <2>1, <2>2, <2>3, Zenon DEF Early, RowFree, Exists, InList
<1> QED BY <1>4, <1>5, <1>6, <1>7, <1>8, <1>9, <1>10, ZenonT(60) DEF ApiNext, NewRequest, RequestStep

\* An entry falls due when run_at is reached, not before.
LEMMA TimeEarly ==
  ASSUME TypeOK, EarlyInv, NEW k \in JobId, TimeNext(k), NEW id \in JobId, Ahead(id)'
  PROVE  Early(id)'
<1>0. StoreTypeOK /\ QueueTypeOK
  BY DEF TypeOK
<1>1. /\ worker' = worker /\ request' = request /\ UNCHANGED <<active, promoting, recovering, expiring>>
      /\ created' = created /\ lists' = lists
  BY DEF TimeNext, TimePasses, CreatedAtAges, StartedAtAges, RunAtArrives, BackoffElapses,
         schedVars, storeVars, queueVars
<1>2. /\ DOMAIN jobs' = DOMAIN jobs
      /\ \A j \in DOMAIN jobs : /\ jobs'[j].status = jobs[j].status
                                /\ jobs'[j].runAt = "future" => jobs[j].runAt = "future"
  BY <1>0, SMTT(30) DEF TimeNext, TimePasses, CreatedAtAges, StartedAtAges, RunAtArrives, BackoffElapses,
         storeVars, StoreTypeOK, Row
<1>3. Ahead(id) /\ Early(id)
  BY <1>1, <1>2, Zenon DEF Ahead, Exists, EarlyInv
<1>4. scheduled'[id] = scheduled[id]
  <2>1. CASE RunAtArrives(k)
    <3>1. Exists(k) /\ jobs'[k].runAt = "past" /\ k \in 1 .. created
      BY <1>0, <2>1, Zenon DEF RunAtArrives, Exists, StoreTypeOK, Row
    <3>2. ~Ahead(k)'
      BY <1>0, <1>1, <3>1 DEF Ahead, StoreTypeOK
    <3>3. k # id
      BY <3>2, Zenon
    <3> QED BY <1>0, <2>1, <3>3 DEF RunAtArrives, QueueTypeOK
  <2>2. CASE BackoffElapses(k)
    <3>0. Exists(id) => ~(id > created)
      BY <1>0, StoreAssumption, SMTT(30) DEF StoreTypeOK, Exists, JobId
    <3>1. k # id
      BY <1>3, <2>2, <3>0, Zenon DEF BackoffElapses, Ahead, Early, RowFree
    <3> QED BY <1>0, <2>2, <3>1, Zenon DEF BackoffElapses, QueueTypeOK
  <2>3. CASE UNCHANGED queueVars
    BY <2>3 DEF queueVars
  <2> QED BY <2>1, <2>2, <2>3 DEF TimeNext, TimePasses
<1> QED BY <1>1, <1>2, <1>3, <1>4, Zenon DEF Early, LoopFree, WorkerFree, RequestFree, RowFree, Exists, InList

\* For every workload and any number of workers, schedulers, requests and faults:
\* no handler is given a job whose run_at has not been reached.
THEOREM NeverEarlyHolds == Spec => []NeverEarly
<1>1. Init => EarlyInv
  BY DEF Init, StoreInit, QueueInit, WorkerInit, SchedInit, ApiInit, EarlyInv, Early, Ahead,
         InList, LoopFree, WorkerFree, RequestFree, RowFree, Exists, JobId, Between,
         IdleWorker, NoRequest
<1>2. TypeOK /\ EarlyInv /\ [Next]_vars => EarlyInv'
  <2> SUFFICES ASSUME TypeOK, EarlyInv, [Next]_vars, NEW id \in JobId, Ahead(id)'
               PROVE  Early(id)'
    BY DEF EarlyInv
  <2>1. CASE Next
    BY <2>1, WorkerEarly, SchedEarly, ApiEarly, TimeEarly, SMTT(30) DEF Next
  <2>2. CASE UNCHANGED vars
    <3>1. Ahead(id) /\ (RowFree(id) => RowFree(id)')
      BY <2>2, SMTT(30) DEF vars, storeVars, queueVars, Ahead, RowFree, Exists
    <3>2. LoopFree(id) /\ WorkerFree(id) /\ RequestFree(id) =>
            LoopFree(id)' /\ WorkerFree(id)' /\ RequestFree(id)'
      BY <2>2, Zenon DEF vars, storeVars, schedVars, LoopFree, WorkerFree, RequestFree
    <3>3. scheduled' = scheduled /\ (InList(id)' <=> InList(id))
      BY <2>2, Zenon DEF vars, queueVars, InList
    <3> QED BY <3>1, <3>2, <3>3, ZenonT(60) DEF EarlyInv, Early
  <2> QED BY <2>1, <2>2
<1>3. TypeOK /\ EarlyInv => NeverEarly
  BY StoreAssumption DEF TypeOK, StoreTypeOK, NeverEarly, EarlyInv, Early, Ahead, WorkerFree, Exists, JobId
<1> QED BY <1>1, <1>2, <1>3, TypeCorrect, PTL DEF Spec
=============================================================================
