------------------------------ MODULE GoQueue ------------------------------
(***************************************************************************)
(* The job pipeline: requests, workers and scheduler loops interleaving    *)
(* over the jobs table and the Redis structures.  Nothing in the program   *)
(* makes a step on PostgreSQL and a step on Redis atomic together.         *)
(***************************************************************************)
EXTENDS WorkerPool, Scheduler, ApiHandler

vars == <<storeVars, queueVars, envVars, worker, schedVars, request>>

Init == StoreInit /\ QueueInit /\ EnvInit /\ WorkerInit /\ SchedInit /\ ApiInit

----------------------------------------------------------------------------
(* Time.  run_at is reached for the row and for its entry in the sorted    *)
(* set at once: the entry's score is run_at.  Any other entry of the set   *)
(* is a retry, due when its backoff has elapsed.                           *)

RunAtArrives(id) ==
  /\ Exists(id) /\ jobs[id].runAt = "future"
  /\ jobs' = [jobs EXCEPT ![id].runAt = "past"]
  /\ scheduled' = [scheduled EXCEPT ![id] = IF @ = "future" THEN "due" ELSE @]
  /\ UNCHANGED <<created, lists, envVars>>

BackoffElapses(id) ==
  /\ scheduled[id] = "future"
  /\ ~(Exists(id) /\ jobs[id].runAt = "future")
  /\ scheduled' = [scheduled EXCEPT ![id] = "due"]
  /\ UNCHANGED <<storeVars, lists, envVars>>

TimePasses(id) ==
  \/ (CreatedAtAges(id) \/ StartedAtAges(id)) /\ UNCHANGED <<queueVars, envVars>>
  \/ RunAtArrives(id)
  \/ BackoffElapses(id)

----------------------------------------------------------------------------
WorkerNext(w) == (WorkerStep(w) \/ WorkerFault(w)) /\ UNCHANGED <<schedVars, request>>

SchedNext(i) == (Start(i) \/ SchedStep(i) \/ SchedFault(i)) /\ UNCHANGED <<worker, request>>

ApiNext(c) == (NewRequest(c) \/ RequestStep(c) \/ RequestFails(c)) /\ UNCHANGED <<worker, schedVars>>

TimeNext(id) == TimePasses(id) /\ UNCHANGED <<worker, schedVars, request>>

Next == \/ \E w \in Worker : WorkerNext(w)
        \/ \E i \in Instance : SchedNext(i)
        \/ \E c \in Client : ApiNext(c)
        \/ \E id \in JobId : TimeNext(id)

Spec == Init /\ [][Next]_vars

(* Every goroutine keeps running: a worker takes what its lists offer and   *)
(* its handler returns (it is given a deadline), each ticker loop of an    *)
(* active scheduler comes round, a standby becomes leader when nobody is,  *)
(* an accepted request runs on, and time passes.  No fairness for new      *)
(* requests or for faults.                                                 *)
Fairness ==
  /\ \A w \in Worker : WF_vars(WorkerStep(w) /\ UNCHANGED <<schedVars, request>>)
  /\ \A i \in Instance :
       /\ WF_vars(Start(i) /\ UNCHANGED <<worker, request>>)
       /\ WF_vars(runScheduledLoop(i) /\ UNCHANGED <<worker, request>>)
       /\ WF_vars(runRecoveryLoop(i) /\ UNCHANGED <<worker, request>>)
       /\ WF_vars(runStaleCheckLoop(i) /\ UNCHANGED <<worker, request>>)
  /\ \A c \in Client : WF_vars(RequestStep(c) /\ UNCHANGED <<worker, schedVars>>)
  /\ \A id \in JobId : WF_vars(TimeNext(id))

LiveSpec == Spec /\ Fairness

----------------------------------------------------------------------------
(* Where a job can be, besides its row.                                    *)

InSet(id) == scheduled[id] # "absent"

InList(id) == \E q \in QueueName : \E n \in DOMAIN lists[q] : lists[q][n] = id

InLoop(id) == \E i \in Instance : id \in InPromotion(i)

Carries(state, id) ==
  state.id = id /\ state.pc \in {"popped", "nohandler", "fetched", "reschedule"}

Executes(state, id) == state.id = id /\ state.pc = "executing"

Submits(state, id) == state.id = id /\ state.pc \in {"enqueue", "push"}

WithWorker(id) == \E w \in Worker : Carries(worker[w], id)

WithRequest(id) == \E c \in Client : Submits(request[c], id)

\* Some part of the system will still hand the job to a worker.
Awaiting(id) == InSet(id) \/ InList(id) \/ InLoop(id) \/ WithWorker(id) \/ WithRequest(id)

Executing(id) == \E w \in Worker : Executes(worker[w], id)

\* Every separate copy of the job's id that is under way.
ListCopy(id) ==
  UNION {{<<"list", q, n>> : n \in {m \in DOMAIN lists[q] : lists[q][m] = id}} : q \in QueueName}

Copy(id) ==
  {<<"set", e>> : e \in {scheduled[id]} \ {"absent"}} \cup ListCopy(id)
  \cup {<<"loop", i>> : i \in {j \in Instance : id \in InPromotion(j)}}
  \cup {<<"worker", w>> : w \in {v \in Worker : worker[v].id = id}}
  \cup {<<"client", c>> : c \in {d \in Client : Submits(request[d], id)}}

----------------------------------------------------------------------------
\* Every variable keeps its shape; ids that exist have been issued by an INSERT.
TypeOK == StoreTypeOK /\ QueueTypeOK /\ EnvTypeOK /\ WorkerTypeOK /\ SchedTypeOK /\ ApiTypeOK

\* Custody.  A job that no fault has touched is never forgotten: while its row
\* says scheduled or retrying, some list, set, loop, worker or request still
\* carries it towards a worker, and while it says running a worker is executing
\* it.  The row and the carrier change in separate steps of separate stores.
Custody ==
  \A id \in DOMAIN jobs \ hit :
    /\ jobs[id].status \in {"scheduled", "retrying"} => Awaiting(id)
    /\ jobs[id].status = "running" => Executing(id)

\* Single custody.  Unless the recovery loop or an overtaken RetryJob pushed it,
\* a job has at most one copy under way, so no two workers can execute it, even
\* with two schedulers active: GetDueJobs hands an entry to one of them.
SingleCustody ==
  \A id \in JobId \ requeued : Cardinality(Copy(id)) <= 1

Waiting == {id \in JobId \ requeued : InSet(id) \/ InList(id) \/ InLoop(id) \/ WithRequest(id)}
Holding == [w \in Worker |-> IF worker[w].id \in requeued THEN 0 ELSE worker[w].id]

Promise == INSTANCE Delivery WITH Job <- JobId, None <- 0, waiting <- Waiting, holding <- Holding,
                                  lost <- hit, exempt <- requeued

\* Delivery.  The requests, the scheduler loops and the workers, moving ids
\* between four stores in separate steps, hand a job to one worker per
\* submission or retry, and drop a job that waits only when a call fails.
DeliveryKept == Promise!Spec

\* Retry budget.  Status and retry_count are written together by handleFailure
\* but status also alone, and both from stale snapshots: still no row waits for a
\* retry beyond its max_retries, and none is dead before they are used up.  What
\* happens exactly at max_retries is DeadWhenExceeded.
RetryBudget ==
  \A id \in DOMAIN jobs :
    /\ jobs[id].status = "retrying" => jobs[id].retryCount \in 1 .. jobs[id].maxRetries
    /\ jobs[id].status = "dead" => jobs[id].retryCount >= jobs[id].maxRetries

\* A max_retries of zero allows one attempt like a max_retries of one.
HasAttempt(maxRetries, retryCount) == retryCount < IF maxRetries > 1 THEN maxRetries ELSE 1

\* A handler is called only while the job has an attempt left.  The stale check
\* may write an older retry_count back, CancelJob may overwrite `dead' and an
\* unknown type may end in `failed': a job whose attempts are used up still
\* reaches no worker before RetryJob has reset the count.
AttemptLeft ==
  \A w \in Worker :
    worker[w].pc = "executing" /\ worker[w].id \notin requeued =>
      HasAttempt(worker[w].maxRetries, worker[w].retryCount)

\* A job with run_at is not handed to a handler before the second of that
\* instant, whichever of the recovery paths it takes.
NeverEarly ==
  \A w \in Worker :
    LET id == worker[w].id IN
    worker[w].pc = "executing" /\ Exists(id) => jobs[id].runAt # "future"

----------------------------------------------------------------------------
HasStatus(id, status) == Exists(id) /\ jobs[id].status = status

Served(id) == Exists(id) /\ \E n \in DOMAIN queues : queues[n] = jobs[id].queue

\* No job is left running: whoever was executing it may be gone, but then the
\* stale check fails the row.  Holds whatever the faults, since started_at is
\* set by the same statement that sets the status.
NoStuckRunning ==
  \A id \in JobId : []<>~HasStatus(id, "running")

\* BRPOP has something to take from a queue listed before the job's own.
Overtaken(id) ==
  \E n, m \in DOMAIN queues : n < m /\ queues[m] = jobs[id].queue /\ lists[queues[n]] # <<>>

\* Older rows fill the batch of the recovery query, served or not.
Crowded(id) ==
  Cardinality({k \in DOMAIN jobs : k < id /\ HasStatus(k, "pending") /\ jobs[k].runAt = "null"})
    >= BatchLimit

\* A pending job without run_at, in a queue that is served, leaves pending: if
\* its list entry was never written or was lost, the recovery loop writes one.
\* Two things keep it waiting and nothing else does: a queue of higher priority
\* that fills again and again, and a batch that is full of older rows, such as
\* those of a queue nobody serves.
ImmediateDelivered ==
  \A id \in JobId :
    []<>(HasStatus(id, "pending") /\ jobs[id].runAt = "null" /\ Served(id)
           => Overtaken(id) \/ Crowded(id))

----------------------------------------------------------------------------
(* What the documentation and the tests say, and the code does not do.     *)

\* model/job_test.go lists cancelled -> running as a transition that must not
\* happen: a cancelled job is not executed.
CancelledNeverRuns ==
  [][\A id \in DOMAIN jobs \cap DOMAIN jobs' :
       jobs[id].status = "cancelled" => jobs'[id].status # "running"]_vars

\* README, state machine: nothing leaves completed.  In particular a finished
\* job is not opened again, which would execute it a second time.
CompletedNotReopened ==
  [][\A id \in DOMAIN jobs \cap DOMAIN jobs' :
       jobs[id].status = "completed" => jobs'[id].status \notin {"pending", "running"}]_vars

\* README and the comment of handleFailure: a job goes to the dead letter queue
\* when its retries exceed max_retries.
DeadWhenExceeded ==
  \A id \in DOMAIN jobs : jobs[id].status = "dead" => jobs[id].retryCount > jobs[id].maxRetries

\* README and CreateJob: a job created with run_at is reserved for that time.
DeferredDelivered ==
  \A id \in JobId : []<>~(HasStatus(id, "scheduled") /\ Served(id))
=============================================================================
