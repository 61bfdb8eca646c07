----------------------------- MODULE Scheduler -----------------------------
(***************************************************************************)
(* The three background loops (internal/scheduler/scheduler.go), per       *)
(* instance: they run between Start, called when the instance becomes      *)
(* leader, and Stop, called when it has lost leadership.  Two instances    *)
(* can be active at once: the lock is gone before the loser notices.       *)
(***************************************************************************)
EXTENDS RedisQueue, Environment

CONSTANTS Instance

VARIABLES active,        \* Scheduler.running
          promoting,     \* progress of processScheduledJobs
          recovering,    \* rows recoverUnqueuedJobs still has to push
          expiring       \* rows recoverStaleJobs still has to fail

schedVars == <<active, promoting, recovering, expiring>>

Between(batch) ==
  [batch |-> batch, pc |-> "next", id |-> 0, queue |-> "none", status |-> "none"]

\* `batch' holds the due ids not looked at yet; the rest is the current one.
Promotion ==
  {Between(batch) : batch \in SUBSET JobId} \cup
  [batch : SUBSET JobId, pc : {"push", "mark"},
   id : JobId, queue : QueueName, status : JobStatus]

SchedTypeOK ==
  /\ active \in [Instance -> BOOLEAN]
  /\ promoting \in [Instance -> Promotion]
  /\ recovering \in [Instance -> SUBSET [id : JobId, queue : QueueName]]
  /\ expiring \in [Instance -> SUBSET [id : JobId, retryCount : Nat]]

SchedInit ==
  /\ active = [i \in Instance |-> FALSE]
  /\ promoting = [i \in Instance |-> Between({})]
  /\ recovering = [i \in Instance |-> {}]
  /\ expiring = [i \in Instance |-> {}]

Start(i) ==
  /\ ~active[i]
  /\ active' = [active EXCEPT ![i] = TRUE]
  /\ UNCHANGED <<promoting, recovering, expiring, storeVars, queueVars, envVars>>

\* The ids taken out of the sorted set and not pushed yet.
InPromotion(i) ==
  promoting[i].batch \cup IF promoting[i].pc = "push" THEN {promoting[i].id} ELSE {}

\* Once the context is cancelled every further call of the loops fails, each
\* failure is logged and skipped, and the loops end: what they held is dropped.
Stop(i) ==
  /\ active[i]
  /\ Fault(InPromotion(i))
  /\ active' = [active EXCEPT ![i] = FALSE]
  /\ promoting' = [promoting EXCEPT ![i] = Between({})]
  /\ recovering' = [recovering EXCEPT ![i] = {}]
  /\ expiring' = [expiring EXCEPT ![i] = {}]
  /\ UNCHANGED <<storeVars, queueVars>>

Promote(i, state) == /\ promoting' = [promoting EXCEPT ![i] = state]
                     /\ UNCHANGED <<active, recovering, expiring>>

(* processScheduledJobs                                                    *)
TakeDueJobs(i) ==
  /\ active[i] /\ promoting[i] = Between({})
  /\ DueJobs # {}
  /\ GetDueJobs
  /\ Promote(i, Between(DueJobs))
  /\ UNCHANGED <<storeVars, envVars>>

FetchDueJob(i) ==
  /\ promoting[i].pc = "next"
  /\ \E id \in promoting[i].batch :
       LET rest == promoting[i].batch \ {id} IN
       Promote(i, IF Exists(id)
                    THEN [batch |-> rest, pc |-> "push", id |-> id,
                          queue |-> jobs[id].queue, status |-> jobs[id].status]
                    ELSE Between(rest))
  /\ UNCHANGED <<storeVars, queueVars, envVars>>

\* Mutant: the status of a retry is updated instead of pushing it.
PushDueJobOrMark(i) ==
  /\ promoting[i].pc = "push"
  /\ IF promoting[i].status = "retrying"
       THEN /\ Promote(i, [promoting[i] EXCEPT !.pc = "mark"])
            /\ UNCHANGED queueVars
       ELSE /\ Promote(i, Between(promoting[i].batch))
            /\ Push(promoting[i].queue, promoting[i].id)
  /\ UNCHANGED <<storeVars, envVars>>

PushDueJob(i) ==
  /\ promoting[i].pc = "push"
  /\ Push(promoting[i].queue, promoting[i].id)
  /\ Promote(i, IF promoting[i].status = "retrying"
                  THEN [promoting[i] EXCEPT !.pc = "mark"]
                  ELSE Between(promoting[i].batch))
  /\ UNCHANGED <<storeVars, envVars>>

\* The job is in the queue already when its status becomes pending.
MarkPending(i) ==
  /\ promoting[i].pc = "mark"
  /\ UpdateJobStatus(promoting[i].id, "pending")
  /\ Promote(i, Between(promoting[i].batch))
  /\ UNCHANGED <<queueVars, envVars>>

\* A call for the current id fails (GetJob, Push or UpdateJobStatus): the loop
\* goes on with the next id.
SkipDueJob(i) ==
  /\ \/ /\ promoting[i].pc = "next"
        /\ \E id \in promoting[i].batch :
             /\ Fault({id})
             /\ Promote(i, Between(promoting[i].batch \ {id}))
     \/ /\ promoting[i].pc # "next"
        /\ Fault({promoting[i].id})
        /\ Promote(i, Between(promoting[i].batch))
  /\ UNCHANGED <<storeVars, queueVars>>

(* recoverUnqueuedJobs: nothing tells whether a row's id is in a list.     *)
FindUnqueued(i) ==
  /\ active[i] /\ recovering[i] = {}
  /\ GetPendingUnqueued # {}
  /\ recovering' = [recovering EXCEPT ![i] =
                      {[id |-> id, queue |-> jobs[id].queue] : id \in GetPendingUnqueued}]
  /\ UNCHANGED <<active, promoting, expiring, storeVars, queueVars, envVars>>

RecoverNext(i, job) ==
  /\ job \in recovering[i]
  /\ \A other \in recovering[i] : job.id <= other.id
  /\ recovering' = [recovering EXCEPT ![i] = @ \ {job}]
  /\ UNCHANGED <<active, promoting, expiring>>

PushUnqueued(i) ==
  \E job \in recovering[i] :
    /\ RecoverNext(i, job)
    /\ Push(job.queue, job.id)
    /\ Requeue({job.id})
    /\ UNCHANGED storeVars

SkipUnqueued(i) ==
  \E job \in recovering[i] :
    /\ RecoverNext(i, job)
    /\ Fault({})
    /\ UNCHANGED <<storeVars, queueVars>>

(* recoverStaleJobs                                                        *)
FindStale(i) ==
  /\ active[i] /\ expiring[i] = {}
  /\ \E ids \in GetStaleRunningJobs :
       /\ ids # {}
       /\ expiring' = [expiring EXCEPT ![i] =
                         {[id |-> id, retryCount |-> jobs[id].retryCount] : id \in ids}]
  /\ UNCHANGED <<active, promoting, recovering, storeVars, queueVars, envVars>>

\* The row is failed even if it has left `running' since the query.
FailStale(i) ==
  \E job \in expiring[i] :
    /\ UpdateJobError(job.id, "failed", job.retryCount)
    /\ expiring' = [expiring EXCEPT ![i] = @ \ {job}]
    /\ UNCHANGED <<active, promoting, recovering, queueVars, envVars>>

SkipStale(i) ==
  \E job \in expiring[i] :
    /\ Fault({})
    /\ expiring' = [expiring EXCEPT ![i] = @ \ {job}]
    /\ UNCHANGED <<active, promoting, recovering, storeVars, queueVars>>

runScheduledLoop(i) == TakeDueJobs(i) \/ FetchDueJob(i) \/ PushDueJob(i) \/ MarkPending(i)
runRecoveryLoop(i) == FindUnqueued(i) \/ PushUnqueued(i)
runStaleCheckLoop(i) == FindStale(i) \/ FailStale(i)

SchedStep(i) == runScheduledLoop(i) \/ runRecoveryLoop(i) \/ runStaleCheckLoop(i)

SchedFault(i) == Stop(i) \/ SkipDueJob(i) \/ SkipUnqueued(i) \/ SkipStale(i)
=============================================================================
