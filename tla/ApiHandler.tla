----------------------------- MODULE ApiHandler -----------------------------
(***************************************************************************)
(* The REST requests that change state (internal/api/handler.go).  Each    *)
(* client has at most one request in progress; a request that is refused   *)
(* (400, 404, 409) changes nothing and is not an action.                   *)
(***************************************************************************)
EXTENDS RedisQueue, Environment

CONSTANTS Client,        \* concurrent requests
          Endpoint,      \* the endpoints they call
          Request        \* the bodies of POST /jobs that are sent

ASSUME RequestAssumption ==
  /\ Request \subseteq [queue : QueueName, type : JobType, maxRetries : Int, runAt : RunAt]
  /\ \A req \in Request : req.maxRetries <= MaxRetryCount

VARIABLES request

NoRequest == [pc |-> "none", id |-> 0, queue |-> "none", deferred |-> FALSE]

RequestState ==
  {NoRequest} \cup
  [pc : {"cancel"}, id : JobId, queue : {"none"}, deferred : {FALSE}] \cup
  [pc : {"enqueue", "retry", "push"}, id : JobId, queue : QueueName, deferred : BOOLEAN]

ApiTypeOK == request \in [Client -> RequestState]

ApiInit == request = [c \in Client |-> NoRequest]

Await(c, state) == request' = [request EXCEPT ![c] = state]

CreateJob(c, req) ==
  /\ request[c].pc = "none"
  /\ InsertRow([queue |-> req.queue, type |-> req.type,
                maxRetries |-> req.maxRetries, retryCount |-> 0,
                status |-> IF req.runAt = "null" THEN "pending" ELSE "scheduled",
                runAt |-> req.runAt, createdAt |-> "recent", startedAt |-> "null"])
  /\ Await(c, [pc |-> "enqueue", id |-> created + 1, queue |-> req.queue,
               deferred |-> req.runAt # "null"])
  /\ UNCHANGED <<queueVars, envVars>>

\* Mutant: run_at is ignored when the job is put into the sorted set.
EnqueueCreatedAtOnce(c) ==
  /\ request[c].pc = "enqueue"
  /\ IF request[c].deferred THEN Schedule(request[c].id, "due")
                            ELSE Push(request[c].queue, request[c].id)
  /\ Await(c, NoRequest)
  /\ UNCHANGED <<storeVars, envVars>>

\* The score is run_at itself: due at once if that instant has been reached.
EnqueueCreated(c) ==
  LET id == request[c].id
      ahead == Exists(id) /\ jobs[id].runAt = "future" IN
  /\ request[c].pc = "enqueue"
  /\ IF request[c].deferred THEN Schedule(id, IF ahead THEN "future" ELSE "due")
                            ELSE Push(request[c].queue, id)
  /\ Await(c, NoRequest)
  /\ UNCHANGED <<storeVars, envVars>>

(* CancelJob: GetJob and the check, then the unconditional update.         *)
CheckCancel(c, id) ==
  /\ request[c].pc = "none"
  /\ Exists(id) /\ CanTransitionTo(jobs[id].status, "cancelled")
  /\ Await(c, [pc |-> "cancel", id |-> id, queue |-> "none", deferred |-> FALSE])
  /\ UNCHANGED <<storeVars, queueVars, envVars>>

\* Mutant: the status written is misspelt.
CancelJobMisspelt(c) ==
  /\ request[c].pc = "cancel"
  /\ UpdateJobStatus(request[c].id, "canceled")
  /\ Await(c, NoRequest)
  /\ UNCHANGED <<queueVars, envVars>>

CancelJob(c) ==
  /\ request[c].pc = "cancel"
  /\ UpdateJobStatus(request[c].id, "cancelled")
  /\ Await(c, NoRequest)
  /\ UNCHANGED <<queueVars, envVars>>

(* RetryJob: GetJob and the check, the update, then the push.              *)
CheckRetry(c, id) ==
  /\ request[c].pc = "none"
  /\ Exists(id) /\ jobs[id].status = "dead"
  /\ Await(c, [pc |-> "retry", id |-> id, queue |-> jobs[id].queue, deferred |-> FALSE])
  /\ UNCHANGED <<storeVars, queueVars, envVars>>

\* Mutant: the count is left as it is.
RetryJobUncounted(c) ==
  LET id == request[c].id IN
  /\ request[c].pc = "retry"
  /\ UpdateJobStatus(id, "pending")
  /\ Await(c, [request[c] EXCEPT !.pc = "push"])
  /\ IF Exists(id) /\ jobs[id].status = "dead" THEN UNCHANGED envVars ELSE Requeue({id})
  /\ UNCHANGED queueVars

\* The row may have left `dead' since it was read.
RetryJob(c) ==
  LET id == request[c].id IN
  /\ request[c].pc = "retry"
  /\ UpdateJobError(id, "pending", 0)
  /\ Await(c, [request[c] EXCEPT !.pc = "push"])
  /\ IF Exists(id) /\ jobs[id].status = "dead" THEN UNCHANGED envVars ELSE Requeue({id})
  /\ UNCHANGED queueVars

\* Mutant: the row is reset and nothing is pushed.
PushRetriedForgotten(c) ==
  /\ request[c].pc = "push"
  /\ Await(c, NoRequest)
  /\ UNCHANGED <<storeVars, queueVars, envVars>>

PushRetried(c) ==
  /\ request[c].pc = "push"
  /\ Push(request[c].queue, request[c].id)
  /\ Await(c, NoRequest)
  /\ UNCHANGED <<storeVars, envVars>>

DeleteJob(c, id) ==
  /\ request[c].pc = "none"
  /\ DeleteRow(id)
  /\ UNCHANGED <<request, queueVars, envVars>>

\* The next call of the request fails, its caller disconnects, or the instance
\* dies.  A failing Push or Schedule is logged and the answer is still 201.
RequestFails(c) ==
  /\ request[c].pc # "none"
  /\ Fault({request[c].id})
  /\ Await(c, NoRequest)
  /\ UNCHANGED <<storeVars, queueVars>>

\* What a request already accepted still has to do.
RequestStep(c) == EnqueueCreated(c) \/ CancelJob(c) \/ RetryJob(c) \/ PushRetried(c)

NewRequest(c) ==
  \/ "create" \in Endpoint /\ \E req \in Request : CreateJob(c, req)
  \/ "cancel" \in Endpoint /\ \E id \in JobId : CheckCancel(c, id)
  \/ "retry" \in Endpoint /\ \E id \in JobId : CheckRetry(c, id)
  \/ "delete" \in Endpoint /\ \E id \in JobId : DeleteJob(c, id)
=============================================================================
