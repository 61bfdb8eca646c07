--------------------------- MODULE CustodyProofs ---------------------------
(***************************************************************************)
(* Custody holds for every instance of the pipeline: a job that no fault   *)
(* has touched is carried by someone as long as its row says scheduled,    *)
(* retrying or running.  Custody is inductive once types are known; the    *)
(* lemmas below say which carriers each operation takes away and gives.    *)
(* With the single custody of SingleCustodyProofs they show that the       *)
(* pipeline implements Delivery.                                           *)
(***************************************************************************)
EXTENDS SingleCustodyProofs

----------------------------------------------------------------------------
(* The Redis structures.                                                   *)

\* A push loses no entry, and afterwards the list has the id: either it was
\* appended or the list was full of its copies.
LEMMA PushKeeps ==
  ASSUME QueueTypeOK, NEW q \in QueueName, NEW id \in JobId, Push(q, id)
  PROVE  /\ InList(id)'
         /\ \A k : InList(k) => InList(k)'
         /\ \A k : InSet(k) => InSet(k)'
<1>0. lists[q] \in Seq(JobId)
  BY DEF QueueTypeOK
<1>1. CASE Copies(q, id) < MaxCopies
  <2>1. /\ lists' = [lists EXCEPT ![q] = Append(lists[q], id)] /\ scheduled' = scheduled
    BY <1>1 DEF Push
  <2>2. lists'[q] = Append(lists[q], id)
    BY <2>1 DEF QueueTypeOK
  <2>3. /\ Len(lists[q]) + 1 \in DOMAIN lists'[q] /\ lists'[q][Len(lists[q]) + 1] = id
        /\ \A n \in DOMAIN lists[q] : n \in DOMAIN lists'[q] /\ lists'[q][n] = lists[q][n]
    BY <1>0, <2>2
  <2>4. \A r \in QueueName : r # q => lists'[r] = lists[r]
    BY <2>1 DEF QueueTypeOK
  <2>5. InList(id)'
    BY <2>3 DEF InList
  <2>6. ASSUME NEW k, InList(k) PROVE InList(k)'
    BY <2>3, <2>4, <2>6 DEF InList
  <2> QED BY <2>1, <2>5, <2>6 DEF InSet
<1>2. CASE ~(Copies(q, id) < MaxCopies)
  <2>1. UNCHANGED <<lists, scheduled>>
    BY <1>2 DEF Push
  <2> DEFINE S == {n \in DOMAIN lists[q] : lists[q][n] = id}
  <2>a. Cardinality(S) # 0
    BY <1>2, QueueAssumption DEF Copies
  <2> HIDE DEF S
  <2>2. S # {}
    BY <2>a, NoElement
  <2> USE DEF S
  <2>3. InList(id)
    BY <2>2 DEF InList
  <2> QED BY <2>1, <2>3 DEF InList, InSet
<1> QED BY <1>1, <1>2

\* A pop takes away one entry, the head it returns.
LEMMA PopKeeps ==
  ASSUME QueueTypeOK, NEW q \in QueueName, Pop(q)
  PROVE  /\ \A k : InList(k) => InList(k)' \/ k = Head(lists[q])
         /\ \A k : InSet(k) => InSet(k)'
<1>0. lists[q] \in Seq(JobId) /\ lists[q] # <<>>
  BY DEF QueueTypeOK, Pop
<1>1. lists'[q] = Tail(lists[q]) /\ (\A r \in QueueName : r # q => lists'[r] = lists[r])
  BY DEF QueueTypeOK, Pop
<1>2. ASSUME NEW n \in DOMAIN lists[q], n # 1
      PROVE  n - 1 \in DOMAIN lists'[q] /\ lists'[q][n - 1] = lists[q][n]
  BY <1>0, <1>1, <1>2
<1>3. Head(lists[q]) = lists[q][1]
  BY <1>0
<1>4. ASSUME NEW k, InList(k), k # Head(lists[q]) PROVE InList(k)'
  <2>1. PICK r \in QueueName : \E n \in DOMAIN lists[r] : lists[r][n] = k
    BY <1>4 DEF InList
  <2>2. PICK n \in DOMAIN lists[r] : lists[r][n] = k
    BY <2>1
  <2>3. CASE r = q
    BY <1>2, <1>3, <1>4, <2>2, <2>3, SMTT(30) DEF InList
  <2>4. CASE r # q
    BY <1>1, <2>2, <2>4 DEF InList
  <2> QED BY <2>3, <2>4
<1> QED BY <1>4 DEF Pop, InSet

\* ZADD adds its member and loses none.
LEMMA ScheduleKeeps ==
  ASSUME QueueTypeOK, NEW id \in JobId, NEW score \in {"future", "due"}, Schedule(id, score)
  PROVE  /\ InSet(id)'
         /\ \A k : InList(k) => InList(k)'
         /\ \A k \in JobId : InSet(k) => InSet(k)'
BY DEF QueueTypeOK, Schedule, InSet, InList

----------------------------------------------------------------------------
(* The goroutines.                                                         *)

\* A worker that changes state lets go of what it held and holds what its new
\* state names.
LEMMA WorkerCarriers ==
  ASSUME WorkerTypeOK, NEW w \in Worker, NEW state, worker' = [worker EXCEPT ![w] = state],
         NEW k
  PROVE  /\ WithWorker(k) => WithWorker(k)' \/ Carries(worker[w], k)
         /\ Carries(state, k) => WithWorker(k)'
         /\ Executing(k) => Executing(k)' \/ Executes(worker[w], k)
         /\ Executes(state, k) => Executing(k)'
BY DEF WorkerTypeOK, WithWorker, Carries, Executing, Executes

\* The same for a request.
LEMMA RequestCarriers ==
  ASSUME ApiTypeOK, NEW c \in Client, NEW state, Await(c, state), NEW k
  PROVE  /\ WithRequest(k) => WithRequest(k)' \/ Submits(request[c], k)
         /\ Submits(state, k) => WithRequest(k)'
BY DEF ApiTypeOK, Await, WithRequest, Submits

\* The same for the scheduled loop of an instance.
LEMMA LoopCarriers ==
  ASSUME SchedTypeOK, NEW i \in Instance, NEW state,
         promoting' = [promoting EXCEPT ![i] = state], NEW k
  PROVE  /\ InLoop(k) => InLoop(k)' \/ k \in InPromotion(i)
         /\ k \in Holds(state) => InLoop(k)'
<1>1. promoting'[i] = state /\ \A j \in Instance : j # i => promoting'[j] = promoting[j]
  BY DEF SchedTypeOK
<1>2. InPromotion(i)' = Holds(state) /\ \A j \in Instance : j # i => InPromotion(j)' = InPromotion(j)
  BY <1>1 DEF InPromotion, Holds
<1> QED BY <1>2 DEF InLoop

----------------------------------------------------------------------------
(* Every step keeps Custody.                                               *)

\* The two obligations Custody makes of a job.
Covered(k) ==
  /\ jobs[k].status \in {"scheduled", "retrying"} => Awaiting(k)
  /\ jobs[k].status = "running" => Executing(k)

\* A worker takes a job over from a list and hands it back to the sorted set or
\* to a final status; at no point in between is it held by nobody.
LEMMA WorkerCustody ==
  ASSUME TypeOK, Custody, NEW w \in Worker, WorkerNext(w),
         NEW k \in DOMAIN jobs' \ hit'
  PROVE  Covered(k)'
<1> USE DEF Covered
<1>0. /\ StoreTypeOK /\ QueueTypeOK /\ WorkerTypeOK
      /\ worker[w] \in WorkerState
  BY DEF TypeOK, WorkerTypeOK
<1>1. (InLoop(k) => InLoop(k)') /\ (WithRequest(k) => WithRequest(k)')
  BY DEF WorkerNext, schedVars, InLoop, InPromotion, WithRequest, Submits
<1>2. ASSUME UNCHANGED queueVars
      PROVE  (InSet(k) => InSet(k)') /\ (InList(k) => InList(k)')
  BY <1>2 DEF queueVars, InSet, InList
<1>3. ASSUME UNCHANGED envVars, DOMAIN jobs' = DOMAIN jobs
      PROVE  k \in DOMAIN jobs /\ Covered(k)
  BY <1>3 DEF envVars, Custody
<1>4. ASSUME NEW ids, Fault(ids), UNCHANGED storeVars
      PROVE  k \in DOMAIN jobs /\ Covered(k) /\ k \notin ids
  BY <1>4 DEF Fault, storeVars, Custody
<1>5. Goto(w, "executing") => worker' = [worker EXCEPT ![w] = [worker[w] EXCEPT !.pc = "executing"]]
  BY <1>0 DEF Goto
<1>6. Goto(w, "reschedule") => worker' = [worker EXCEPT ![w] = [worker[w] EXCEPT !.pc = "reschedule"]]
  BY <1>0 DEF Goto
<1>7. CASE PopJob(w)
  <2>1. PICK q \in QueueName : Pop(q) /\ Become(w, Popped(Head(lists[q])))
    BY <1>7 DEF PopJob
  <2>2. Carries(Popped(Head(lists[q])), Head(lists[q]))
    BY DEF Popped, Carries
  <2>3. ~Carries(worker[w], k) /\ ~Executes(worker[w], k)
    BY <1>7 DEF PopJob, Carries, Executes
  <2>4. /\ WithWorker(k) => WithWorker(k)'
        /\ Executing(k) => Executing(k)'
        /\ k = Head(lists[q]) => WithWorker(k)'
    BY <1>0, <2>1, <2>2, <2>3, WorkerCarriers, ZenonT(60) DEF Become
  <2>5. (InList(k) => InList(k)' \/ k = Head(lists[q])) /\ (InSet(k) => InSet(k)')
    BY <1>0, <2>1, PopKeeps
  <2>6. Covered(k) /\ jobs' = jobs
    BY <1>3, <1>7, Zenon DEF PopJob, storeVars
  <2> QED BY <1>1, <2>4, <2>5, <2>6, SMTT(30) DEF Awaiting
<1>8. CASE FetchJob(w)
  <2> DEFINE id == worker[w].id
             state == IF Exists(id)
                 THEN [pc |-> IF jobs[id].type \in Registered THEN "fetched" ELSE "nohandler",
                       id |-> id,
                       maxRetries |-> jobs[id].maxRetries,
                       retryCount |-> jobs[id].retryCount]
                 ELSE IdleWorker
  <2>1. worker' = [worker EXCEPT ![w] = state]
    BY <1>8, SMTT(30) DEF FetchJob, Become
  <2>2. Covered(k) /\ jobs' = jobs /\ k \in DOMAIN jobs
    BY <1>3, <1>8 DEF FetchJob, storeVars
  <2>3. Carries(worker[w], k) => Carries(state, k)
    BY <2>2, Zenon DEF Carries, Exists
  <2>4. ~Executes(worker[w], k)
    BY <1>8, Zenon DEF FetchJob, Executes
  <2> HIDE DEF state
  <2>5. (WithWorker(k) => WithWorker(k)') /\ (Executing(k) => Executing(k)')
    BY <1>0, <2>1, <2>3, <2>4, WorkerCarriers, ZenonT(60)
  <2> QED BY <1>1, <1>2, <1>8, <2>2, <2>5, ZenonT(60) DEF FetchJob, Awaiting
<1>9. CASE StartJob(w)
  <2> DEFINE state == [worker[w] EXCEPT !.pc = "executing"]
  <2>1. worker' = [worker EXCEPT ![w] = state]
    BY <1>5, <1>9 DEF StartJob
  <2>2. Executes(state, worker[w].id)
    BY <1>0, <1>9 DEF StartJob, Executes, WorkerState, IdleWorker
  <2>3. ~Executes(worker[w], k)
    BY <1>9 DEF StartJob, Executes
  <2> HIDE DEF state
  <2>4. /\ WithWorker(k) => WithWorker(k)' \/ k = worker[w].id
        /\ Executing(k) => Executing(k)'
        /\ k = worker[w].id => Executing(k)'
    <3>1. Executes(state, worker[w].id) /\ ~Executes(worker[w], k)
      BY <2>2, <2>3
    <3>2. Carries(worker[w], k) => k = worker[w].id
      BY DEF Carries
    <3>3. /\ WithWorker(k) => WithWorker(k)' \/ Carries(worker[w], k)
          /\ Executing(k) => Executing(k)' \/ Executes(worker[w], k)
          /\ Executes(state, k) => Executing(k)'
      BY <1>0, <2>1, WorkerCarriers, Zenon
    <3> QED BY <3>1, <3>2, <3>3
  <2>5. /\ DOMAIN jobs' = DOMAIN jobs
        /\ k \in DOMAIN jobs => jobs'[k].status = IF k = worker[w].id THEN "running" ELSE jobs[k].status
    BY <1>0, <1>9, UpdateJobStatusRows, SMTT(30) DEF StartJob
  <2>6. Covered(k) /\ k \in DOMAIN jobs
    BY <1>3, <1>9, <2>5 DEF StartJob
  <2> QED BY <1>1, <1>2, <1>9, <2>4, <2>5, <2>6, ZenonT(60) DEF StartJob, Awaiting
<1>10. ASSUME worker' = [worker EXCEPT ![w] = IdleWorker]
       PROVE  /\ WithWorker(k) => WithWorker(k)' \/ k = worker[w].id
              /\ Executing(k) => Executing(k)' \/ k = worker[w].id
  BY <1>0, <1>10, WorkerCarriers, Zenon DEF Carries, Executes
<1>11. CASE RejectUnknownType(w)
  <2>1. /\ DOMAIN jobs' = DOMAIN jobs
        /\ k \in DOMAIN jobs => jobs'[k].status = IF k = worker[w].id THEN "failed" ELSE jobs[k].status
    BY <1>0, <1>11, UpdateJobErrorRows DEF RejectUnknownType
  <2>2. Covered(k) /\ k \in DOMAIN jobs
    BY <1>3, <1>11, <2>1, Zenon DEF RejectUnknownType
  <2> QED BY <1>1, <1>2, <1>10, <1>11, <2>1, <2>2, ZenonT(60) DEF RejectUnknownType, Become, Awaiting
<1>12. CASE CompleteJob(w)
  <2>1. /\ DOMAIN jobs' = DOMAIN jobs
        /\ k \in DOMAIN jobs => jobs'[k].status = IF k = worker[w].id THEN "completed" ELSE jobs[k].status
    BY <1>0, <1>12, UpdateJobStatusRows DEF CompleteJob
  <2>2. Covered(k) /\ k \in DOMAIN jobs
    BY <1>3, <1>12, <2>1, Zenon DEF CompleteJob
  <2> QED BY <1>1, <1>2, <1>10, <1>12, <2>1, <2>2, ZenonT(60) DEF CompleteJob, Become, Awaiting
<1>13. CASE BuryJob(w)
  <2>1. /\ DOMAIN jobs' = DOMAIN jobs
        /\ k \in DOMAIN jobs => jobs'[k].status = IF k = worker[w].id THEN "dead" ELSE jobs[k].status
    BY <1>0, <1>13, UpdateJobErrorRows DEF BuryJob
  <2>2. Covered(k) /\ k \in DOMAIN jobs
    BY <1>3, <1>13, <2>1 DEF BuryJob
  <2> QED BY <1>1, <1>2, <1>10, <1>13, <2>1, <2>2, ZenonT(60) DEF BuryJob, Become, Awaiting
<1>14. ASSUME worker[w].pc = "executing",
              worker' = [worker EXCEPT ![w] = [worker[w] EXCEPT !.pc = "reschedule"]]
       PROVE  /\ WithWorker(k) => WithWorker(k)'
              /\ k = worker[w].id => WithWorker(k)'
              /\ Executing(k) => Executing(k)' \/ k = worker[w].id
  <2> DEFINE state == [worker[w] EXCEPT !.pc = "reschedule"]
  <2>1. Carries(state, worker[w].id) /\ ~Carries(worker[w], k)
    BY <1>0, <1>14 DEF Carries, WorkerState, IdleWorker
  <2>2. worker' = [worker EXCEPT ![w] = state]
    BY <1>14
  <2> HIDE DEF state
  <2> QED BY <1>0, <2>1, <2>2, WorkerCarriers, ZenonT(60) DEF Executes
<1>15. CASE RetryLater(w)
  <2>1. /\ DOMAIN jobs' = DOMAIN jobs
        /\ k \in DOMAIN jobs => jobs'[k].status = IF k = worker[w].id THEN "retrying" ELSE jobs[k].status
    BY <1>0, <1>15, UpdateJobErrorRows, SMTT(30) DEF RetryLater
  <2>2. Covered(k) /\ k \in DOMAIN jobs
    BY <1>3, <1>15, <2>1, SMTT(30) DEF RetryLater
  <2>3. /\ WithWorker(k) => WithWorker(k)'
        /\ k = worker[w].id => WithWorker(k)'
        /\ Executing(k) => Executing(k)' \/ k = worker[w].id
    BY <1>6, <1>14, <1>15, Zenon DEF RetryLater
  <2> QED BY <1>1, <1>2, <1>15, <2>1, <2>2, <2>3, ZenonT(60) DEF RetryLater, Awaiting
<1>16. CASE ScheduleRetry(w)
  <2>1. worker[w].id \in JobId /\ ~Executes(worker[w], k)
    BY <1>0, <1>16, SMTT(30) DEF ScheduleRetry, Executes, WorkerState, IdleWorker
  <2>2. Covered(k) /\ k \in DOMAIN jobs /\ jobs' = jobs
    BY <1>3, <1>16 DEF ScheduleRetry, storeVars
  <2>3. k \in JobId
    BY <1>0, <2>2, StoreAssumption, SMTT(30) DEF StoreTypeOK, JobId
  <2>4. /\ k = worker[w].id => InSet(k)'
        /\ InSet(k) => InSet(k)'
        /\ InList(k) => InList(k)'
    BY <1>0, <1>16, <2>1, <2>3, ScheduleKeeps, SMTT(30) DEF ScheduleRetry
  <2>5. /\ WithWorker(k) => WithWorker(k)' \/ k = worker[w].id
        /\ Executing(k) => Executing(k)'
    BY <1>0, <1>16, <2>1, WorkerCarriers, Zenon DEF ScheduleRetry, Become, Carries
  <2> QED BY <1>1, <2>2, <2>4, <2>5, ZenonT(60) DEF Awaiting
<1>17. CASE AbandonJob(w)
  <2>1. Covered(k) /\ k # worker[w].id /\ jobs' = jobs
    BY <1>4, <1>17, Zenon DEF AbandonJob, storeVars
  <2> QED BY <1>1, <1>2, <1>10, <1>17, <2>1, ZenonT(60) DEF AbandonJob, Become, Awaiting
<1>18. CASE RetryUnrecorded(w)
  <2>1. Covered(k) /\ k # worker[w].id /\ jobs' = jobs
    BY <1>4, <1>18 DEF RetryUnrecorded, storeVars
  <2>2. (WithWorker(k) => WithWorker(k)') /\ (Executing(k) => Executing(k)')
    BY <1>6, <1>14, <1>18, <2>1, ZenonT(60) DEF RetryUnrecorded
  <2> QED BY <1>1, <1>2, <1>18, <2>1, <2>2, ZenonT(60) DEF RetryUnrecorded, Awaiting
<1> QED BY <1>7, <1>8, <1>9, <1>11, <1>12, <1>13, <1>15, <1>16, <1>17, <1>18, ZenonT(60)
        DEF WorkerNext, WorkerStep, WorkerFault

\* What a loop holds between its steps: the batch, and the id it is about to push.
LEMMA PromotionParts ==
  ASSUME NEW i, promoting[i] \in Promotion
  PROVE  /\ promoting[i].batch \subseteq JobId /\ InPromotion(i) \subseteq JobId
         /\ promoting[i].batch \subseteq InPromotion(i)
         /\ InPromotion(i) \ {promoting[i].id} \subseteq promoting[i].batch
         /\ promoting[i].pc = "next" => InPromotion(i) = promoting[i].batch
         /\ promoting[i].pc # "next" => promoting[i].id \in JobId
         /\ promoting[i].pc = "push" => promoting[i].queue \in QueueName
BY DEF Promotion, Between, InPromotion

\* The id a loop fetched from its batch is still held.
LEMMA CurrentHeld ==
  ASSUME NEW batch, NEW id \in batch, NEW queue, NEW status
  PROVE  Holds([batch |-> batch \ {id}, pc |-> "push", id |-> id,
                queue |-> queue, status |-> status]) = batch
BY DEF Holds

\* The scheduler takes a job out of the sorted set into its batch and out of the
\* batch into a list; the recovery loops only add entries or fail rows.
LEMMA SchedCustody ==
  ASSUME TypeOK, Custody, NEW i \in Instance, SchedNext(i),
         NEW k \in DOMAIN jobs' \ hit'
  PROVE  Covered(k)'
<1> USE DEF Covered
<1>0. /\ StoreTypeOK /\ QueueTypeOK /\ SchedTypeOK
      /\ promoting[i] \in Promotion
  BY SMTT(30) DEF TypeOK, SchedTypeOK
<1>1. /\ WithWorker(k) => WithWorker(k)'
      /\ WithRequest(k) => WithRequest(k)'
      /\ Executing(k) => Executing(k)'
  BY SMTT(30) DEF SchedNext, WithWorker, WithRequest, Executing, Carries, Submits, Executes
<1>2. ASSUME UNCHANGED queueVars
      PROVE  (InSet(k) => InSet(k)') /\ (InList(k) => InList(k)')
  BY <1>2 DEF queueVars, InSet, InList
<1>3. ASSUME UNCHANGED promoting
      PROVE  InLoop(k) => InLoop(k)'
  BY <1>3, SMTT(30) DEF InLoop, InPromotion
<1>4. ASSUME hit' = hit, UNCHANGED storeVars
      PROVE  k \in DOMAIN jobs /\ Covered(k) /\ jobs' = jobs
  BY <1>4 DEF Custody, storeVars
<1>5. ASSUME NEW ids, Fault(ids), UNCHANGED storeVars
      PROVE  k \in DOMAIN jobs /\ Covered(k) /\ jobs' = jobs /\ k \notin ids
  BY <1>5, ZenonT(60) DEF Fault, storeVars, Custody
<1>6. promoting[i].pc # "next" => promoting[i].id \in JobId /\ promoting[i].queue \in QueueName
                                  /\ promoting[i].pc \in {"push", "mark"}
  BY <1>0 DEF Promotion, Between
<1>7. \A batch : Holds(Between(batch)) = batch
  BY Zenon DEF Holds, Between
<1>8. CASE Start(i)
  BY <1>1, <1>2, <1>3, <1>4, <1>8, Zenon DEF Start, envVars, Awaiting
<1>9. CASE Stop(i)
  <2>1. Covered(k) /\ jobs' = jobs /\ k \notin InPromotion(i)
    BY <1>5, <1>9 DEF Stop
  <2>2. InLoop(k) => InLoop(k)'
    BY <1>0, <1>9, <2>1, LoopCarriers, Zenon DEF Stop
  <2> QED BY <1>1, <1>2, <1>9, <2>1, <2>2, ZenonT(60) DEF Stop, Awaiting
<1>10. CASE TakeDueJobs(i)
  <2>1. Covered(k) /\ jobs' = jobs /\ k \in DOMAIN jobs
    BY <1>4, <1>10, Zenon DEF TakeDueJobs, envVars
  <2>2. k \in JobId
    BY <1>0, <2>1, StoreAssumption, SMTT(30) DEF StoreTypeOK, JobId
  <2>3. InPromotion(i) = {}
    BY <1>10, SMTT(30) DEF TakeDueJobs, InPromotion, Between
  <2>a. promoting' = [promoting EXCEPT ![i] = Between(DueJobs)] /\ Holds(Between(DueJobs)) = DueJobs
    BY <1>7, <1>10 DEF TakeDueJobs, Promote
  <2>4. (InLoop(k) => InLoop(k)') /\ (k \in DueJobs => InLoop(k)')
    BY <1>0, <2>3, <2>a, LoopCarriers, Zenon
  <2>5. (InSet(k) => InSet(k)' \/ k \in DueJobs) /\ (InList(k) => InList(k)')
    BY <1>10, <2>2, SMTT(30) DEF TakeDueJobs, GetDueJobs, InSet, InList
  <2> QED BY <1>1, <2>1, <2>4, <2>5, ZenonT(60) DEF Awaiting
<1>11. CASE FetchDueJob(i)
  <2>1. PICK id \in promoting[i].batch :
          Promote(i, IF Exists(id)
                       THEN [batch |-> promoting[i].batch \ {id}, pc |-> "push", id |-> id,
                             queue |-> jobs[id].queue, status |-> jobs[id].status]
                       ELSE Between(promoting[i].batch \ {id}))
    BY <1>11, Zenon DEF FetchDueJob
  <2> DEFINE state == IF Exists(id)
                        THEN [batch |-> promoting[i].batch \ {id}, pc |-> "push", id |-> id,
                              queue |-> jobs[id].queue, status |-> jobs[id].status]
                        ELSE Between(promoting[i].batch \ {id})
  <2>a. promoting[i].pc = "next" /\ hit' = hit /\ UNCHANGED storeVars /\ UNCHANGED queueVars
    BY <1>11, Zenon DEF FetchDueJob, envVars
  <2>2. Covered(k) /\ jobs' = jobs /\ k \in DOMAIN jobs
    BY <1>4, <2>a, Zenon
  <2>b. k \in InPromotion(i) => k \in promoting[i].batch
    BY <2>a, SMTT(30) DEF InPromotion
  <2>3. k \in InPromotion(i) => k \in Holds(state)
    <3>1. CASE Exists(id)
      BY <2>b, <3>1, ZenonT(60) DEF Holds
    <3>2. CASE ~Exists(id)
      BY <1>7, <2>2, <2>b, <3>2, SMTT(30) DEF Exists
    <3> QED BY <3>1, <3>2
  <2>4. promoting' = [promoting EXCEPT ![i] = state]
    BY <2>1 DEF Promote
  <2> HIDE DEF state
  <2>5. InLoop(k) => InLoop(k)'
    BY <1>0, <2>3, <2>4, LoopCarriers, ZenonT(60)
  <2> QED BY <1>1, <1>2, <2>a, <2>2, <2>5, SMTT(30) DEF Awaiting
<1>12. CASE PushDueJob(i)
  <2> DEFINE state == IF promoting[i].status = "retrying"
                        THEN [promoting[i] EXCEPT !.pc = "mark"]
                        ELSE Between(promoting[i].batch)
  <2>1. promoting' = [promoting EXCEPT ![i] = state]
    BY <1>12 DEF PushDueJob, Promote
  <2>2. promoting[i] \in [batch : SUBSET JobId, pc : {"push", "mark"},
                          id : JobId, queue : QueueName, status : JobStatus]
    BY <1>0, <1>12 DEF PushDueJob, Promotion, Between
  <2>3. Holds(state) = promoting[i].batch
    BY <1>7, <2>2 DEF Holds
  <2> HIDE DEF state
  <2>4. InLoop(k) => InLoop(k)' \/ k = promoting[i].id
    BY <1>0, <2>1, <2>3, LoopCarriers, ZenonT(60) DEF InPromotion
  <2>5. /\ k = promoting[i].id => InList(k)'
        /\ InList(k) => InList(k)'
        /\ InSet(k) => InSet(k)'
    BY <1>0, <1>12, <2>2, PushKeeps, SMTT(30) DEF PushDueJob
  <2>6. Covered(k) /\ jobs' = jobs
    BY <1>4, <1>12, Zenon DEF PushDueJob, envVars
  <2> QED BY <1>1, <2>4, <2>5, <2>6, ZenonT(60) DEF Awaiting
<1>13. CASE MarkPending(i)
  <2>1. /\ DOMAIN jobs' = DOMAIN jobs
        /\ k \in DOMAIN jobs =>
             jobs'[k].status = IF k = promoting[i].id THEN "pending" ELSE jobs[k].status
    BY <1>0, <1>13, UpdateJobStatusRows, SMTT(30) DEF MarkPending
  <2>2. Covered(k) /\ k \in DOMAIN jobs
    BY <1>13, <2>1, SMTT(30) DEF MarkPending, envVars, Custody
  <2> DEFINE state == Between(promoting[i].batch)
  <2>a. promoting' = [promoting EXCEPT ![i] = state] /\ Holds(state) = InPromotion(i)
    BY <1>7, <1>13 DEF MarkPending, Promote, InPromotion
  <2> HIDE DEF state
  <2>3. InLoop(k) => InLoop(k)'
    BY <1>0, <2>a, LoopCarriers, ZenonT(60)
  <2> QED BY <1>1, <1>2, <1>13, <2>1, <2>2, <2>3, ZenonT(60) DEF MarkPending, Awaiting
<1>14. CASE SkipDueJob(i)
  <2>1. CASE promoting[i].pc = "next"
    <3>1. PICK id \in promoting[i].batch :
            Fault({id}) /\ Promote(i, Between(promoting[i].batch \ {id}))
      BY <1>14, <2>1, ZenonT(60) DEF SkipDueJob
    <3>2. Covered(k) /\ jobs' = jobs /\ k # id
      BY <1>5, <1>14, <3>1, Zenon DEF SkipDueJob
    <3> DEFINE state == Between(promoting[i].batch \ {id})
    <3>a. promoting' = [promoting EXCEPT ![i] = state]
      BY <3>1, SMTT(30) DEF Promote
    <3>b. k \in InPromotion(i) => k \in Holds(state)
      <4>1. InPromotion(i) = promoting[i].batch
        BY <1>0, <2>1, PromotionParts, Zenon
      <4>2. Holds(state) = promoting[i].batch \ {id}
        BY <1>7, Zenon
      <4> QED BY <3>2, <4>1, <4>2, Zenon
    <3> HIDE DEF state
    <3>3. InLoop(k) => InLoop(k)'
      BY <1>0, <3>a, <3>b, LoopCarriers, Zenon
    <3> QED BY <1>1, <1>2, <1>14, <3>2, <3>3, Zenon DEF SkipDueJob, Awaiting
  <2>2. CASE promoting[i].pc # "next"
    <3>1. Fault({promoting[i].id}) /\ Promote(i, Between(promoting[i].batch))
      BY <1>14, <2>2, ZenonT(60) DEF SkipDueJob
    <3>2. Covered(k) /\ jobs' = jobs /\ k # promoting[i].id
      BY <1>5, <1>14, <3>1, Zenon DEF SkipDueJob
    <3> DEFINE state == Between(promoting[i].batch)
    <3>a. promoting' = [promoting EXCEPT ![i] = state]
      BY <3>1, ZenonT(60) DEF Promote
    <3>b. k \in InPromotion(i) => k \in Holds(state)
      BY <1>7, <3>2 DEF InPromotion
    <3> HIDE DEF state
    <3>3. InLoop(k) => InLoop(k)'
      BY <1>0, <3>a, <3>b, LoopCarriers, Zenon
    <3> QED BY <1>1, <1>2, <1>14, <3>2, <3>3, Zenon DEF SkipDueJob, Awaiting
  <2> QED BY <2>1, <2>2
<1>15. CASE FindUnqueued(i) \/ FindStale(i)
  <2>1. UNCHANGED <<promoting, storeVars, queueVars, envVars>>
    BY <1>15, Zenon DEF FindUnqueued, FindStale
  <2> QED BY <1>1, <1>2, <1>3, <1>4, <2>1, ZenonT(60) DEF envVars, Awaiting
<1>16. CASE PushUnqueued(i)
  <2>1. PICK job \in recovering[i] :
          RecoverNext(i, job) /\ Push(job.queue, job.id) /\ Requeue({job.id})
    BY <1>16, Zenon DEF PushUnqueued
  <2>2. job.queue \in QueueName /\ job.id \in JobId
    BY <1>0 DEF SchedTypeOK
  <2>3. (InList(k) => InList(k)') /\ (InSet(k) => InSet(k)')
    BY <1>0, <2>1, <2>2, PushKeeps, Zenon
  <2>4. Covered(k) /\ jobs' = jobs
    BY <1>4, <1>16, <2>1, Zenon DEF PushUnqueued, Requeue
  <2> QED BY <1>1, <1>3, <2>1, <2>3, <2>4, Zenon DEF RecoverNext, Awaiting
<1>17. CASE SkipUnqueued(i) \/ SkipStale(i)
  <2>1. Covered(k) /\ jobs' = jobs
    BY <1>5, <1>17, ZenonT(60) DEF SkipUnqueued, SkipStale
  <2> QED BY <1>1, <1>2, <1>3, <1>17, <2>1, Zenon DEF SkipUnqueued, SkipStale, RecoverNext, Awaiting
<1>18. CASE FailStale(i)
  <2>1. PICK job \in expiring[i] : UpdateJobError(job.id, "failed", job.retryCount)
    BY <1>18, ZenonT(60) DEF FailStale
  <2>2. /\ DOMAIN jobs' = DOMAIN jobs
        /\ k \in DOMAIN jobs => jobs'[k].status = IF k = job.id THEN "failed" ELSE jobs[k].status
    BY <1>0, <2>1, UpdateJobErrorRows
  <2>3. Covered(k) /\ k \in DOMAIN jobs
    BY <1>18, <2>2, Zenon DEF FailStale, envVars, Custody
  <2> QED BY <1>1, <1>2, <1>3, <1>18, <2>2, <2>3, ZenonT(60) DEF FailStale, Awaiting
<1> QED BY <1>8, <1>9, <1>10, <1>11, <1>12, <1>13, <1>14, <1>15, <1>16, <1>17, <1>18, ZenonT(60)
        DEF SchedNext, SchedStep, SchedFault, runScheduledLoop, runRecoveryLoop, runStaleCheckLoop

\* A request holds the job it inserted or re-opened until it has pushed it.
LEMMA ApiCustody ==
  ASSUME TypeOK, Custody, NEW c \in Client, ApiNext(c),
         NEW k \in DOMAIN jobs' \ hit'
  PROVE  Covered(k)'
<1> USE DEF Covered
<1>0. /\ StoreTypeOK /\ QueueTypeOK /\ ApiTypeOK
      /\ request[c] \in RequestState
  BY Zenon DEF TypeOK, ApiTypeOK
<1>1. /\ WithWorker(k) => WithWorker(k)'
      /\ InLoop(k) => InLoop(k)'
      /\ Executing(k) => Executing(k)'
  BY Zenon DEF ApiNext, schedVars, WithWorker, InLoop, InPromotion, Executing, Carries, Executes
<1>2. ASSUME UNCHANGED queueVars
      PROVE  (InSet(k) => InSet(k)') /\ (InList(k) => InList(k)')
  BY <1>2 DEF queueVars, InSet, InList
<1>3. ASSUME UNCHANGED envVars, DOMAIN jobs' \subseteq DOMAIN jobs
      PROVE  k \in DOMAIN jobs /\ Covered(k)
  BY <1>3 DEF envVars, Custody
<1>4. CASE \E req \in Request : CreateJob(c, req)
  <2>1. PICK req \in Request : CreateJob(c, req)
    BY <1>4, ZenonT(60)
  <2> DEFINE state == [pc |-> "enqueue", id |-> created + 1, queue |-> req.queue,
                       deferred |-> req.runAt # "null"]
  <2>2. Await(c, state) /\ ~Submits(request[c], k) /\ Submits(state, created + 1)
    BY <2>1, Zenon DEF CreateJob, Submits
  <2> HIDE DEF state
  <2>3. (WithRequest(k) => WithRequest(k)') /\ (k = created + 1 => WithRequest(k)')
    BY <1>0, <2>2, RequestCarriers
  <2>4. CASE k = created + 1
    <3>1. jobs'[k].status \in {"pending", "scheduled"}
      BY <2>1, <2>4, Zenon DEF CreateJob, InsertRow
    <3> QED BY <2>3, <2>4, <3>1, Zenon DEF Awaiting
  <2>5. CASE k # created + 1
    <3>1. k \in DOMAIN jobs /\ jobs'[k] = jobs[k] /\ Covered(k)
      <4>1. jobs' = [id \in DOMAIN jobs \cup {created + 1} |->
                       IF id = created + 1 THEN jobs'[id] ELSE jobs[id]]
        BY <2>1, Zenon DEF CreateJob, InsertRow
      <4>2. hit' = hit
        BY <2>1, Zenon DEF CreateJob, envVars
      <4> QED BY <2>5, <4>1, <4>2, ZenonT(60) DEF Custody
    <3> QED BY <1>1, <1>2, <2>1, <2>3, <3>1, Zenon DEF CreateJob, Awaiting
  <2> QED BY <2>4, <2>5
<1>5. CASE \E id \in JobId : CheckCancel(c, id) \/ CheckRetry(c, id)
  <2>1. PICK id \in JobId : CheckCancel(c, id) \/ CheckRetry(c, id)
    BY <1>5, Zenon
  <2>2. ~Submits(request[c], k) /\ \E state : Await(c, state)
    BY <2>1, Zenon DEF CheckCancel, CheckRetry, Submits
  <2>3. WithRequest(k) => WithRequest(k)'
    BY <1>0, <2>2, RequestCarriers, Zenon
  <2> QED BY <1>1, <1>2, <1>3, <2>1, <2>3, Zenon DEF CheckCancel, CheckRetry, storeVars, Awaiting
<1>6. CASE \E id \in JobId : DeleteJob(c, id)
  <2>1. PICK id \in JobId : DeleteJob(c, id)
    BY <1>6, Zenon
  <2>2. WithRequest(k) => WithRequest(k)'
    BY <2>1, Zenon DEF DeleteJob, WithRequest, Submits
  <2>3. k \in DOMAIN jobs /\ Covered(k) /\ jobs'[k] = jobs[k]
    BY <1>3, <2>1, Zenon DEF DeleteJob, DeleteRow
  <2> QED BY <1>1, <1>2, <2>1, <2>2, <2>3, Zenon DEF DeleteJob, Awaiting
<1>7. ASSUME Await(c, NoRequest)
      PROVE  WithRequest(k) => WithRequest(k)' \/ k = request[c].id
  BY <1>0, <1>7, RequestCarriers, ZenonT(60) DEF Submits
<1>8. request[c].pc \in {"enqueue", "retry", "push"} =>
        request[c].id \in JobId /\ request[c].queue \in QueueName
  <2> DEFINE r == request[c]
  <2>1. ASSUME r \in [pc : {"enqueue", "retry", "push"}, id : JobId, queue : QueueName,
                      deferred : BOOLEAN]
        PROVE  r.id \in JobId /\ r.queue \in QueueName
    BY <2>1, Zenon
  <2>2. ASSUME r \in [pc : {"cancel"}, id : JobId, queue : {"none"}, deferred : {FALSE}]
        PROVE  r.pc = "cancel"
    BY <2>2, Zenon
  <2>3. r = NoRequest => r.pc = "none"
    BY DEF NoRequest
  <2> HIDE DEF r
  <2>4. r.pc \in {"enqueue", "retry", "push"} => r.id \in JobId /\ r.queue \in QueueName
    <3>1. r \in RequestState
      BY <1>0, Zenon DEF r
    <3> QED BY <2>1, <2>2, <2>3, <3>1, Zenon DEF RequestState
  <2> QED BY <2>4 DEF r
<1>9. CASE EnqueueCreated(c)
  <2>1. k \in DOMAIN jobs /\ Covered(k) /\ jobs' = jobs
    BY <1>3, <1>9, Zenon DEF EnqueueCreated, storeVars
  <2>2. k \in JobId
    BY <1>0, <2>1, StoreAssumption DEF StoreTypeOK, JobId
  <2>3. request[c].id \in JobId /\ request[c].queue \in QueueName
    BY <1>8, <1>9, Zenon DEF EnqueueCreated
  <2>4. \/ \E score \in {"future", "due"} : Schedule(request[c].id, score)
        \/ Push(request[c].queue, request[c].id)
    BY <1>9, Zenon DEF EnqueueCreated
  <2>5. /\ k = request[c].id => InSet(k)' \/ InList(k)'
        /\ InList(k) => InList(k)'
        /\ InSet(k) => InSet(k)'
    BY <1>0, <2>2, <2>3, <2>4, PushKeeps, ScheduleKeeps, ZenonT(60)
  <2> QED BY <1>1, <1>7, <1>9, <2>1, <2>5, ZenonT(60) DEF EnqueueCreated, Awaiting
<1>10. CASE CancelJob(c)
  <2>1. /\ DOMAIN jobs' = DOMAIN jobs
        /\ k \in DOMAIN jobs =>
             jobs'[k].status = IF k = request[c].id THEN "cancelled" ELSE jobs[k].status
    BY <1>0, <1>10, UpdateJobStatusRows, SMTT(30) DEF CancelJob
  <2>2. Covered(k) /\ k \in DOMAIN jobs
    BY <1>3, <1>10, <2>1, Zenon DEF CancelJob
  <2> QED BY <1>1, <1>2, <1>7, <1>10, <2>1, <2>2, ZenonT(60) DEF CancelJob, Awaiting
<1>11. CASE RetryJob(c)
  <2>1. /\ DOMAIN jobs' = DOMAIN jobs
        /\ k \in DOMAIN jobs =>
             jobs'[k].status = IF k = request[c].id THEN "pending" ELSE jobs[k].status
    BY <1>0, <1>11, UpdateJobErrorRows, SMTT(30) DEF RetryJob
  <2>2. Covered(k) /\ k \in DOMAIN jobs
    BY <1>11, <2>1 DEF RetryJob, Requeue, envVars, Custody
  <2>3. ~Submits(request[c], k) /\ \E state : Await(c, state)
    BY <1>11 DEF RetryJob, Submits
  <2>4. WithRequest(k) => WithRequest(k)'
    BY <1>0, <2>3, RequestCarriers, Zenon
  <2> QED BY <1>1, <1>2, <1>11, <2>1, <2>2, <2>4, SMTT(30) DEF RetryJob, Awaiting
<1>12. CASE PushRetried(c)
  <2>1. Covered(k) /\ jobs' = jobs
    BY <1>3, <1>12, Zenon DEF PushRetried, storeVars
  <2>2. /\ k = request[c].id => InList(k)'
        /\ InList(k) => InList(k)'
        /\ InSet(k) => InSet(k)'
    BY <1>0, <1>8, <1>12, PushKeeps, Zenon DEF PushRetried
  <2> QED BY <1>1, <1>7, <1>12, <2>1, <2>2, Zenon DEF PushRetried, Awaiting
<1>13. CASE RequestFails(c)
  <2>1. k \in DOMAIN jobs /\ Covered(k) /\ jobs' = jobs /\ k # request[c].id
    BY <1>13, Zenon DEF RequestFails, Fault, storeVars, Custody
  <2> QED BY <1>1, <1>2, <1>7, <1>13, <2>1, Zenon DEF RequestFails, Awaiting
<1> QED BY <1>4, <1>5, <1>6, <1>9, <1>10, <1>11, <1>12, <1>13, ZenonT(60)
        DEF ApiNext, NewRequest, RequestStep

\* Time changes no status and removes nothing from the sorted set.
LEMMA TimeCustody ==
  ASSUME TypeOK, Custody, NEW id \in JobId, TimeNext(id),
         NEW k \in DOMAIN jobs' \ hit'
  PROVE  Covered(k)'
<1> USE DEF Covered
<1>0. StoreTypeOK /\ QueueTypeOK
  BY ZenonT(60) DEF TypeOK
<1>1. /\ WithWorker(k) => WithWorker(k)'
      /\ WithRequest(k) => WithRequest(k)'
      /\ InLoop(k) => InLoop(k)'
      /\ Executing(k) => Executing(k)'
  BY DEF TimeNext, schedVars, WithWorker, WithRequest, InLoop, InPromotion, Executing,
         Carries, Submits, Executes
<1>2. /\ k \in DOMAIN jobs
      /\ jobs'[k].status = jobs[k].status
  BY <1>0 DEF TimeNext, TimePasses, CreatedAtAges, StartedAtAges, RunAtArrives, BackoffElapses,
              storeVars, StoreTypeOK, Row
<1>3. Covered(k)
  BY <1>2 DEF TimeNext, TimePasses, RunAtArrives, BackoffElapses, envVars, Custody
<1>4. k \in JobId
  BY <1>0, <1>2, StoreAssumption DEF StoreTypeOK, JobId
<1>5. (InSet(k) => InSet(k)') /\ (InList(k) => InList(k)')
  BY <1>0, <1>4 DEF TimeNext, TimePasses, RunAtArrives, BackoffElapses, queueVars,
                    QueueTypeOK, InSet, InList
<1> QED BY <1>1, <1>2, <1>3, <1>5, Zenon DEF Awaiting

\* Custody: a job no fault has touched is never forgotten while its row says
\* scheduled, retrying or running, whatever the workers, the scheduler loops of
\* any number of instances and the API requests interleave.
THEOREM CustodyHolds == Spec => []Custody
<1>1. Init => Custody
  BY SMTT(30) DEF Init, StoreInit, Custody
<1>2. TypeOK /\ Custody /\ [Next]_vars => Custody'
  <2> SUFFICES ASSUME TypeOK /\ Custody /\ [Next]_vars PROVE Custody'
    BY Zenon
  <2>1. CASE UNCHANGED vars
    <3>1. jobs' = jobs /\ hit' = hit
      BY <2>1, Zenon DEF vars, storeVars, envVars
    <3>2. \A k : Awaiting(k)' <=> Awaiting(k)
      BY <2>1, Zenon DEF vars, queueVars, schedVars, Awaiting, InSet, InList, InLoop, InPromotion,
                         WithWorker, WithRequest, Carries, Submits
    <3>3. \A k : Executing(k)' <=> Executing(k)
      BY <2>1, Zenon DEF vars, Executing, Executes
    <3> QED BY <3>1, <3>2, <3>3, Zenon DEF Custody
  <2>2. ASSUME Next, NEW k \in DOMAIN jobs' \ hit'
        PROVE  Covered(k)'
    BY <2>2, WorkerCustody, SchedCustody, ApiCustody, TimeCustody, SMTT(30) DEF Next
  <2> QED BY <2>1, <2>2 DEF Custody, Covered
<1> QED BY <1>1, <1>2, TypeCorrect, PTL DEF Spec

----------------------------------------------------------------------------
(* The pipeline implements Delivery.  With the places of a job apart, each *)
(* action moves one id at most in or out of them: the rest is which.       *)

OnWay(k) == InSet(k) \/ InList(k) \/ InLoop(k) \/ WithRequest(k)

\* The step changes for none but K whether it is on its way.
OnlyMoves(K) == \A k \in JobId \ requeued' : k \notin K => (OnWay(k)' <=> OnWay(k))

\* A worker has the same job after the step, as far as the promise goes.
SameHold == \A w \in Worker : \/ worker'[w].id = worker[w].id
                              \/ {worker'[w].id, worker[w].id} \subseteq requeued \cup {0}

\* The abstract waiting set follows the jobs that are on their way.
LEMMA WaitingMoves ==
  ASSUME requeued' = requeued, NEW id
  PROVE  /\ OnlyMoves({}) => Waiting' = Waiting
         /\ OnlyMoves({id}) /\ (id \in JobId \ requeued => ~OnWay(id)') => Waiting' = Waiting \ {id}
         /\ OnlyMoves({id}) /\ OnWay(id)' /\ id \in JobId \ requeued => Waiting' = Waiting \cup {id}
BY DEF OnlyMoves, Waiting, OnWay

\* The workers hold what they held.
LEMMA HoldingStays ==
  ASSUME requeued' = requeued, SameHold
  PROVE  Holding' = Holding
BY DEF SameHold, Holding

\* One worker takes a job, or lets its job go.
LEMMA HoldingMoves ==
  ASSUME requeued' = requeued, WorkerTypeOK, NEW w \in Worker, NEW state,
         worker' = [worker EXCEPT ![w] = state], state.id = 0 \/ state.id \notin requeued
  PROVE  Holding' = [Holding EXCEPT ![w] = state.id]
<1>1. worker'[w] = state /\ \A v \in Worker : v # w => worker'[v] = worker[v]
  BY DEF WorkerTypeOK
<1>2. \A v \in Worker : (IF worker'[v].id \in requeued THEN 0 ELSE worker'[v].id) =
                         IF v = w THEN state.id ELSE IF worker[v].id \in requeued THEN 0 ELSE worker[v].id
  BY <1>1
<1> QED BY <1>2, Zenon DEF Holding

\* A step that moves nothing leaves the abstract state alone.
LEMMA Stays ==
  ASSUME OnlyMoves({}), SameHold, UNCHANGED envVars
  PROVE  UNCHANGED Promise!vars
BY WaitingMoves, HoldingStays, ZenonT(60) DEF envVars, Promise!vars

\* A fault names one job, which may be gone from its place afterwards.
LEMMA LosesOne ==
  ASSUME NEW id \in JobId, Fault({id}), OnlyMoves({id}), OnWay(id)' => OnWay(id), SameHold
  PROVE  Promise!Next
<1>1. Waiting' = Waiting \/ Waiting' = Waiting \ {id}
  <2>1. CASE OnWay(id)'
    <3>1. OnlyMoves({})
      BY <2>1, Zenon DEF OnlyMoves
    <3> QED BY <3>1, WaitingMoves, Zenon DEF Fault
  <2>2. CASE ~OnWay(id)'
    BY <2>2, WaitingMoves, Zenon DEF Fault
  <2> QED BY <2>1, <2>2
<1>2. Holding' = Holding
  BY HoldingStays DEF Fault
<1>3. Promise!Lose({id})
  BY <1>1, <1>2 DEF Promise!Lose, Fault
<1> QED BY <1>3 DEF Promise!Next

\* A push without a look at where the job is.
LEMMA PushesBlindly ==
  ASSUME NEW id \in JobId, Requeue({id}), OnlyMoves({id}), worker' = worker
  PROVE  Promise!Next
<1>1. requeued' = requeued \cup {id} /\ hit' = hit
  BY Zenon DEF Requeue
<1>2. Waiting' = Waiting \ {id}
  BY <1>1 DEF OnlyMoves, Waiting, OnWay
<1>3. Holding' = Promise!Without({id})
  BY <1>1 DEF Holding, Promise!Without
<1>4. Promise!PushBlindly(id)
  BY <1>1, <1>2, <1>3, Zenon DEF Promise!PushBlindly
<1> QED BY <1>4, Zenon DEF Promise!Next

\* A worker takes the job it pops, gives back the one it schedules again, and is
\* done with any other it lets go of.
LEMMA WorkerDelivers ==
  ASSUME TypeOK, SingleInv, SingleInv', NEW w \in Worker, WorkerNext(w)
  PROVE  Promise!Next \/ UNCHANGED Promise!vars
<1>0. QueueTypeOK /\ WorkerTypeOK /\ worker[w] \in WorkerState
  BY DEF TypeOK, WorkerTypeOK
<1>a. ASSUME NEW state, worker' = [worker EXCEPT ![w] = state]
      PROVE  worker'[w] = state /\ \A v \in Worker : v # w => worker'[v] = worker[v]
  BY <1>0, <1>a DEF WorkerTypeOK
<1>1. ASSUME NEW k PROVE InLoop(k)' = InLoop(k) /\ WithRequest(k)' = WithRequest(k)
  BY Zenon DEF WorkerNext, schedVars, InLoop, InPromotion, WithRequest, Submits
<1>2. UNCHANGED queueVars => \A K : OnlyMoves(K)
  BY <1>1, Zenon DEF queueVars, OnlyMoves, OnWay, InSet, InList
<1>3. ASSUME NEW k \in JobId \ requeued PROVE Held(k) => ~OnWay(k) /\ Exists(k)
  BY Zenon DEF SingleInv, Alone, Once, OnePlace, Free, Blank, OnWay
<1>4. ASSUME NEW k \in JobId \ requeued' PROVE Held(k)' => ~OnWay(k)'
  BY Zenon DEF SingleInv, Alone, Once, OnePlace, OnWay
<1>5. worker[w].pc # "idle" => worker[w].id \in JobId /\ worker[w].id # 0 /\ Held(worker[w].id)
  <2>1. worker[w].pc # "idle" => worker[w].id \in JobId /\ worker[w].id # 0
    BY <1>0, SMTT(30) DEF WorkerState, IdleWorker, JobId
  <2> QED BY <2>1, Zenon DEF Held
<1>6. IdleWorker.id = 0 /\ (worker[w].pc = "idle" => worker[w].id = 0)
  BY <1>0 DEF IdleWorker, WorkerState
<1>7. CASE PopJob(w)
  <2>1. PICK q \in QueueName : Pop(q) /\ worker' = [worker EXCEPT ![w] = Popped(Head(lists[q]))]
    BY <1>7, Zenon DEF PopJob, Become
  <2>a. Head(lists[q]) \in JobId
    BY <1>0, <2>1 DEF QueueTypeOK, Pop
  <2>3. PICK id \in JobId : id = Head(lists[q])
    BY <2>a
  <2>2. UNCHANGED envVars /\ requeued' = requeued /\ worker[w].id = 0 /\ Popped(id).id = id
    BY <1>6, <1>7, Zenon DEF PopJob, Popped, envVars
  <2>4. InList(id) /\ \A k : k # id => (InList(k)' <=> InList(k)) /\ (InSet(k)' <=> InSet(k))
    <3>1. ASSUME NEW k, k # id PROVE InList(k)' <=> InList(k)
      BY <1>0, <2>1, <2>3, <3>1, PopMoves, PopKeeps, ZenonT(60)
    <3>2. InList(id) /\ scheduled' = scheduled
      BY <1>0, <2>1, <2>3, PopMoves, ZenonT(60)
    <3> QED BY <3>1, <3>2, Zenon DEF InSet
  <2>5. OnlyMoves({id}) /\ OnWay(id)
    BY <1>1, <2>4, Zenon DEF OnlyMoves, OnWay
  <2>b. worker' = [worker EXCEPT ![w] = Popped(id)]
    BY <2>1, <2>3, Zenon
  <2>6. id \notin requeued => Holding' = [Holding EXCEPT ![w] = id]
    <3>1. id \notin requeued => Holding' = [Holding EXCEPT ![w] = Popped(id).id]
      BY <1>0, <2>2, <2>b, HoldingMoves, Zenon
    <3> QED BY <2>2, <3>1, Zenon
  <2>7. worker'[w].id = id /\ \A v \in Worker : v # w => worker'[v] = worker[v]
    BY <1>a, <2>2, <2>b, Zenon
  <2>8. CASE id \in requeued
    <3>1. OnlyMoves({})
      BY <2>2, <2>5, <2>8, SMTT(30) DEF OnlyMoves, envVars
    <3>2. SameHold
      BY <2>2, <2>7, <2>8, SMTT(30) DEF SameHold
    <3> QED BY <2>2, <3>1, <3>2, Stays, ZenonT(60)
  <2>9. CASE id \notin requeued
    <3>1. ~OnWay(id)'
      BY <1>4, <2>2, <2>7, <2>9, Zenon DEF Held
    <3>2. Waiting' = Waiting \ {id}
      BY <2>2, <2>5, <3>1, WaitingMoves, Zenon
    <3>3. id \in Waiting
      BY <2>5, <2>9, Zenon DEF Waiting, OnWay
    <3>4. Promise!Take(w, id)
      BY <2>2, <2>6, <2>9, <3>2, <3>3, SMTT(30) DEF Promise!Take, Holding, envVars
    <3> QED BY <3>4, Zenon DEF Promise!Next
  <2> QED BY <2>8, <2>9
<1>8. ASSUME UNCHANGED envVars, worker' = [worker EXCEPT ![w] = IdleWorker], worker[w].pc # "idle"
      PROVE  /\ worker[w].id \in requeued => SameHold
             /\ Holding' = [Holding EXCEPT ![w] = 0]
             /\ worker[w].id \notin requeued => Holding[w] = worker[w].id /\ Holding[w] # 0
  <2>1. worker'[w].id = 0 /\ \A v \in Worker : v # w => worker'[v] = worker[v]
    BY <1>6, <1>8, <1>a, Zenon
  <2>2. worker[w].id \in requeued => SameHold
    BY <2>1, Zenon DEF SameHold
  <2>3. Holding' = [Holding EXCEPT ![w] = 0]
    BY <1>0, <1>6, <1>8, HoldingMoves, Zenon DEF envVars
  <2> QED BY <1>5, <1>8, <2>2, <2>3, Zenon DEF Holding
<1>9. CASE ScheduleRetry(w)
  <2>1. /\ Schedule(worker[w].id, "future") /\ worker' = [worker EXCEPT ![w] = IdleWorker]
        /\ worker[w].pc # "idle" /\ UNCHANGED envVars /\ requeued' = requeued
    BY <1>9, Zenon DEF ScheduleRetry, Become, envVars
  <2>2. PICK id \in JobId : id = worker[w].id
    BY <1>5, <2>1, Zenon
  <2>3. OnlyMoves({id}) /\ OnWay(id)'
    <3>1. /\ InSet(id)'
          /\ \A k \in JobId : (InList(k)' <=> InList(k)) /\ (k # id => (InSet(k)' <=> InSet(k)))
      BY <1>0, <2>1, <2>2, ZenonT(60) DEF Schedule, InList, InSet, QueueTypeOK
    <3> QED BY <1>1, <3>1, Zenon DEF OnlyMoves, OnWay
  <2>4. CASE id \in requeued
    <3>1. OnlyMoves({})
      BY <2>1, <2>3, <2>4 DEF OnlyMoves, envVars
    <3> QED BY <1>8, <2>1, <2>2, <2>4, <3>1, Stays, Zenon
  <2>5. CASE id \notin requeued
    <3>1. Waiting' = Waiting \cup {id}
      BY <2>1, <2>3, <2>5, WaitingMoves, Zenon
    <3>2. Promise!GiveBack(w)
      BY <1>8, <2>1, <2>2, <2>5, <3>1, Zenon DEF Promise!GiveBack, envVars
    <3> QED BY <3>2, Zenon DEF Promise!Next
  <2> QED BY <2>4, <2>5
<1>10. CASE RejectUnknownType(w) \/ CompleteJob(w) \/ BuryJob(w)
  <2>1. /\ worker' = [worker EXCEPT ![w] = IdleWorker] /\ worker[w].pc # "idle"
        /\ UNCHANGED <<queueVars, envVars>>
    BY <1>10, Zenon DEF RejectUnknownType, CompleteJob, BuryJob, Become
  <2>2. OnlyMoves({})
    BY <1>2, <2>1, Zenon
  <2>3. CASE worker[w].id \in requeued
    BY <1>8, <2>1, <2>2, <2>3, Stays, Zenon
  <2>4. CASE worker[w].id \notin requeued
    <3>1. Waiting' = Waiting
      BY <2>1, <2>2, WaitingMoves, Zenon DEF envVars
    <3>2. Promise!Finish(w)
      BY <1>8, <2>1, <2>4, <3>1, Zenon DEF Promise!Finish, envVars
    <3> QED BY <3>2, Zenon DEF Promise!Next
  <2> QED BY <2>3, <2>4
<1>11. CASE FetchJob(w)
  <2>1. UNCHANGED <<queueVars, envVars>> /\ worker[w].pc # "idle"
    BY <1>11, Zenon DEF FetchJob
  <2>2. SameHold
    <3>1. CASE Exists(worker[w].id)
      <4>1. worker'[w].id = worker[w].id /\ \A v \in Worker : v # w => worker'[v] = worker[v]
        BY <1>0, <1>11, <3>1, ZenonT(60) DEF FetchJob, Become, WorkerTypeOK
      <4> QED BY <4>1, Zenon DEF SameHold
    <3>2. CASE ~Exists(worker[w].id)
      <4>1. worker' = [worker EXCEPT ![w] = IdleWorker] /\ worker[w].id \in requeued
        BY <1>3, <1>5, <1>11, <2>1, <3>2, Zenon DEF FetchJob, Become
      <4> QED BY <1>8, <2>1, <4>1, Zenon
    <3> QED BY <3>1, <3>2
  <2> QED BY <1>2, <2>1, <2>2, Stays, Zenon
<1>12. CASE StartJob(w) \/ RetryLater(w) \/ RetryUnrecorded(w)
  <2>1. UNCHANGED queueVars /\ worker[w].pc # "idle" /\ \E pc : worker' = [worker EXCEPT ![w].pc = pc]
    BY <1>12, Zenon DEF StartJob, RetryLater, RetryUnrecorded, Goto
  <2>2. SameHold
    BY <1>0, <2>1 DEF SameHold, WorkerTypeOK, WorkerState, IdleWorker
  <2>3. CASE RetryUnrecorded(w)
    <3>1. PICK id \in JobId : id = worker[w].id
      BY <1>5, <2>1, Zenon
    <3>2. UNCHANGED <<lists, scheduled>> /\ Fault({id})
      BY <2>1, <2>3, <3>1, Zenon DEF RetryUnrecorded, queueVars
    <3>3. OnWay(id)' => OnWay(id)
      BY <1>1, <3>2, Zenon DEF OnWay, InSet, InList
    <3> QED BY <1>2, <2>1, <2>2, <3>2, <3>3, LosesOne, Zenon
  <2>4. CASE ~RetryUnrecorded(w)
    <3>1. UNCHANGED envVars
      BY <1>12, <2>4, Zenon DEF StartJob, RetryLater
    <3> QED BY <1>2, <2>1, <2>2, <3>1, Stays, Zenon
  <2> QED BY <2>3, <2>4
<1>13. CASE AbandonJob(w)
  <2>1. /\ worker' = [worker EXCEPT ![w] = IdleWorker] /\ worker[w].pc # "idle"
        /\ UNCHANGED queueVars /\ Fault({worker[w].id}) /\ requeued' = requeued
    BY <1>13, Zenon DEF AbandonJob, Become, Fault
  <2>2. PICK id \in JobId : id = worker[w].id
    BY <1>5, <2>1, Zenon
  <2>3. Waiting' = Waiting
    BY <1>2, <2>1, WaitingMoves, Zenon
  <2>4. Holding' = [Holding EXCEPT ![w] = 0]
    BY <1>0, <1>6, <2>1, HoldingMoves, ZenonT(60)
  <2>5. Holding' = Holding \/ Holding' = Promise!Without({id})
    <3>1. CASE id \in requeued
      BY <2>2, <2>4, <3>1, Zenon DEF Holding
    <3>2. CASE id \notin requeued
      <4>1. \A v \in Worker : worker[v].id = id => v = w
        BY <2>2, <3>2, Zenon DEF SingleInv, Alone, Once, WorkerOnce
      <4> QED BY <2>2, <2>4, <3>2, <4>1, Zenon DEF Holding, Promise!Without
    <3> QED BY <3>1, <3>2
  <2>6. Promise!Lose({id})
    BY <2>1, <2>2, <2>3, <2>5, Zenon DEF Promise!Lose, Fault
  <2> QED BY <2>6 DEF Promise!Next
<1> QED BY <1>7, <1>9, <1>10, <1>11, <1>12, <1>13, ZenonT(60) DEF WorkerNext, WorkerStep, WorkerFault

\* A scheduled loop keeps what it moves on its way, and loses it by a fault only;
\* the recovery loop pushes blindly.
LEMMA SchedDelivers ==
  ASSUME TypeOK, SingleInv, NEW i \in Instance, SchedNext(i)
  PROVE  Promise!Next \/ UNCHANGED Promise!vars
<1>0. QueueTypeOK /\ SchedTypeOK /\ promoting[i] \in Promotion
  BY DEF TypeOK, SchedTypeOK
<1>1. SameHold /\ \A k : WithRequest(k)' <=> WithRequest(k)
  BY Zenon DEF SchedNext, SameHold, WithRequest, Submits
<1>2. \/ Start(i) \/ Stop(i) \/ TakeDueJobs(i) \/ FetchDueJob(i) \/ PushDueJob(i)
      \/ MarkPending(i) \/ SkipDueJob(i) \/ FindUnqueued(i) \/ PushUnqueued(i)
      \/ SkipUnqueued(i) \/ FindStale(i) \/ FailStale(i) \/ SkipStale(i)
  BY Zenon DEF SchedNext, SchedStep, SchedFault, runScheduledLoop, runRecoveryLoop, runStaleCheckLoop
<1>3. UNCHANGED queueVars => \A k : (InSet(k)' <=> InSet(k)) /\ (InList(k)' <=> InList(k))
  BY Zenon DEF queueVars, InSet, InList
<1>4. promoting' = promoting => \A k : InLoop(k)' <=> InLoop(k)
  BY Zenon DEF InLoop, InPromotion
<1>5. ASSUME NEW k \in JobId \ requeued, InLoop(k)
      PROVE  Exists(k) /\ LoopOnce(k) /\ ~InSet(k) /\ ~InList(k) /\ ~WithRequest(k)
  BY <1>5, Zenon DEF SingleInv, Alone, Once, OnePlace, Free, Blank
<1>6. ASSUME NEW batch
      PROVE  Holds(Between(batch)) = batch /\ Between(batch).pc # "push"
  BY Zenon DEF Holds, Between
<1>7. ASSUME NEW state, promoting' = [promoting EXCEPT ![i] = state], NEW k
      PROVE  /\ k \in Holds(state) => InLoop(k)'
             /\ k \notin Holds(state) /\ k \notin InPromotion(i) => (InLoop(k)' <=> InLoop(k))
             /\ InLoop(k)' => InLoop(k) \/ k \in Holds(state)
             /\ LoopOnce(k) /\ k \in InPromotion(i) /\ k \notin Holds(state) => ~InLoop(k)'
  <2>1. promoting'[i] = state /\ \A j \in Instance : j # i => promoting'[j] = promoting[j]
    BY <1>0, <1>7, SMTT(30) DEF SchedTypeOK
  <2>2. InPromotion(i)' = Holds(state) /\ \A j \in Instance : j # i => InPromotion(j)' = InPromotion(j)
    BY <2>1 DEF InPromotion, Holds
  <2> QED BY <2>2, Zenon DEF InLoop, LoopOnce
<1>8. CASE Start(i) \/ FindUnqueued(i) \/ FindStale(i) \/ FailStale(i)
  <2>1. UNCHANGED <<queueVars, envVars>> /\ promoting' = promoting
    BY <1>8, Zenon DEF Start, FindUnqueued, FindStale, FailStale
  <2>2. OnlyMoves({})
    BY <1>1, <1>3, <1>4, <2>1, Zenon DEF OnlyMoves, OnWay
  <2> QED BY <1>1, <2>1, <2>2, Stays, ZenonT(60)
<1>9. CASE SkipUnqueued(i) \/ SkipStale(i)
  <2>1. UNCHANGED queueVars /\ Fault({}) /\ promoting' = promoting
    BY <1>9, Zenon DEF SkipUnqueued, SkipStale, RecoverNext
  <2>2. OnlyMoves({})
    BY <1>1, <1>3, <1>4, <2>1, Zenon DEF OnlyMoves, OnWay
  <2>3. Waiting' = Waiting /\ Holding' = Holding
    BY <1>1, <2>1, <2>2, WaitingMoves, HoldingStays, ZenonT(60) DEF Fault
  <2>4. Promise!Lose({})
    BY <2>1, <2>3, Zenon DEF Promise!Lose, Fault
  <2> QED BY <2>4 DEF Promise!Next
<1>10. CASE PushUnqueued(i)
  <2>1. PICK job \in recovering[i] : /\ Push(job.queue, job.id) /\ Requeue({job.id})
                                     /\ promoting' = promoting
    BY <1>10, Zenon DEF PushUnqueued, RecoverNext
  <2>2. job.queue \in QueueName /\ job.id \in JobId
    BY <1>0, <2>1 DEF SchedTypeOK
  <2>3. ASSUME NEW k, k # job.id PROVE (InList(k)' <=> InList(k)) /\ (InSet(k)' <=> InSet(k))
    BY <1>0, <2>1, <2>2, <2>3, PushMoves, PushKeeps, ZenonT(60) DEF InSet
  <2>4. OnlyMoves({job.id})
    BY <1>1, <1>4, <2>1, <2>3, Zenon DEF OnlyMoves, OnWay
  <2>5. worker' = worker
    BY Zenon DEF SchedNext
  <2> QED BY <2>1, <2>2, <2>4, <2>5, PushesBlindly, Zenon
<1>11. CASE TakeDueJobs(i)
  <2>1. /\ promoting' = [promoting EXCEPT ![i] = Between(DueJobs)] /\ promoting[i] = Between({})
        /\ GetDueJobs /\ UNCHANGED envVars
    BY <1>11, Zenon DEF TakeDueJobs, Promote
  <2>2. InPromotion(i) = {}
    <3>1. promoting[i].pc = "next" /\ promoting[i].batch = {}
      BY <2>1, SMTT(30) DEF Between
    <3> QED BY <1>0, <3>1, PromotionParts, Zenon
  <2>3. ASSUME NEW k \in JobId
        PROVE  /\ InList(k)' <=> InList(k)
               /\ k \in DueJobs => InSet(k)
               /\ k \notin DueJobs => (InSet(k)' <=> InSet(k))
    BY <2>1, Zenon DEF GetDueJobs, DueJobs, InList, InSet
  <2>4. ASSUME NEW k
        PROVE  (k \in DueJobs => InLoop(k)') /\ (k \notin DueJobs => (InLoop(k)' <=> InLoop(k)))
    BY <1>6, <1>7, <2>1, <2>2, Zenon
  <2>5. OnlyMoves({})
    BY <1>1, <2>3, <2>4, Zenon DEF OnlyMoves, OnWay
  <2> QED BY <1>1, <2>1, <2>5, Stays, Zenon
<1>12. CASE FetchDueJob(i)
  <2>1. UNCHANGED <<queueVars, envVars>> /\ promoting[i].pc = "next"
    BY <1>12, Zenon DEF FetchDueJob
  <2>2. PICK id \in promoting[i].batch :
          Promote(i, IF Exists(id)
                       THEN [batch |-> promoting[i].batch \ {id}, pc |-> "push", id |-> id,
                             queue |-> jobs[id].queue, status |-> jobs[id].status]
                       ELSE Between(promoting[i].batch \ {id}))
    BY <1>12, Zenon DEF FetchDueJob
  <2>3. PICK state : /\ promoting' = [promoting EXCEPT ![i] = state]
                     /\ Exists(id) => Holds(state) = promoting[i].batch
                     /\ ~Exists(id) => Holds(state) = promoting[i].batch \ {id}
    <3> DEFINE rest == promoting[i].batch \ {id}
               current == [batch |-> rest, pc |-> "push", id |-> id,
                           queue |-> jobs[id].queue, status |-> jobs[id].status]
    <3>1. IF Exists(id) THEN promoting' = [promoting EXCEPT ![i] = current]
                        ELSE promoting' = [promoting EXCEPT ![i] = Between(rest)]
      BY <2>2, ZenonT(60) DEF Promote
    <3>2. Holds(current) = promoting[i].batch
      BY <2>2, CurrentHeld, ZenonT(60)
    <3>3. Holds(Between(rest)) = rest
      BY <1>6, Zenon
    <3> HIDE DEF current, rest
    <3> QED BY <3>1, <3>2, <3>3, Zenon DEF rest
  <2>4. InPromotion(i) = promoting[i].batch
    BY <2>1, SMTT(30) DEF InPromotion
  <2>5. ASSUME NEW k \in JobId \ requeued PROVE InLoop(k)' <=> InLoop(k)
    <3>1. k \in InPromotion(i) => InLoop(k) /\ Exists(k)
      BY <1>5, Zenon DEF InLoop
    <3>2. k \in Holds(state) <=> k \in InPromotion(i)
      BY <2>3, <2>4, <3>1, Zenon
    <3> QED BY <1>7, <2>3, <3>1, <3>2, Zenon
  <2>6. OnlyMoves({})
    BY <1>1, <1>3, <2>1, <2>5, ZenonT(60) DEF OnlyMoves, OnWay, envVars
  <2> QED BY <1>1, <2>1, <2>6, Stays, Zenon
<1>13. CASE PushDueJob(i)
  <2>1. /\ promoting[i].pc = "push" /\ Push(promoting[i].queue, promoting[i].id)
        /\ UNCHANGED envVars
    BY <1>13, ZenonT(60) DEF PushDueJob
  <2>2. promoting[i].queue \in QueueName /\ promoting[i].id \in JobId
    BY <1>0, <2>1, PromotionParts, Zenon
  <2>3. PICK id \in JobId : id = promoting[i].id
    BY <2>2
  <2>4. PICK state : promoting' = [promoting EXCEPT ![i] = state] /\ Holds(state) = promoting[i].batch
    <3>1. \/ promoting' = [promoting EXCEPT ![i] = [promoting[i] EXCEPT !.pc = "mark"]]
          \/ promoting' = [promoting EXCEPT ![i] = Between(promoting[i].batch)]
      BY <1>13, Zenon DEF PushDueJob, Promote
    <3>2. Holds([promoting[i] EXCEPT !.pc = "mark"]) = promoting[i].batch
      BY <1>0, SMTT(30) DEF Promotion, Between, Holds
    <3> QED BY <1>6, <3>1, <3>2, Zenon
  <2>5. InPromotion(i) = promoting[i].batch \cup {id}
    BY <2>1, <2>3, Zenon DEF InPromotion
  <2>6. ASSUME NEW k \in JobId, k # id
        PROVE  /\ (InList(k)' <=> InList(k)) /\ (InSet(k)' <=> InSet(k))
               /\ InLoop(k)' <=> InLoop(k)
    <3>1. (InList(k)' <=> InList(k)) /\ scheduled' = scheduled
      BY <1>0, <2>1, <2>2, <2>3, <2>6, PushMoves, PushKeeps, ZenonT(60)
    <3>2. k \in Holds(state) <=> k \in InPromotion(i)
      BY <2>4, <2>5, <2>6, Zenon
    <3>3. k \in InPromotion(i) => InLoop(k)
      BY Zenon DEF InLoop
    <3> QED BY <1>7, <2>4, <3>1, <3>2, <3>3, Zenon DEF InSet
  <2>7. OnWay(id) /\ OnWay(id)'
    <3>1. InLoop(id)
      BY <2>5, Zenon DEF InLoop
    <3>2. InList(id)'
      BY <1>0, <2>1, <2>2, <2>3, PushKeeps, Zenon
    <3> QED BY <3>1, <3>2, Zenon DEF OnWay
  <2>8. OnlyMoves({})
    BY <1>1, <2>6, <2>7, Zenon DEF OnlyMoves, OnWay
  <2> QED BY <1>1, <2>1, <2>8, Stays, Zenon
<1>14. CASE MarkPending(i)
  <2>1. /\ promoting' = [promoting EXCEPT ![i] = Between(promoting[i].batch)]
        /\ promoting[i].pc = "mark" /\ UNCHANGED <<queueVars, envVars>>
    BY <1>14, Zenon DEF MarkPending, Promote
  <2>2. InPromotion(i) = promoting[i].batch
    BY <2>1 DEF InPromotion
  <2>3. ASSUME NEW k PROVE InLoop(k)' <=> InLoop(k)
    BY <1>6, <1>7, <2>1, <2>2, Zenon DEF InLoop
  <2>4. OnlyMoves({})
    BY <1>1, <1>3, <2>1, <2>3, Zenon DEF OnlyMoves, OnWay
  <2> QED BY <1>1, <2>1, <2>4, Stays, Zenon
<1>15. CASE SkipDueJob(i)
  <2>1. PICK id, batch :
          /\ id \in JobId /\ Fault({id})
          /\ promoting' = [promoting EXCEPT ![i] = Between(batch)]
          /\ batch \subseteq InPromotion(i) /\ InPromotion(i) \ {id} \subseteq batch
    <3>1. CASE promoting[i].pc = "next"
      <4>1. promoting[i].batch \subseteq JobId /\ InPromotion(i) = promoting[i].batch
        BY <1>0, <3>1, PromotionParts, Zenon
      <4>2. PICK id \in promoting[i].batch :
              Fault({id}) /\ promoting' = [promoting EXCEPT ![i] = Between(promoting[i].batch \ {id})]
        BY <1>15, <3>1, Zenon DEF SkipDueJob, Promote
      <4>3. promoting[i].batch \ {id} \subseteq InPromotion(i)
        BY <4>1, Zenon
      <4> QED BY <4>1, <4>2, <4>3, ZenonT(60)
    <3>2. CASE promoting[i].pc # "next"
      <4>1. /\ promoting[i].id \in JobId /\ promoting[i].batch \subseteq InPromotion(i)
            /\ InPromotion(i) \ {promoting[i].id} \subseteq promoting[i].batch
        BY <1>0, <3>2, PromotionParts, Zenon
      <4>2. Fault({promoting[i].id}) /\ promoting' = [promoting EXCEPT ![i] = Between(promoting[i].batch)]
        BY <1>15, <3>2, Zenon DEF SkipDueJob, Promote
      <4> QED BY <4>1, <4>2, ZenonT(60)
    <3> QED BY <3>1, <3>2, Zenon
  <2>2. ASSUME NEW k PROVE (InLoop(k)' => InLoop(k)) /\ (k # id => (InLoop(k)' <=> InLoop(k)))
    <3>1. k \in batch => k \in InPromotion(i) /\ InLoop(k)
      BY <2>1, Zenon DEF InLoop
    <3>2. k # id /\ k \in InPromotion(i) => k \in batch
      BY <2>1
    <3> QED BY <1>6, <1>7, <2>1, <3>1, <3>2, Zenon
  <2>3. UNCHANGED queueVars
    BY <1>15, Zenon DEF SkipDueJob
  <2>4. OnlyMoves({id}) /\ (OnWay(id)' => OnWay(id))
    BY <1>1, <1>3, <2>2, <2>3, Zenon DEF OnlyMoves, OnWay
  <2> QED BY <1>1, <2>1, <2>4, LosesOne, Zenon
<1>16. CASE Stop(i)
  <2>1. /\ Fault(InPromotion(i)) /\ UNCHANGED queueVars /\ requeued' = requeued
        /\ promoting' = [promoting EXCEPT ![i] = Between({})]
    BY <1>16, Zenon DEF Stop, Fault
  <2>2. ASSUME NEW k \in JobId \ requeued
        PROVE  /\ k \notin InPromotion(i) => (OnWay(k)' <=> OnWay(k))
               /\ k \in InPromotion(i) => ~OnWay(k)'
    <3>1. k \in InPromotion(i) => InLoop(k)
      BY Zenon DEF InLoop
    <3>2. k \notin Holds(Between({}))
      BY <1>6
    <3>3. /\ k \notin InPromotion(i) => (InLoop(k)' <=> InLoop(k))
          /\ k \in InPromotion(i) => ~InLoop(k)'
      BY <1>5, <1>7, <2>1, <3>1, <3>2, ZenonT(60)
    <3> QED BY <1>1, <1>3, <1>5, <2>1, <3>1, <3>3, Zenon DEF OnWay
  <2>3. Waiting' = Waiting \ InPromotion(i)
    BY <2>1, <2>2 DEF Waiting, OnWay
  <2>4. Holding' = Holding
    BY <1>1, <2>1, HoldingStays, ZenonT(60)
  <2>5. InPromotion(i) \subseteq JobId
    BY <1>0, PromotionParts, Zenon
  <2>6. Promise!Lose(InPromotion(i))
    BY <2>1, <2>3, <2>4, Zenon DEF Promise!Lose, Fault
  <2> QED BY <2>5, <2>6, Zenon DEF Promise!Next
<1> QED BY <1>2, <1>8, <1>9, <1>10, <1>11, <1>12, <1>13, <1>14, <1>15, <1>16, ZenonT(60)

\* A request in progress knows the job it is about, and keeps it when it goes on
\* from the update to the push.
LEMMA Requesting ==
  ASSUME NEW r \in RequestState, r.pc # "none"
  PROVE  r.id \in JobId /\ [r EXCEPT !.pc = "push"].pc = "push" /\ [r EXCEPT !.pc = "push"].id = r.id
<1>1. CASE r = NoRequest
  BY <1>1 DEF NoRequest
<1>2. CASE r \in [pc : {"cancel"}, id : JobId, queue : {"none"}, deferred : {FALSE}]
  BY <1>2
<1>3. CASE r \in [pc : {"enqueue", "retry", "push"}, id : JobId, queue : QueueName, deferred : BOOLEAN]
  BY <1>3
<1> QED BY <1>1, <1>2, <1>3, Zenon DEF RequestState

\* A request submits a job that has no row or a dead one, keeps it on its way, and
\* loses it by a fault only; a RetryJob that was overtaken pushes blindly.
LEMMA ApiDelivers ==
  ASSUME TypeOK, SingleInv, NEW c \in Client, ApiNext(c)
  PROVE  Promise!Next \/ UNCHANGED Promise!vars
<1>0. StoreTypeOK /\ QueueTypeOK /\ ApiTypeOK /\ request[c] \in RequestState
  BY Zenon DEF TypeOK, ApiTypeOK
<1>1. worker' = worker /\ SameHold /\ \A k : InLoop(k)' <=> InLoop(k)
  BY Zenon DEF ApiNext, schedVars, SameHold, InLoop, InPromotion
<1>2. UNCHANGED queueVars => \A k : (InSet(k)' <=> InSet(k)) /\ (InList(k)' <=> InList(k))
  BY Zenon DEF queueVars, InSet, InList
<1>3. ASSUME NEW k \in JobId \ requeued, Blank(k)
      PROVE  ~OnWay(k) /\ \A w \in Worker : Holding[w] # k
  <2>1. ~OnWay(k) /\ ~Held(k) /\ k # 0
    BY <1>3 DEF SingleInv, Alone, Free, OnWay, JobId
  <2> QED BY <2>1, Zenon DEF Holding, Held
<1>4. ASSUME NEW state, Await(c, state), NEW k
      PROVE  /\ Submits(state, k) => WithRequest(k)'
             /\ ~Submits(state, k) /\ ~Submits(request[c], k) => (WithRequest(k)' <=> WithRequest(k))
             /\ WithRequest(k)' => WithRequest(k) \/ Submits(state, k)
  BY <1>0, <1>4, RequestCarriers, RequestMoves, Zenon
<1>5. ~(\E k : Submits(NoRequest, k))
  BY DEF Submits, NoRequest
<1>6. ASSUME NEW id \in JobId, NEW state, Await(c, state), Submits(state, id), UNCHANGED queueVars,
             \A k : k # id => ~Submits(state, k) /\ ~Submits(request[c], k)
      PROVE  OnlyMoves({id}) /\ OnWay(id)'
  BY <1>1, <1>2, <1>4, <1>6, Zenon DEF OnlyMoves, OnWay
<1>7. ASSUME NEW id \in JobId, Blank(id), OnlyMoves({id}), OnWay(id)', UNCHANGED envVars
      PROVE  Promise!Next \/ UNCHANGED Promise!vars
  <2>1. requeued' = requeued
    BY <1>7 DEF envVars
  <2>2. CASE id \in requeued
    <3>1. OnlyMoves({})
      BY <1>7, <2>1, <2>2 DEF OnlyMoves
    <3> QED BY <1>1, <1>7, <3>1, Stays, Zenon
  <2>3. CASE id \notin requeued
    <3>1. Waiting' = Waiting \cup {id} /\ Holding' = Holding
      BY <1>1, <1>7, <2>1, <2>3, WaitingMoves, HoldingStays, Zenon
    <3>2. id \notin Waiting \cup requeued /\ \A w \in Worker : Holding[w] # id
      BY <1>3, <1>7, <2>3, Zenon DEF Waiting, OnWay
    <3>3. Promise!Submit(id)
      BY <1>7, <3>1, <3>2, Zenon DEF Promise!Submit, envVars
    <3> QED BY <3>3, Zenon DEF Promise!Next
  <2> QED BY <2>2, <2>3
<1>8. ASSUME NEW req \in Request, CreateJob(c, req) PROVE Promise!Next \/ UNCHANGED Promise!vars
  <2>1. created + 1 \in JobId /\ created + 1 \notin DOMAIN jobs
    <3>1. created < MaxJobs
      BY <1>8, Zenon DEF CreateJob, InsertRow
    <3> QED BY <1>0, <3>1, StoreAssumption DEF StoreTypeOK, JobId
  <2>2. PICK id \in JobId : id = created + 1
    BY <2>1
  <2> DEFINE state == [pc |-> "enqueue", id |-> id, queue |-> req.queue, deferred |-> req.runAt # "null"]
  <2>3. Await(c, state) /\ UNCHANGED <<queueVars, envVars>> /\ request[c].pc = "none"
    BY <1>8, <2>2, Zenon DEF CreateJob
  <2>4. Submits(state, id) /\ \A k : k # id => ~Submits(state, k) /\ ~Submits(request[c], k)
    BY <2>3, Zenon DEF Submits
  <2>5. Blank(id)
    BY <2>1, <2>2, Zenon DEF Blank, Exists
  <2> HIDE DEF state
  <2> QED BY <1>6, <1>7, <2>3, <2>4, <2>5, ZenonT(60)
<1>9. ASSUME EnqueueCreated(c) \/ PushRetried(c) PROVE UNCHANGED Promise!vars
  <2>1. /\ Await(c, NoRequest) /\ UNCHANGED envVars /\ request[c].pc \in {"enqueue", "push"}
        /\ \/ \E score \in {"future", "due"} : Schedule(request[c].id, score)
           \/ Push(request[c].queue, request[c].id)
    BY <1>9, Zenon DEF EnqueueCreated, PushRetried
  <2>2. request[c].id \in JobId /\ request[c].queue \in QueueName
    BY <1>0, <2>1, Submitting, Zenon
  <2>3. PICK id \in JobId : id = request[c].id
    BY <2>2
  <2>4. /\ InSet(id)' \/ InList(id)'
        /\ \A k \in JobId : k # id => (InSet(k)' <=> InSet(k)) /\ (InList(k)' <=> InList(k))
    <3>1. CASE \E score \in {"future", "due"} : Schedule(id, score)
      BY <1>0, <3>1, ZenonT(60) DEF Schedule, InSet, InList, QueueTypeOK
    <3>2. CASE Push(request[c].queue, id)
      <4>1. InList(id)' /\ scheduled' = scheduled
        BY <1>0, <2>2, <3>2, PushKeeps, PushMoves, Zenon
      <4>2. \A k : k # id => (InList(k)' <=> InList(k))
        BY <1>0, <2>2, <3>2, PushKeeps, PushMoves, ZenonT(60)
      <4> QED BY <4>1, <4>2, Zenon DEF InSet
    <3> QED BY <2>1, <2>3, <3>1, <3>2, Zenon
  <2>5. \A k : Submits(request[c], k) <=> k = id
    BY <2>1, <2>3 DEF Submits
  <2>6. OnWay(id) /\ OnWay(id)'
    BY <2>4, <2>5, Zenon DEF OnWay, WithRequest
  <2>7. OnlyMoves({})
    BY <1>1, <1>4, <1>5, <2>1, <2>4, <2>5, <2>6, ZenonT(60) DEF OnlyMoves, OnWay
  <2> QED BY <1>1, <2>1, <2>7, Stays, Zenon
<1>10. ASSUME RetryJob(c) PROVE Promise!Next \/ UNCHANGED Promise!vars
  <2>1. /\ Await(c, [request[c] EXCEPT !.pc = "push"]) /\ UNCHANGED queueVars /\ request[c].pc = "retry"
        /\ IF Exists(request[c].id) /\ jobs[request[c].id].status = "dead"
             THEN UNCHANGED envVars ELSE Requeue({request[c].id})
    BY <1>10, Zenon DEF RetryJob
  <2>2. /\ request[c].id \in JobId /\ [request[c] EXCEPT !.pc = "push"].pc = "push"
        /\ [request[c] EXCEPT !.pc = "push"].id = request[c].id
    BY <1>0, <2>1, Requesting
  <2>3. PICK id \in JobId : id = request[c].id
    BY <2>2
  <2> DEFINE state == [request[c] EXCEPT !.pc = "push"]
  <2>4. Submits(state, id) /\ \A k : k # id => ~Submits(state, k) /\ ~Submits(request[c], k)
    BY <2>1, <2>2, <2>3, Zenon DEF Submits
  <2> HIDE DEF state
  <2>5. OnlyMoves({id}) /\ OnWay(id)'
    BY <1>6, <2>1, <2>4, Zenon DEF state
  <2>6. CASE Exists(id) /\ jobs[id].status = "dead"
    BY <1>7, <2>1, <2>3, <2>5, <2>6, Zenon DEF Blank
  <2>7. CASE ~(Exists(id) /\ jobs[id].status = "dead")
    BY <1>1, <2>1, <2>3, <2>5, <2>7, PushesBlindly, Zenon
  <2> QED BY <2>6, <2>7
<1>11. ASSUME NEW id \in JobId, CheckCancel(c, id) \/ CheckRetry(c, id) PROVE UNCHANGED Promise!vars
  <2> DEFINE cancel == [pc |-> "cancel", id |-> id, queue |-> "none", deferred |-> FALSE]
             retry == [pc |-> "retry", id |-> id, queue |-> jobs[id].queue, deferred |-> FALSE]
  <2>1. /\ UNCHANGED <<queueVars, envVars>> /\ (Await(c, cancel) \/ Await(c, retry))
        /\ request[c].pc = "none"
    BY <1>11, Zenon DEF CheckCancel, CheckRetry
  <2>2. \A k : ~Submits(cancel, k) /\ ~Submits(retry, k) /\ ~Submits(request[c], k)
    BY <2>1, Zenon DEF Submits
  <2> HIDE DEF cancel, retry
  <2>3. OnlyMoves({})
    BY <1>1, <1>2, <1>4, <2>1, <2>2, Zenon DEF OnlyMoves, OnWay
  <2> QED BY <1>1, <2>1, <2>3, Stays, Zenon
<1>12. ASSUME CancelJob(c) PROVE UNCHANGED Promise!vars
  <2>1. Await(c, NoRequest) /\ UNCHANGED <<queueVars, envVars>> /\ request[c].pc = "cancel"
    BY <1>12, Zenon DEF CancelJob
  <2>2. \A k : ~Submits(request[c], k)
    BY <2>1, Zenon DEF Submits
  <2>3. OnlyMoves({})
    BY <1>1, <1>2, <1>4, <1>5, <2>1, <2>2, Zenon DEF OnlyMoves, OnWay
  <2> QED BY <1>1, <2>1, <2>3, Stays, Zenon
<1>13. ASSUME RequestFails(c) PROVE Promise!Next
  <2>1. /\ Await(c, NoRequest) /\ UNCHANGED queueVars /\ Fault({request[c].id})
        /\ request[c].pc # "none"
    BY <1>13, Zenon DEF RequestFails
  <2>2. request[c].id \in JobId
    BY <1>0, <2>1, Requesting, Zenon
  <2>3. PICK id \in JobId : id = request[c].id
    BY <2>2
  <2>4. \A k : k # id => ~Submits(request[c], k)
    BY <2>3, Zenon DEF Submits
  <2>5. OnlyMoves({id}) /\ (OnWay(id)' => OnWay(id))
    BY <1>1, <1>2, <1>4, <1>5, <2>1, <2>4, ZenonT(60) DEF OnlyMoves, OnWay
  <2> QED BY <1>1, <2>1, <2>3, <2>5, LosesOne, Zenon
<1>14. ASSUME NEW id \in JobId, DeleteJob(c, id) PROVE UNCHANGED Promise!vars
  <2>1. request' = request /\ UNCHANGED <<queueVars, envVars>>
    BY <1>14, Zenon DEF DeleteJob
  <2>2. OnlyMoves({})
    BY <1>1, <1>2, <2>1, ZenonT(60) DEF OnlyMoves, OnWay, WithRequest
  <2> QED BY <1>1, <2>1, <2>2, Stays, Zenon
<1> QED BY <1>8, <1>9, <1>10, <1>11, <1>12, <1>13, <1>14, ZenonT(60) DEF ApiNext, NewRequest, RequestStep

\* Time moves no job.
LEMMA TimeDelivers ==
  ASSUME TypeOK, NEW id \in JobId, TimeNext(id)
  PROVE  UNCHANGED Promise!vars
<1>1. SameHold /\ \A k : (InLoop(k)' <=> InLoop(k)) /\ (WithRequest(k)' <=> WithRequest(k))
  BY Zenon DEF TimeNext, schedVars, SameHold, InLoop, InPromotion, WithRequest, Submits
<1>2. lists' = lists /\ UNCHANGED envVars /\ \A k \in JobId : InSet(k)' <=> InSet(k)
  BY DEF TypeOK, QueueTypeOK, TimeNext, TimePasses, RunAtArrives, BackoffElapses, queueVars, envVars, InSet
<1>3. OnlyMoves({})
  BY <1>1, <1>2, Zenon DEF OnlyMoves, OnWay, InList
<1> QED BY <1>1, <1>2, <1>3, Stays, Zenon

\* Delivery: of the ids that requests, scheduler loops and workers move between
\* the table, the sorted set, the lists and their own memory, none that was not
\* pushed blindly is dropped without a fault, doubled, or handed to a worker
\* without a submission or a retry of its own.
THEOREM DeliveryImplemented == Spec => DeliveryKept
<1>1. Init => Promise!Init
  <2> SUFFICES ASSUME Init PROVE Promise!Init
    OBVIOUS
  <2>1. ASSUME NEW k \in JobId PROVE ~InSet(k) /\ ~InList(k)
    BY DEF Init, QueueInit, InSet, InList
  <2>2. ASSUME NEW k PROVE ~InLoop(k) /\ ~WithRequest(k)
    BY Zenon DEF Init, SchedInit, ApiInit, Between, NoRequest, InLoop, InPromotion, WithRequest, Submits
  <2>3. Waiting = {} /\ Holding = [w \in Worker |-> 0]
    BY <2>1, <2>2 DEF Init, WorkerInit, EnvInit, IdleWorker, Waiting, Holding
  <2> QED BY <2>3, Zenon DEF Promise!Init, Init, EnvInit
<1>2. TypeOK /\ SingleInv /\ SingleInv' /\ [Next]_vars => [Promise!Next]_(Promise!vars)
  <2> SUFFICES ASSUME TypeOK, SingleInv, SingleInv', [Next]_vars PROVE Promise!Next \/ UNCHANGED Promise!vars
    BY Zenon
  <2>1. CASE UNCHANGED vars
    <3>1. SameHold /\ UNCHANGED <<envVars, queueVars, promoting, request>>
      BY <2>1, Zenon DEF vars, schedVars, SameHold
    <3>2. OnlyMoves({})
      BY <3>1, Zenon DEF queueVars, OnlyMoves, OnWay, InSet, InList, InLoop, InPromotion, WithRequest
    <3> QED BY <3>1, <3>2, Stays, Zenon
  <2>2. CASE Next
    BY <2>2, WorkerDelivers, SchedDelivers, ApiDelivers, TimeDelivers, ZenonT(60) DEF Next
  <2> QED BY <2>1, <2>2, Zenon
<1> QED BY <1>1, <1>2, TypeCorrect, SingleInvariant, PTL DEF Spec, DeliveryKept, Promise!Spec
=============================================================================
