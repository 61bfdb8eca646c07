------------------------ MODULE SingleCustodyProofs ------------------------
(***************************************************************************)
(* SingleCustody holds for every instance of the pipeline.  Copies are     *)
(* told apart by their place: a job nobody pushed blindly is in one place, *)
(* once, and in none while it may still be submitted.  The same id in a    *)
(* batch and as the current one of its loop would become two by a push.    *)
(* AttemptLeft follows: a job without attempts left is in no place at all. *)
(***************************************************************************)
EXTENDS GoQueueProofs

----------------------------------------------------------------------------
Held(k) == \E w \in Worker : worker[w].id = k

ListOnce(k) ==
  \A q, r \in QueueName : \A m \in DOMAIN lists[q], n \in DOMAIN lists[r] :
    lists[q][m] = k /\ lists[r][n] = k => q = r /\ m = n

LoopOnce(k) ==
  /\ \A i, j \in Instance : k \in InPromotion(i) /\ k \in InPromotion(j) => i = j
  /\ \A i \in Instance : promoting[i].pc = "push" /\ promoting[i].id = k => k \notin promoting[i].batch

WorkerOnce(k) == \A v, w \in Worker : worker[v].id = k /\ worker[w].id = k => v = w

RequestOnce(k) ==
  \A c, d \in Client : Submits(request[c], k) /\ Submits(request[d], k) => c = d

OnePlace(k) ==
  /\ InSet(k) => ~InList(k) /\ ~InLoop(k) /\ ~Held(k) /\ ~WithRequest(k)
  /\ InList(k) => ~InLoop(k) /\ ~Held(k) /\ ~WithRequest(k)
  /\ InLoop(k) => ~Held(k) /\ ~WithRequest(k)
  /\ Held(k) => ~WithRequest(k)

Once(k) == ListOnce(k) /\ LoopOnce(k) /\ WorkerOnce(k) /\ RequestOnce(k) /\ OnePlace(k)

Free(k) == ~InSet(k) /\ ~InList(k) /\ ~InLoop(k) /\ ~Held(k) /\ ~WithRequest(k)

\* A job that has no row, or a dead one, may be submitted.
Blank(k) == Exists(k) => jobs[k].status = "dead"

Alone(k) == Once(k) /\ (Blank(k) => Free(k))

SingleInv == \A k \in JobId \ requeued : Alone(k)

\* A push adds one entry for its id, or none, and none for others.
LEMMA PushMoves ==
  ASSUME QueueTypeOK, NEW q \in QueueName, NEW id \in JobId, Push(q, id), NEW k
  PROVE  /\ scheduled' = scheduled
         /\ k # id => (InList(k)' => InList(k)) /\ (ListOnce(k) => ListOnce(k)')
         /\ k = id /\ ~InList(k) => ListOnce(k)'
<1>0. lists[q] \in Seq(JobId)
  BY DEF QueueTypeOK
<1>1. CASE lists' = lists
  BY <1>1 DEF Push, InList, ListOnce
<1>2. CASE lists' = [lists EXCEPT ![q] = Append(lists[q], id)]
  <2>1. lists'[q] = Append(lists[q], id) /\ \A r \in QueueName : r # q => lists'[r] = lists[r]
    BY <1>2 DEF QueueTypeOK
  <2>2. \A n \in DOMAIN lists'[q] : \/ n \in DOMAIN lists[q] /\ lists'[q][n] = lists[q][n]
                                    \/ n = Len(lists[q]) + 1 /\ lists'[q][n] = id
    BY <1>0, <2>1
  <2>3. ASSUME NEW r \in QueueName, NEW n \in DOMAIN lists'[r], lists'[r][n] = k
        PROVE  \/ n \in DOMAIN lists[r] /\ lists[r][n] = k
               \/ k = id /\ r = q /\ n = Len(lists[q]) + 1
    BY <2>1, <2>2, <2>3
  <2>4. k # id => (InList(k)' => InList(k))
    BY <2>3 DEF InList
  <2>5. ASSUME k # id, ListOnce(k) PROVE ListOnce(k)'
    BY <2>3, <2>5 DEF ListOnce
  <2>6. ASSUME k = id, ~InList(k) PROVE ListOnce(k)'
    BY <2>3, <2>6 DEF ListOnce, InList
  <2> QED BY <2>4, <2>5, <2>6 DEF Push
<1> QED BY <1>1, <1>2 DEF Push

\* A pop takes an entry away: the only one, if its id had only one.
LEMMA PopMoves ==
  ASSUME QueueTypeOK, NEW q \in QueueName, Pop(q), NEW k
  PROVE  /\ scheduled' = scheduled
         /\ InList(Head(lists[q]))
         /\ InList(k)' => InList(k)
         /\ ListOnce(k) => ListOnce(k)'
         /\ ListOnce(k) /\ k = Head(lists[q]) => ~InList(k)'
<1>0. lists[q] \in Seq(JobId) /\ lists[q] # <<>>
  BY DEF QueueTypeOK, Pop
<1>1. lists'[q] = Tail(lists[q]) /\ (\A r \in QueueName : r # q => lists'[r] = lists[r])
  BY DEF QueueTypeOK, Pop
<1>2. \A n \in DOMAIN lists'[q] : /\ n \in Nat \ {0} /\ n + 1 \in DOMAIN lists[q]
                                  /\ lists[q][n + 1] = lists'[q][n]
  BY <1>0, <1>1
<1>3. 1 \in DOMAIN lists[q] /\ Head(lists[q]) = lists[q][1]
  BY <1>0
<1>4. InList(k)' => InList(k)
  <2> HAVE InList(k)'
  <2>1. PICK r \in QueueName : \E n \in DOMAIN lists'[r] : lists'[r][n] = k
    BY DEF InList
  <2>2. PICK n \in DOMAIN lists'[r] : lists'[r][n] = k
    BY <2>1
  <2>3. CASE r = q
    BY <1>2, <2>2, <2>3, Zenon DEF InList
  <2>4. CASE r # q
    BY <1>1, <2>2, <2>4, Zenon DEF InList
  <2> QED BY <2>3, <2>4
<1>5. ASSUME ListOnce(k) PROVE ListOnce(k)'
  <2> SUFFICES ASSUME NEW r \in QueueName, NEW s \in QueueName,
                      NEW m \in DOMAIN lists'[r], NEW n \in DOMAIN lists'[s],
                      lists'[r][m] = k, lists'[s][n] = k
               PROVE  r = s /\ m = n
    BY DEF ListOnce
  <2>1. CASE r = q /\ s = q
    <3>1. m + 1 = n + 1
      BY <1>2, <1>5, <2>1 DEF ListOnce
    <3> QED BY <1>2, <2>1, <3>1
  <2>2. CASE r = q /\ s # q
    <3>1. /\ m + 1 \in DOMAIN lists[q] /\ lists[q][m + 1] = k
          /\ n \in DOMAIN lists[s] /\ lists[s][n] = k
      BY <1>1, <1>2, <2>2, Zenon
    <3> QED BY <1>5, <2>2, <3>1 DEF ListOnce
  <2>3. CASE r # q /\ s = q
    <3>1. /\ m \in DOMAIN lists[r] /\ lists[r][m] = k
          /\ n + 1 \in DOMAIN lists[q] /\ lists[q][n + 1] = k
      BY <1>1, <1>2, <2>3, Zenon
    <3> QED BY <1>5, <2>3, <3>1 DEF ListOnce
  <2>4. CASE r # q /\ s # q
    BY <1>1, <1>5, <2>4 DEF ListOnce
  <2> QED BY <2>1, <2>2, <2>3, <2>4, SMTT(30)
<1>6. ASSUME ListOnce(k), k = Head(lists[q]), InList(k)' PROVE FALSE
  <2>1. PICK r \in QueueName : \E n \in DOMAIN lists'[r] : lists'[r][n] = k
    BY <1>6 DEF InList
  <2>2. PICK n \in DOMAIN lists'[r] : lists'[r][n] = k
    BY <2>1
  <2>3. CASE r = q
    <3>1. n + 1 = 1
      BY <1>2, <1>3, <1>6, <2>2, <2>3, SMTT(30) DEF ListOnce
    <3> QED BY <1>2, <2>3, <3>1, SMTT(30)
  <2>4. CASE r # q
    BY <1>1, <1>3, <1>6, <2>2, <2>4 DEF ListOnce
  <2> QED BY <2>3, <2>4
<1>7. InList(Head(lists[q]))
  BY <1>3 DEF InList
<1> QED BY <1>4, <1>5, <1>6, <1>7 DEF Pop

\* A worker that takes a job over, or lets go of the one it has.
LEMMA WorkerMoves ==
  ASSUME WorkerTypeOK, NEW w \in Worker, NEW state, worker' = [worker EXCEPT ![w] = state], NEW k
  PROVE  /\ Held(k)' => Held(k) \/ state.id = k
         /\ WorkerOnce(k) /\ (state.id = k => worker[w].id = k \/ ~Held(k)) => WorkerOnce(k)'
         /\ WorkerOnce(k) /\ worker[w].id = k /\ state.id # k => ~Held(k)'
<1>1. worker'[w] = state /\ \A v \in Worker : v # w => worker'[v] = worker[v]
  BY DEF WorkerTypeOK
<1>2. Held(k)' => Held(k) \/ state.id = k
  BY <1>1 DEF Held
<1>3. WorkerOnce(k) /\ (state.id = k => worker[w].id = k \/ ~Held(k)) => WorkerOnce(k)'
  BY <1>1 DEF Held, WorkerOnce
<1>4. WorkerOnce(k) /\ worker[w].id = k /\ state.id # k => ~Held(k)'
  BY <1>1 DEF Held, WorkerOnce
<1> QED BY <1>2, <1>3, <1>4

\* The same for a request.
LEMMA RequestMoves ==
  ASSUME ApiTypeOK, NEW c \in Client, NEW state, Await(c, state), NEW k
  PROVE  /\ WithRequest(k)' => WithRequest(k) \/ Submits(state, k)
         /\ RequestOnce(k) /\ (Submits(state, k) => ~WithRequest(k)) => RequestOnce(k)'
         /\ RequestOnce(k) /\ Submits(request[c], k) /\ ~Submits(state, k) => ~WithRequest(k)'
<1>1. request'[c] = state /\ \A d \in Client : d # c => request'[d] = request[d]
  BY DEF ApiTypeOK, Await
<1>2. \A d \in Client : Submits(request[d], k)' <=> Submits(IF d = c THEN state ELSE request[d], k)
  BY <1>1 DEF Submits
<1>3. WithRequest(k)' => WithRequest(k) \/ Submits(state, k)
  BY <1>2 DEF WithRequest
<1>4. RequestOnce(k) /\ (Submits(state, k) => ~WithRequest(k)) => RequestOnce(k)'
  BY <1>2 DEF WithRequest, RequestOnce
<1>5. RequestOnce(k) /\ Submits(request[c], k) /\ ~Submits(state, k) => ~WithRequest(k)'
  BY <1>2 DEF WithRequest, RequestOnce
<1> QED BY <1>3, <1>4, <1>5

\* The same for the scheduled loop of an instance.
LEMMA LoopMoves ==
  ASSUME SchedTypeOK, NEW i \in Instance, NEW state,
         promoting' = [promoting EXCEPT ![i] = state], NEW k,
         state.pc = "push" /\ state.id = k => k \notin state.batch
  PROVE  /\ InLoop(k)' => InLoop(k) \/ k \in Holds(state)
         /\ LoopOnce(k) /\ (k \in Holds(state) => k \in InPromotion(i) \/ ~InLoop(k)) => LoopOnce(k)'
         /\ LoopOnce(k) /\ k \in InPromotion(i) /\ k \notin Holds(state) => ~InLoop(k)'
<1>1. promoting'[i] = state /\ \A j \in Instance : j # i => promoting'[j] = promoting[j]
  BY DEF SchedTypeOK
<1>2. InPromotion(i)' = Holds(state) /\ \A j \in Instance : j # i => InPromotion(j)' = InPromotion(j)
  BY <1>1 DEF InPromotion, Holds
<1>3. InLoop(k)' => InLoop(k) \/ k \in Holds(state)
  BY <1>2 DEF InLoop
<1>4. ASSUME LoopOnce(k), k \in Holds(state) => k \in InPromotion(i) \/ ~InLoop(k)
      PROVE  LoopOnce(k)'
  <2>1. \A j \in Instance : promoting'[j].pc = "push" /\ promoting'[j].id = k => k \notin promoting'[j].batch
    BY <1>1, <1>4, SMTT(30) DEF LoopOnce
  <2>2. \A j, l \in Instance : k \in InPromotion(j)' /\ k \in InPromotion(l)' => j = l
    BY <1>2, <1>4 DEF LoopOnce, InLoop
  <2> QED BY <2>1, <2>2, SMTT(30) DEF LoopOnce
<1>5. LoopOnce(k) /\ k \in InPromotion(i) /\ k \notin Holds(state) => ~InLoop(k)'
  BY <1>2 DEF LoopOnce, InLoop
<1> QED BY <1>3, <1>4, <1>5

\* A step that makes no copy of the job.
Fewer(k) ==
  /\ InSet(k)' => InSet(k)
  /\ (InList(k)' => InList(k)) /\ (ListOnce(k) => ListOnce(k)')
  /\ (InLoop(k)' => InLoop(k)) /\ (LoopOnce(k) => LoopOnce(k)')
  /\ (Held(k)' => Held(k)) /\ (WorkerOnce(k) => WorkerOnce(k)')
  /\ (WithRequest(k)' => WithRequest(k)) /\ (RequestOnce(k) => RequestOnce(k)')

\* What a step keeps: a job that is nowhere gets somewhere with a count of zero.
Kept(k) == Alone(k)' /\ (Free(k) => Free(k)' \/ jobs'[k].retryCount = 0)

\* A step without copies keeps Alone, unless it makes the job dead with a copy left.
LEMMA FewerAlone ==
  ASSUME NEW k, Alone(k), Fewer(k), Blank(k)' => Blank(k) \/ Free(k)'
  PROVE  Kept(k)
<1>1. Once(k)'
  BY DEF Alone, Once, OnePlace, Fewer
<1>2. Free(k) => Free(k)'
  BY DEF Free, Fewer
<1> QED BY <1>1, <1>2, SMTT(30) DEF Alone, Kept

\* A worker moves the copy from a list to itself, and from there to the sorted
\* set or to nowhere; a job it makes dead has no other copy.
LEMMA WorkerSingle ==
  ASSUME TypeOK, SingleInv, NEW w \in Worker, WorkerNext(w), NEW k \in JobId \ requeued'
  PROVE  Kept(k)
<1>0. StoreTypeOK /\ QueueTypeOK /\ WorkerTypeOK /\ worker[w] \in WorkerState
  BY Zenon DEF TypeOK, WorkerTypeOK
<1>1. /\ InLoop(k)' = InLoop(k) /\ LoopOnce(k)' = LoopOnce(k)
      /\ WithRequest(k)' = WithRequest(k) /\ RequestOnce(k)' = RequestOnce(k)
  BY ZenonT(60) DEF WorkerNext, schedVars, InLoop, InPromotion, LoopOnce, WithRequest, RequestOnce, Submits
<1>2. Alone(k)
  BY ZenonT(60) DEF SingleInv, WorkerNext, WorkerStep, WorkerFault, PopJob, FetchJob, RejectUnknownType,
         StartJob, CompleteJob, BuryJob, RetryLater, ScheduleRetry, AbandonJob, RetryUnrecorded,
         envVars, Fault
<1>3. k # 0
  BY DEF JobId
<1>4. CASE PopJob(w)
  <2>1. PICK q \in QueueName : Pop(q) /\ worker' = [worker EXCEPT ![w] = Popped(Head(lists[q]))]
    BY <1>4, Zenon DEF PopJob, Become
  <2> DEFINE state == Popped(Head(lists[q]))
  <2>2. /\ scheduled' = scheduled /\ InList(Head(lists[q])) /\ (InList(k)' => InList(k))
        /\ ListOnce(k) => ListOnce(k)'
        /\ ListOnce(k) /\ k = Head(lists[q]) => ~InList(k)'
    BY <1>0, <2>1, PopMoves, SMTT(30)
  <2>3. state.id = Head(lists[q])
    BY DEF Popped
  <2>4. /\ Held(k)' => Held(k) \/ state.id = k
        /\ WorkerOnce(k) /\ (state.id = k => worker[w].id = k \/ ~Held(k)) => WorkerOnce(k)'
    BY <1>0, <2>1, WorkerMoves, Zenon
  <2>5. Blank(k)' = Blank(k)
    BY <1>4 DEF PopJob, storeVars, Blank, Exists
  <2>6. InSet(k)' = InSet(k)
    BY <2>2 DEF InSet
  <2> HIDE DEF state
  <2>7. CASE k = Head(lists[q])
    <3>1. InList(k) /\ ~InList(k)' /\ ~Blank(k)
      BY <1>2, <2>2, <2>7, ZenonT(60) DEF Alone, Once, Free
    <3>2. Once(k)'
      BY <1>1, <1>2, <2>2, <2>4, <2>6, <3>1, ZenonT(60) DEF Alone, Once, OnePlace
    <3> QED BY <2>5, <3>1, <3>2, Zenon DEF Alone, Kept, Free
  <2>8. CASE k # Head(lists[q])
    <3>1. Fewer(k)
      BY <1>1, <2>2, <2>3, <2>4, <2>6, <2>8, Zenon DEF Fewer
    <3> QED BY <1>2, <2>5, <3>1, FewerAlone, SMTT(30)
  <2> QED BY <2>7, <2>8
<1>5. CASE ScheduleRetry(w)
  <2>1. /\ Schedule(worker[w].id, "future") /\ worker' = [worker EXCEPT ![w] = IdleWorker]
        /\ worker[w].pc = "reschedule" /\ UNCHANGED storeVars
    BY <1>5 DEF ScheduleRetry, Become
  <2>2. worker[w].id \in JobId /\ IdleWorker.id = 0
    BY <1>0, <2>1, SMTT(30) DEF WorkerState, IdleWorker
  <2>3. /\ InList(k)' = InList(k) /\ ListOnce(k)' = ListOnce(k)
        /\ k # worker[w].id => InSet(k)' = InSet(k)
    BY <1>0, <2>1 DEF Schedule, InList, ListOnce, InSet, QueueTypeOK
  <2>4. /\ Held(k)' => Held(k)
        /\ WorkerOnce(k) => WorkerOnce(k)'
        /\ WorkerOnce(k) /\ worker[w].id = k => ~Held(k)'
    BY <1>0, <1>3, <2>1, <2>2, WorkerMoves, Zenon
  <2>5. Blank(k)' = Blank(k)
    BY <2>1 DEF storeVars, Blank, Exists
  <2>6. CASE k = worker[w].id
    <3>1. Held(k) /\ ~Blank(k) /\ ~Held(k)'
      BY <1>2, <2>4, <2>6, ZenonT(60) DEF Held, Alone, Once, Free
    <3>2. Once(k)'
      BY <1>1, <1>2, <2>3, <2>4, <3>1 DEF Alone, Once, OnePlace
    <3> QED BY <2>5, <3>1, <3>2, ZenonT(60) DEF Alone, Kept, Free
  <2>7. CASE k # worker[w].id
    <3>1. Fewer(k)
      BY <1>1, <2>3, <2>4, <2>7 DEF Fewer
    <3> QED BY <1>2, <2>5, <3>1, FewerAlone, SMTT(30)
  <2> QED BY <2>6, <2>7
<1>6. CASE ~PopJob(w) /\ ~ScheduleRetry(w)
  <2>1. UNCHANGED <<lists, scheduled>>
    BY <1>6, ZenonT(60) DEF WorkerNext, WorkerStep, WorkerFault, FetchJob, RejectUnknownType, StartJob,
         CompleteJob, BuryJob, RetryLater, AbandonJob, RetryUnrecorded, queueVars
  <2>2. InSet(k)' = InSet(k) /\ InList(k)' = InList(k) /\ ListOnce(k)' = ListOnce(k)
    BY <2>1 DEF InSet, InList, ListOnce
  <2>3. PICK state : /\ worker' = [worker EXCEPT ![w] = state]
                     /\ state.id \in {0, worker[w].id}
                     /\ BuryJob(w) => state.id = 0
    <3>1. CASE StartJob(w) \/ RetryLater(w) \/ RetryUnrecorded(w)
      <4>1. PICK pc : worker' = [worker EXCEPT ![w].pc = pc] /\ worker[w].pc # "idle"
        BY <3>1 DEF StartJob, RetryLater, RetryUnrecorded, Goto
      <4> DEFINE state == [worker[w] EXCEPT !.pc = pc]
      <4>2. worker' = [worker EXCEPT ![w] = state]
        BY <1>0, <4>1 DEF WorkerTypeOK
      <4>3. state.id = worker[w].id
        BY <1>0, <4>1 DEF WorkerState, IdleWorker
      <4>4. BuryJob(w) => worker'[w] = IdleWorker
        BY <1>0 DEF BuryJob, Become, WorkerTypeOK
      <4>5. BuryJob(w) => state.id = 0
        BY <1>0, <4>2, <4>4 DEF WorkerTypeOK, IdleWorker
      <4> QED BY <4>2, <4>3, <4>5, Zenon
    <3>2. CASE FetchJob(w)
      BY <1>0, <3>2, Zenon DEF FetchJob, Become, IdleWorker, BuryJob
    <3>3. CASE RejectUnknownType(w) \/ CompleteJob(w) \/ BuryJob(w) \/ AbandonJob(w)
      <4>1. worker' = [worker EXCEPT ![w] = IdleWorker]
        BY <3>3 DEF RejectUnknownType, CompleteJob, BuryJob, AbandonJob, Become
      <4>2. IdleWorker.id = 0
        BY ZenonT(60) DEF IdleWorker
      <4> QED BY <4>1, <4>2, Zenon
    <3> QED BY <1>6, <3>1, <3>2, <3>3 DEF WorkerNext, WorkerStep, WorkerFault
  <2>4. /\ (Held(k)' => Held(k)) /\ (WorkerOnce(k) => WorkerOnce(k)')
        /\ WorkerOnce(k) /\ worker[w].id = k /\ state.id # k => ~Held(k)'
    <3>1. /\ Held(k)' => Held(k) \/ state.id = k
          /\ WorkerOnce(k) /\ (state.id = k => worker[w].id = k \/ ~Held(k)) => WorkerOnce(k)'
          /\ WorkerOnce(k) /\ worker[w].id = k /\ state.id # k => ~Held(k)'
      BY <1>0, <2>3, WorkerMoves, Zenon
    <3>2. state.id = k => worker[w].id = k /\ Held(k)
      BY <1>3, <2>3, Zenon DEF Held
    <3> QED BY <3>1, <3>2
  <2>5. Fewer(k)
    BY <1>1, <2>2, <2>4, Zenon DEF Fewer
  <2>6. Blank(k)' => Blank(k) \/ (BuryJob(w) /\ worker[w].id = k)
    <3>1. CASE RejectUnknownType(w) \/ BuryJob(w) \/ RetryLater(w)
      <4>1. PICK status, count : /\ UpdateJobError(worker[w].id, status, count)
                                 /\ status = "dead" => BuryJob(w)
        <5>1. CASE RejectUnknownType(w)
          BY <5>1 DEF RejectUnknownType
        <5>2. CASE BuryJob(w)
          BY <5>2, Zenon DEF BuryJob
        <5>3. CASE RetryLater(w)
          BY <5>3 DEF RetryLater
        <5> QED BY <3>1, <5>1, <5>2, <5>3, Zenon
      <4> QED BY <1>0, <4>1, UpdateJobErrorRows, SMTT(30) DEF Blank, Exists
    <3>2. CASE StartJob(w) \/ CompleteJob(w)
      <4>1. PICK status : UpdateJobStatus(worker[w].id, status) /\ status # "dead"
        BY <3>2 DEF StartJob, CompleteJob
      <4> QED BY <1>0, <4>1, UpdateJobStatusRows, SMTT(30) DEF Blank, Exists
    <3>3. CASE UNCHANGED storeVars
      BY <3>3 DEF storeVars, Blank, Exists
    <3> QED BY <1>6, <3>1, <3>2, <3>3, ZenonT(60) DEF WorkerNext, WorkerStep, WorkerFault, FetchJob,
             AbandonJob, RetryUnrecorded
  <2>7. ASSUME BuryJob(w), worker[w].id = k PROVE Free(k)'
    <3>1. Held(k) /\ ~Held(k)'
      BY <1>2, <1>3, <2>3, <2>4, <2>7, SMTT(30) DEF Held, Alone, Once
    <3> QED BY <1>1, <1>2, <2>2, <3>1, SMTT(30) DEF Alone, Once, OnePlace, Free
  <2> QED BY <1>2, <2>5, <2>6, <2>7, FewerAlone, SMTT(30)
<1> QED BY <1>4, <1>5, <1>6

\* A scheduled loop moves the copy from the sorted set to itself and on to a list;
\* what the recovery loop pushes is exempt.
LEMMA SchedSingle ==
  ASSUME TypeOK, SingleInv, NEW i \in Instance, SchedNext(i), NEW k \in JobId \ requeued'
  PROVE  Kept(k)
<1>0. StoreTypeOK /\ QueueTypeOK /\ SchedTypeOK /\ promoting[i] \in Promotion
  BY SMTT(30) DEF TypeOK, SchedTypeOK
<1>1. /\ Held(k)' = Held(k) /\ WorkerOnce(k)' = WorkerOnce(k)
      /\ WithRequest(k)' = WithRequest(k) /\ RequestOnce(k)' = RequestOnce(k)
  BY DEF SchedNext, Held, WorkerOnce, WithRequest, RequestOnce, Submits
<1>2. \/ Start(i) \/ Stop(i) \/ TakeDueJobs(i) \/ FetchDueJob(i) \/ PushDueJob(i)
      \/ MarkPending(i) \/ SkipDueJob(i) \/ FindUnqueued(i) \/ PushUnqueued(i)
      \/ SkipUnqueued(i) \/ FindStale(i) \/ FailStale(i) \/ SkipStale(i)
  BY SMTT(30) DEF SchedNext, SchedStep, SchedFault, runScheduledLoop, runRecoveryLoop, runStaleCheckLoop
<1>3. Alone(k)
  BY <1>2, Zenon DEF SingleInv, Start, Stop, TakeDueJobs, FetchDueJob, PushDueJob, MarkPending, SkipDueJob,
       FindUnqueued, PushUnqueued, SkipUnqueued, FindStale, FailStale, SkipStale, envVars, Fault, Requeue
<1>4. Blank(k)' => Blank(k)
  <2>1. CASE MarkPending(i)
    <3>1. PICK id : UpdateJobStatus(id, "pending")
      BY <2>1, Zenon DEF MarkPending
    <3>2. /\ DOMAIN jobs' = DOMAIN jobs /\ created' = created
          /\ \A j \in DOMAIN jobs :
               /\ jobs'[j].status = IF j = id THEN "pending" ELSE jobs[j].status
               /\ jobs'[j].retryCount = jobs[j].retryCount
               /\ jobs'[j].maxRetries = jobs[j].maxRetries
               /\ jobs'[j].runAt = jobs[j].runAt
      BY <1>0, <3>1, UpdateJobStatusRows, ZenonT(60)
    <3> QED BY <3>2, Zenon DEF Blank, Exists
  <2>2. CASE FailStale(i)
    <3>1. PICK job \in expiring[i] : UpdateJobError(job.id, "failed", job.retryCount)
      BY <2>2, Zenon DEF FailStale
    <3> QED BY <1>0, <3>1, UpdateJobErrorRows DEF Blank, Exists
  <2>3. CASE UNCHANGED storeVars
    BY <2>3 DEF storeVars, Blank, Exists
  <2> QED BY <1>2, <2>1, <2>2, <2>3, ZenonT(60) DEF Start, Stop, TakeDueJobs, FetchDueJob, PushDueJob,
           SkipDueJob, FindUnqueued, PushUnqueued, SkipUnqueued, FindStale, SkipStale
<1>5. ASSUME UNCHANGED queueVars
      PROVE  InSet(k)' = InSet(k) /\ InList(k)' = InList(k) /\ ListOnce(k)' = ListOnce(k)
  BY <1>5, SMTT(30) DEF queueVars, InSet, InList, ListOnce
<1>6. ASSUME promoting' = promoting
      PROVE  InLoop(k)' = InLoop(k) /\ LoopOnce(k)' = LoopOnce(k)
  BY <1>6 DEF InLoop, InPromotion, LoopOnce
<1>7. CASE TakeDueJobs(i)
  <2>1. /\ promoting[i] = Between({}) /\ promoting' = [promoting EXCEPT ![i] = Between(DueJobs)]
        /\ GetDueJobs
    BY <1>7 DEF TakeDueJobs, Promote
  <2>2. Between(DueJobs).pc = "next" /\ Holds(Between(DueJobs)) = DueJobs
    BY DEF Between, Holds
  <2>3. /\ InLoop(k)' => InLoop(k) \/ k \in DueJobs
        /\ LoopOnce(k) /\ (k \in DueJobs => k \in InPromotion(i) \/ ~InLoop(k)) => LoopOnce(k)'
    BY <1>0, <2>1, <2>2, LoopMoves, ZenonT(60)
  <2>4. /\ InList(k)' = InList(k) /\ ListOnce(k)' = ListOnce(k)
        /\ k \in DueJobs => InSet(k) /\ ~InSet(k)'
        /\ k \notin DueJobs => InSet(k)' = InSet(k)
    BY <2>1 DEF GetDueJobs, DueJobs, InList, ListOnce, InSet
  <2>5. CASE k \in DueJobs
    <3>1. Once(k)' /\ ~Blank(k)
      BY <1>1, <1>3, <2>3, <2>4, <2>5 DEF Alone, Once, OnePlace, Free
    <3> QED BY <1>4, <2>4, <2>5, <3>1, ZenonT(60) DEF Alone, Kept, Free
  <2>6. CASE k \notin DueJobs
    <3>1. Fewer(k)
      BY <1>1, <2>3, <2>4, <2>6, SMTT(30) DEF Fewer
    <3> QED BY <1>3, <1>4, <3>1, FewerAlone, Zenon
  <2> QED BY <2>5, <2>6
<1>8. CASE PushDueJob(i)
  <2> DEFINE id == promoting[i].id
  <2>1. /\ promoting[i].pc = "push" /\ Push(promoting[i].queue, id)
        /\ promoting[i].queue \in QueueName /\ id \in JobId
    BY <1>0, <1>8 DEF PushDueJob, Promotion, Between
  <2>2. PICK state : /\ promoting' = [promoting EXCEPT ![i] = state]
                     /\ state.pc # "push" /\ state.batch = promoting[i].batch
    <3>1. \/ promoting' = [promoting EXCEPT ![i] = [promoting[i] EXCEPT !.pc = "mark"]]
          \/ promoting' = [promoting EXCEPT ![i] = Between(promoting[i].batch)]
      BY <1>8, Zenon DEF PushDueJob, Promote
    <3>2. /\ [promoting[i] EXCEPT !.pc = "mark"].pc = "mark"
          /\ [promoting[i] EXCEPT !.pc = "mark"].batch = promoting[i].batch
      BY <1>0 DEF Promotion, Between
    <3>3. Between(promoting[i].batch).pc = "next" /\ Between(promoting[i].batch).batch = promoting[i].batch
      BY DEF Between
    <3> QED BY <3>1, <3>2, <3>3, Zenon
  <2>3. Holds(state) = promoting[i].batch /\ InPromotion(i) = promoting[i].batch \cup {id}
    BY <2>1, <2>2 DEF Holds, InPromotion
  <2>4. /\ InLoop(k)' => InLoop(k) \/ k \in Holds(state)
        /\ LoopOnce(k) /\ (k \in Holds(state) => k \in InPromotion(i) \/ ~InLoop(k)) => LoopOnce(k)'
        /\ LoopOnce(k) /\ k \in InPromotion(i) /\ k \notin Holds(state) => ~InLoop(k)'
    BY <1>0, <2>2, LoopMoves, Zenon
  <2>5. /\ scheduled' = scheduled
        /\ k # id => (InList(k)' => InList(k)) /\ (ListOnce(k) => ListOnce(k)')
        /\ k = id /\ ~InList(k) => ListOnce(k)'
    BY <1>0, <2>1, PushMoves, Zenon
  <2>6. InSet(k)' = InSet(k)
    BY <2>5, Zenon DEF InSet
  <2>7. CASE k = id
    <3>1. k \in InPromotion(i) /\ InLoop(k)
      BY <2>3, <2>7, Zenon DEF InLoop
    <3>2. k \notin Holds(state)
      BY <1>3, <2>1, <2>3, <2>7, Zenon DEF Alone, Once, LoopOnce
    <3>3. Once(k)' /\ ~Blank(k)
      BY <1>1, <1>3, <2>4, <2>5, <2>6, <2>7, <3>1, <3>2, Zenon DEF Alone, Once, OnePlace, Free
    <3> QED BY <1>4, <3>1, <3>3, Zenon DEF Alone, Kept, Free
  <2>8. CASE k # id
    <3>1. k \in Holds(state) => k \in InPromotion(i) /\ InLoop(k)
      BY <2>3, Zenon DEF InLoop
    <3>2. Fewer(k)
      BY <1>1, <2>4, <2>5, <2>6, <2>8, <3>1, ZenonT(60) DEF Fewer
    <3> QED BY <1>3, <1>4, <3>2, FewerAlone
  <2> QED BY <2>7, <2>8, SMTT(30)
<1>9. CASE PushUnqueued(i)
  <2>1. PICK job \in recovering[i] : /\ Push(job.queue, job.id) /\ Requeue({job.id})
                                     /\ promoting' = promoting
    BY <1>9, Zenon DEF PushUnqueued, RecoverNext
  <2>2. job.queue \in QueueName /\ job.id \in JobId /\ k # job.id
    BY <1>0, <2>1 DEF SchedTypeOK, Requeue
  <2>3. scheduled' = scheduled /\ (InList(k)' => InList(k)) /\ (ListOnce(k) => ListOnce(k)')
    BY <1>0, <2>1, <2>2, PushMoves, Zenon
  <2>4. Fewer(k)
    BY <1>1, <1>6, <2>1, <2>3, ZenonT(60) DEF Fewer, InSet
  <2> QED BY <1>3, <1>4, <2>4, FewerAlone, SMTT(30)
<1>10. CASE FetchDueJob(i) \/ MarkPending(i) \/ SkipDueJob(i) \/ Stop(i)
  <2>1. UNCHANGED queueVars
    BY <1>10, Zenon DEF FetchDueJob, MarkPending, SkipDueJob, Stop
  <2>2. PICK state : /\ promoting' = [promoting EXCEPT ![i] = state]
                     /\ Holds(state) \subseteq InPromotion(i)
                     /\ state.pc = "push" => state.id \notin state.batch
    <3>1. CASE FetchDueJob(i)
      <4>1. PICK id \in promoting[i].batch :
              Promote(i, IF Exists(id)
                    THEN [batch |-> promoting[i].batch \ {id}, pc |-> "push", id |-> id,
                          queue |-> jobs[id].queue, status |-> jobs[id].status]
                    ELSE Between(promoting[i].batch \ {id}))
        BY <3>1, Zenon DEF FetchDueJob
      <4> DEFINE rest == promoting[i].batch \ {id}
                 current == [batch |-> rest, pc |-> "push", id |-> id,
                             queue |-> jobs[id].queue, status |-> jobs[id].status]
      <4>2. /\ Holds(current) \subseteq InPromotion(i)
            /\ current.pc = "push" => current.id \notin current.batch
        BY ZenonT(60) DEF Holds, InPromotion
      <4>3. /\ Holds(Between(rest)) \subseteq InPromotion(i)
            /\ Between(rest).pc # "push"
        BY Zenon DEF Between, Holds, InPromotion
      <4>4. \/ promoting' = [promoting EXCEPT ![i] = current]
            \/ promoting' = [promoting EXCEPT ![i] = Between(rest)]
        BY <4>1, Zenon DEF Promote
      <4> HIDE DEF current, rest
      <4> QED BY <4>2, <4>3, <4>4
    <3>2. CASE MarkPending(i) \/ SkipDueJob(i) \/ Stop(i)
      <4>1. PICK batch \in SUBSET promoting[i].batch : promoting' = [promoting EXCEPT ![i] = Between(batch)]
        BY <3>2, Zenon DEF MarkPending, SkipDueJob, Stop, Promote
      <4>2. /\ Between(batch).pc = "next" /\ Holds(Between(batch)) = batch
        BY DEF Between, Holds
      <4> QED BY <4>1, <4>2, Zenon DEF InPromotion
    <3> QED BY <1>10, <3>1, <3>2, Zenon
  <2>3. /\ InLoop(k)' => InLoop(k) \/ k \in Holds(state)
        /\ LoopOnce(k) /\ (k \in Holds(state) => k \in InPromotion(i) \/ ~InLoop(k)) => LoopOnce(k)'
    BY <1>0, <2>2, LoopMoves, Zenon
  <2>4. k \in Holds(state) => k \in InPromotion(i) /\ InLoop(k)
    BY <2>2, Zenon DEF InLoop
  <2>5. Fewer(k)
    BY <1>1, <1>5, <2>1, <2>3, <2>4, Zenon DEF Fewer
  <2> QED BY <1>3, <1>4, <2>5, FewerAlone
<1>11. CASE Start(i) \/ FindUnqueued(i) \/ SkipUnqueued(i) \/ FindStale(i) \/ FailStale(i) \/ SkipStale(i)
  <2>1. UNCHANGED queueVars /\ promoting' = promoting
    BY <1>11, Zenon DEF Start, FindUnqueued, SkipUnqueued, FindStale, FailStale, SkipStale, RecoverNext
  <2>2. Fewer(k)
    BY <1>1, <1>5, <1>6, <2>1, Zenon DEF Fewer
  <2> QED BY <1>3, <1>4, <2>2, FewerAlone
<1> QED BY <1>2, <1>7, <1>8, <1>9, <1>10, <1>11, Zenon

\* A request moves a new job, or a dead one, to itself and on to a list or to the
\* sorted set; a job that RetryJob finds no longer dead is exempt.
LEMMA ApiSingle ==
  ASSUME TypeOK, SingleInv, NEW c \in Client, ApiNext(c), NEW k \in JobId \ requeued'
  PROVE  Kept(k)
<1>0. StoreTypeOK /\ QueueTypeOK /\ ApiTypeOK /\ request[c] \in RequestState
  BY Zenon DEF TypeOK, ApiTypeOK
<1>1. /\ InLoop(k)' = InLoop(k) /\ LoopOnce(k)' = LoopOnce(k)
      /\ Held(k)' = Held(k) /\ WorkerOnce(k)' = WorkerOnce(k)
  BY ZenonT(60) DEF ApiNext, schedVars, InLoop, InPromotion, LoopOnce, Held, WorkerOnce
<1>2. Alone(k)
  BY Zenon DEF SingleInv, ApiNext, NewRequest, RequestStep, CreateJob, CheckCancel, CheckRetry, DeleteJob,
         EnqueueCreated, CancelJob, RetryJob, PushRetried, RequestFails, envVars, Fault, Requeue
<1>3. ASSUME UNCHANGED queueVars
      PROVE  InSet(k)' = InSet(k) /\ InList(k)' = InList(k) /\ ListOnce(k)' = ListOnce(k)
  BY <1>3 DEF queueVars, InSet, InList, ListOnce
<1>4. ~Submits(NoRequest, k)
  BY DEF Submits, NoRequest
<1>5. ASSUME UNCHANGED queueVars, Blank(k)' => Blank(k),
             NEW state, Await(c, state), ~Submits(state, k)
      PROVE  Kept(k)
  <2>1. /\ WithRequest(k)' => WithRequest(k) \/ Submits(state, k)
        /\ RequestOnce(k) /\ (Submits(state, k) => ~WithRequest(k)) => RequestOnce(k)'
    BY <1>0, <1>5, RequestMoves, Zenon
  <2>2. Fewer(k)
    BY <1>1, <1>3, <1>5, <2>1 DEF Fewer
  <2> QED BY <1>2, <1>5, <2>2, FewerAlone, Zenon
<1>6. ASSUME NEW state, Await(c, state), UNCHANGED queueVars, Submits(state, k), Blank(k), ~Blank(k)',
             jobs'[k].retryCount = 0
      PROVE  Kept(k)
  <2>1. Free(k)
    BY <1>2, <1>6, Zenon DEF Alone
  <2>2. RequestOnce(k)'
    <3>1. RequestOnce(k) /\ (Submits(state, k) => ~WithRequest(k)) => RequestOnce(k)'
      BY <1>0, <1>6, RequestMoves, Zenon
    <3> QED BY <1>2, <2>1, <3>1, Zenon DEF Alone, Once, Free
  <2>3. Once(k)'
    BY <1>1, <1>2, <1>3, <1>6, <2>1, <2>2, Zenon DEF Alone, Once, OnePlace, Free
  <2> QED BY <1>6, <2>3, ZenonT(60) DEF Alone, Kept
<1>7. ASSUME NEW req \in Request, CreateJob(c, req) PROVE Kept(k)
  <2> DEFINE new == created + 1
             state == [pc |-> "enqueue", id |-> new, queue |-> req.queue, deferred |-> req.runAt # "null"]
  <2>1. Await(c, state) /\ UNCHANGED queueVars /\ created' = new
    BY <1>7, Zenon DEF CreateJob, InsertRow
  <2>2. /\ DOMAIN jobs' = DOMAIN jobs \cup {new} /\ jobs'[new].status # "dead" /\ jobs'[new].retryCount = 0
        /\ \A id \in DOMAIN jobs : id # new => jobs'[id] = jobs[id]
    BY <1>7, Zenon DEF CreateJob, InsertRow
  <2>3. created + 1 \notin DOMAIN jobs
    BY <1>0, StoreAssumption DEF StoreTypeOK
  <2>4. (Submits(state, k) <=> k = new) /\ new \notin DOMAIN jobs
    BY <1>0, <2>3, Zenon DEF Submits
  <2> HIDE DEF new, state
  <2>5. CASE k = new
    <3>1. Blank(k) /\ ~Blank(k)'
      BY <2>2, <2>4, <2>5, Zenon DEF Blank, Exists
    <3> QED BY <1>6, <2>1, <2>2, <2>4, <2>5, <3>1, Zenon
  <2>6. CASE k # new
    <3>1. Blank(k)' => Blank(k)
      BY <2>2, <2>6, Zenon DEF Blank, Exists
    <3> QED BY <1>5, <2>1, <2>4, <2>6, <3>1, Zenon
  <2> QED BY <2>5, <2>6, ZenonT(60)
<1>8. ASSUME EnqueueCreated(c) \/ PushRetried(c) PROVE Kept(k)
  <2> DEFINE id == request[c].id
  <2>1. /\ Await(c, NoRequest) /\ UNCHANGED storeVars /\ request[c].pc \in {"enqueue", "push"}
        /\ \/ \E score \in {"future", "due"} : Schedule(id, score)
           \/ Push(request[c].queue, id)
    BY <1>8, Zenon DEF EnqueueCreated, PushRetried
  <2>2. id \in JobId /\ request[c].queue \in QueueName
    BY <1>0, <2>1, Submitting, Zenon
  <2>3. Blank(k)' = Blank(k)
    BY <2>1, ZenonT(60) DEF storeVars, Blank, Exists
  <2>4. /\ WithRequest(k)' => WithRequest(k)
        /\ RequestOnce(k) => RequestOnce(k)'
        /\ RequestOnce(k) /\ Submits(request[c], k) => ~WithRequest(k)'
    BY <1>0, <1>4, <2>1, RequestMoves, Zenon
  <2>5. Submits(request[c], k) <=> k = id
    BY <2>1, Zenon DEF Submits
  <2>6. /\ k # id => /\ (InSet(k)' => InSet(k)) /\ (InList(k)' => InList(k))
                     /\ ListOnce(k) => ListOnce(k)'
        /\ k = id /\ ~InList(k) /\ ~InSet(k) /\ ListOnce(k) =>
             ListOnce(k)' /\ (InSet(k)' => ~InList(k)')
    <3>1. CASE \E score \in {"future", "due"} : Schedule(id, score)
      BY <1>0, <3>1, ZenonT(60) DEF Schedule, InSet, InList, ListOnce, QueueTypeOK
    <3>2. CASE Push(request[c].queue, id)
      <4>1. /\ scheduled' = scheduled
            /\ k # id => (InList(k)' => InList(k)) /\ (ListOnce(k) => ListOnce(k)')
            /\ k = id /\ ~InList(k) => ListOnce(k)'
        BY <1>0, <2>2, <3>2, PushMoves, ZenonT(30)
      <4>2. InSet(k)' = InSet(k)
        BY <4>1, Zenon DEF InSet
      <4> QED BY <4>1, <4>2, Zenon
    <3> QED BY <2>1, <3>1, <3>2, ZenonT(60)
  <2>7. CASE k = id
    <3>1. WithRequest(k)
      BY <2>5, <2>7, Zenon DEF WithRequest
    <3>2. Once(k)' /\ ~Blank(k)
      BY <1>1, <1>2, <2>4, <2>5, <2>6, <2>7, <3>1, Zenon DEF Alone, Once, OnePlace, Free
    <3> QED BY <2>3, <3>1, <3>2, Zenon DEF Alone, Kept, Free
  <2>8. CASE k # id
    <3>1. Fewer(k)
      BY <1>1, <2>4, <2>6, <2>8, Zenon DEF Fewer
    <3> QED BY <1>2, <2>3, <3>1, FewerAlone
  <2> QED BY <2>7, <2>8
<1>9. ASSUME RetryJob(c) PROVE Kept(k)
  <2> DEFINE id == request[c].id
             state == [request[c] EXCEPT !.pc = "push"]
  <2>1. /\ Await(c, state) /\ UNCHANGED queueVars /\ UpdateJobError(id, "pending", 0)
        /\ request[c].pc = "retry"
        /\ IF Exists(id) /\ jobs[id].status = "dead" THEN TRUE ELSE Requeue({id})
    BY <1>9 DEF RetryJob
  <2>2. state.id = id /\ state.pc = "push"
    BY <1>0, <2>1, SMTT(30) DEF RequestState, NoRequest
  <2> HIDE DEF id, state
  <2>3. /\ DOMAIN jobs' = DOMAIN jobs
        /\ \A j \in DOMAIN jobs \ {id} : jobs'[j].status = jobs[j].status
        /\ id \in DOMAIN jobs => jobs'[id].status = "pending" /\ jobs'[id].retryCount = 0
    <3>1. /\ DOMAIN jobs' = DOMAIN jobs /\ created' = created
          /\ \A j \in DOMAIN jobs :
               /\ jobs'[j].status = IF j = id THEN "pending" ELSE jobs[j].status
               /\ jobs'[j].retryCount = IF j = id THEN 0 ELSE jobs[j].retryCount
               /\ jobs'[j].maxRetries = jobs[j].maxRetries
               /\ jobs'[j].runAt = jobs[j].runAt
      BY <1>0, <2>1, UpdateJobErrorRows, ZenonT(60)
    <3> QED BY <3>1, Zenon
  <2>4. CASE k = id
    <3>1. Exists(k) /\ jobs[k].status = "dead"
      BY <2>1, <2>4, Zenon DEF Requeue
    <3>2. Blank(k) /\ ~Blank(k)' /\ jobs'[k].retryCount = 0
      BY <2>3, <2>4, <3>1, Zenon DEF Blank, Exists
    <3>3. Submits(state, k)
      BY <2>2, <2>4, Zenon DEF Submits
    <3> QED BY <1>6, <2>1, <3>2, <3>3, Zenon
  <2>5. CASE k # id
    <3>1. Blank(k)' => Blank(k)
      BY <2>3, <2>5, Zenon DEF Blank, Exists
    <3>2. ~Submits(state, k)
      BY <2>2, <2>5, Zenon DEF Submits
    <3> QED BY <1>5, <2>1, <3>1, <3>2, Zenon
  <2> QED BY <2>4, <2>5
<1>10. ASSUME NEW id \in JobId, CheckCancel(c, id) \/ CheckRetry(c, id) PROVE Kept(k)
  <2> DEFINE cancel == [pc |-> "cancel", id |-> id, queue |-> "none", deferred |-> FALSE]
             retry == [pc |-> "retry", id |-> id, queue |-> jobs[id].queue, deferred |-> FALSE]
  <2>1. UNCHANGED <<storeVars, queueVars>> /\ (Await(c, cancel) \/ Await(c, retry))
    BY <1>10, Zenon DEF CheckCancel, CheckRetry
  <2>2. ~Submits(cancel, k) /\ ~Submits(retry, k)
    BY Zenon DEF Submits
  <2> HIDE DEF cancel, retry
  <2>3. Blank(k)' => Blank(k)
    BY <2>1, Zenon DEF storeVars, Blank, Exists
  <2> QED BY <1>5, <2>1, <2>2, <2>3, Zenon
<1>11. ASSUME CancelJob(c) \/ RequestFails(c) PROVE Kept(k)
  <2>1. Await(c, NoRequest) /\ UNCHANGED queueVars
    BY <1>11, ZenonT(60) DEF CancelJob, RequestFails
  <2>2. Blank(k)' => Blank(k)
    <3>1. CASE CancelJob(c)
      <4>1. PICK id : UpdateJobStatus(id, "cancelled")
        BY <3>1, Zenon DEF CancelJob
      <4>2. /\ DOMAIN jobs' = DOMAIN jobs /\ created' = created
            /\ \A j \in DOMAIN jobs :
                 /\ jobs'[j].status = IF j = id THEN "cancelled" ELSE jobs[j].status
                 /\ jobs'[j].retryCount = jobs[j].retryCount
                 /\ jobs'[j].maxRetries = jobs[j].maxRetries
                 /\ jobs'[j].runAt = jobs[j].runAt
        BY <1>0, <4>1, UpdateJobStatusRows, ZenonT(60)
      <4> QED BY <4>2, Zenon DEF Blank, Exists
    <3>2. CASE RequestFails(c)
      BY <3>2, Zenon DEF RequestFails, storeVars, Blank, Exists
    <3> QED BY <1>11, <3>1, <3>2, Zenon
  <2> QED BY <1>4, <1>5, <2>1, <2>2, ZenonT(60)
<1>12. ASSUME NEW id \in JobId, DeleteJob(c, id) PROVE Kept(k)
  <2>1. /\ request' = request /\ UNCHANGED queueVars /\ jobs[id].status = "dead"
        /\ jobs' = [j \in DOMAIN jobs \ {id} |-> jobs[j]]
    BY <1>12, Zenon DEF DeleteJob, DeleteRow
  <2>2. Blank(k)' => Blank(k)
    BY <2>1 DEF Blank, Exists
  <2>3. WithRequest(k)' = WithRequest(k) /\ RequestOnce(k)' = RequestOnce(k)
    BY <2>1, ZenonT(60) DEF WithRequest, RequestOnce, Submits
  <2>4. Fewer(k)
    BY <1>1, <1>3, <2>1, <2>3, Zenon DEF Fewer
  <2> QED BY <1>2, <2>2, <2>4, FewerAlone, Zenon
<1> QED BY <1>7, <1>8, <1>9, <1>10, <1>11, <1>12, Zenon DEF ApiNext, NewRequest, RequestStep

\* Time neither copies an id nor makes a row dead.
LEMMA TimeSingle ==
  ASSUME TypeOK, SingleInv, NEW id \in JobId, TimeNext(id), NEW k \in JobId \ requeued'
  PROVE  Kept(k)
<1>0. StoreTypeOK /\ QueueTypeOK
  BY ZenonT(60) DEF TypeOK
<1>1. /\ InLoop(k)' = InLoop(k) /\ LoopOnce(k)' = LoopOnce(k)
      /\ Held(k)' = Held(k) /\ WorkerOnce(k)' = WorkerOnce(k)
      /\ WithRequest(k)' = WithRequest(k) /\ RequestOnce(k)' = RequestOnce(k)
  BY Zenon DEF TimeNext, schedVars, InLoop, InPromotion, LoopOnce, Held, WorkerOnce,
         WithRequest, RequestOnce, Submits
<1>2. lists' = lists /\ (InSet(k)' => InSet(k)) /\ requeued' = requeued
  BY <1>0 DEF TimeNext, TimePasses, RunAtArrives, BackoffElapses, queueVars, envVars, QueueTypeOK, InSet
<1>3. /\ created' = created /\ DOMAIN jobs' = DOMAIN jobs
      /\ \A j \in DOMAIN jobs : jobs'[j].status = jobs[j].status
  BY <1>0, SMTT(30) DEF TimeNext, TimePasses, CreatedAtAges, StartedAtAges, RunAtArrives, BackoffElapses,
              storeVars, StoreTypeOK, Row
<1>4. Fewer(k)
  BY <1>1, <1>2, SMTT(30) DEF Fewer, InList, ListOnce
<1>5. Alone(k) /\ (Blank(k)' => Blank(k))
  BY <1>2, <1>3, Zenon DEF SingleInv, Blank, Exists
<1> QED BY <1>4, <1>5, FewerAlone

\* Where a copy can be, and that two of them are in different places.
LEMMA OnceCounts ==
  ASSUME NEW k \in JobId, Once(k)
  PROVE  Cardinality(Copy(k)) <= 1
<1>1. ASSUME NEW x \in Copy(k)
      PROVE  \/ InSet(k) /\ x = <<"set", scheduled[k]>>
             \/ \E q \in QueueName : \E n \in DOMAIN lists[q] : lists[q][n] = k /\ x = <<"list", q, n>>
             \/ \E i \in Instance : k \in InPromotion(i) /\ x = <<"loop", i>>
             \/ \E w \in Worker : worker[w].id = k /\ x = <<"worker", w>>
             \/ \E c \in Client : Submits(request[c], k) /\ x = <<"client", c>>
  <2>1. CASE x \in ListCopy(k)
    <3>1. PICK q \in QueueName : x \in {<<"list", q, n>> : n \in {m \in DOMAIN lists[q] : lists[q][m] = k}}
      BY <2>1, ZenonT(60) DEF ListCopy
    <3> QED BY <3>1, Zenon
  <2>2. CASE x \notin ListCopy(k)
    BY <1>1, <2>2, Zenon DEF Copy, InSet
  <2> QED BY <2>1, <2>2, Zenon
<1>2. ASSUME NEW x \in Copy(k), NEW y \in Copy(k) PROVE x = y
  <2>1. CASE InSet(k)
    BY <1>1, <2>1, Zenon DEF Once, OnePlace, InList, InLoop, Held, WithRequest
  <2>2. CASE InList(k)
    <3>1. ~InSet(k) /\ ~InLoop(k) /\ ~Held(k) /\ ~WithRequest(k) /\ ListOnce(k)
      BY <2>2 DEF Once, OnePlace
    <3>2. ASSUME NEW z \in Copy(k)
          PROVE  \E q \in QueueName : \E n \in DOMAIN lists[q] : lists[q][n] = k /\ z = <<"list", q, n>>
      BY <1>1, <3>1, Zenon DEF InLoop, Held, WithRequest
    <3>3. PICK q \in QueueName : \E n \in DOMAIN lists[q] : lists[q][n] = k /\ x = <<"list", q, n>>
      BY <3>2
    <3>4. PICK r \in QueueName : \E n \in DOMAIN lists[r] : lists[r][n] = k /\ y = <<"list", r, n>>
      BY <3>2, SMTT(30)
    <3> QED BY <3>1, <3>3, <3>4, Zenon DEF ListOnce
  <2>3. CASE InLoop(k)
    BY <1>1, <2>3, Zenon DEF Once, OnePlace, LoopOnce, InList, Held, WithRequest
  <2>4. CASE Held(k)
    BY <1>1, <2>4, Zenon DEF Once, OnePlace, WorkerOnce, InList, InLoop, WithRequest
  <2>5. CASE ~InSet(k) /\ ~InList(k) /\ ~InLoop(k) /\ ~Held(k)
    BY <1>1, <2>5, Zenon DEF Once, RequestOnce, InList, InLoop, Held
  <2> QED BY <2>1, <2>2, <2>3, <2>4, <2>5, SMTT(30)
<1>3. Copy(k) = {} \/ \E x : Copy(k) = {x}
  BY <1>2
<1>4. CASE Copy(k) = {}
  <2>1. Cardinality(Copy(k)) = 0
    BY <1>4, NoElement
  <2> QED BY <2>1
<1>5. CASE \E x : Copy(k) = {x}
  <2>1. Cardinality(Copy(k)) = 1
    BY <1>5, OneElement, Zenon
  <2> QED BY <2>1
<1> QED BY <1>3, <1>4, <1>5, Zenon

\* Every step keeps the places of every job apart.
LEMMA SingleInvariant == Spec => []SingleInv
<1>1. Init => SingleInv
  <2> SUFFICES ASSUME Init, NEW k \in JobId PROVE Alone(k)
    BY DEF SingleInv
  <2>1. ~InSet(k) /\ ~InList(k) /\ ListOnce(k)
    BY DEF Init, QueueInit, InSet, InList, ListOnce
  <2>2. ~InLoop(k) /\ LoopOnce(k)
    BY Zenon DEF Init, SchedInit, Between, InLoop, InPromotion, LoopOnce
  <2>3. ~Held(k) /\ WorkerOnce(k)
    BY DEF Init, WorkerInit, IdleWorker, Held, WorkerOnce, JobId
  <2>4. ~WithRequest(k) /\ RequestOnce(k)
    BY DEF Init, ApiInit, NoRequest, WithRequest, RequestOnce, Submits
  <2> QED BY <2>1, <2>2, <2>3, <2>4, Zenon DEF Alone, Once, OnePlace, Free
<1>2. TypeOK /\ SingleInv /\ [Next]_vars => SingleInv'
  <2> SUFFICES ASSUME TypeOK, SingleInv, [Next]_vars
               PROVE  SingleInv'
    BY Zenon
  <2>1. CASE UNCHANGED vars
    <3> SUFFICES ASSUME NEW k \in JobId \ requeued' PROVE Alone(k)'
      BY Zenon DEF SingleInv
    <3>1. UNCHANGED <<jobs, created, lists, scheduled, worker, promoting, request, requeued>>
      BY <2>1, Zenon DEF vars, storeVars, queueVars, envVars, schedVars
    <3>2. Alone(k) /\ (Blank(k)' => Blank(k))
      BY <3>1, ZenonT(60) DEF SingleInv, Blank, Exists
    <3>3. /\ InSet(k)' => InSet(k)
          /\ (InList(k)' => InList(k)) /\ (ListOnce(k) => ListOnce(k)')
      BY <3>1 DEF InSet, InList, ListOnce
    <3>4. /\ (InLoop(k)' => InLoop(k)) /\ (LoopOnce(k) => LoopOnce(k)')
          /\ (Held(k)' => Held(k)) /\ (WorkerOnce(k) => WorkerOnce(k)')
          /\ (WithRequest(k)' => WithRequest(k)) /\ (RequestOnce(k) => RequestOnce(k)')
      BY <3>1, Zenon DEF InLoop, InPromotion, LoopOnce, Held, WorkerOnce, WithRequest, RequestOnce
    <3> QED BY <3>2, <3>3, <3>4, FewerAlone, Zenon DEF Fewer, Kept
  <2>2. ASSUME Next, NEW k \in JobId \ requeued' PROVE Alone(k)'
    BY <2>2, WorkerSingle, SchedSingle, ApiSingle, TimeSingle, Zenon DEF Next, Kept
  <2> QED BY <2>1, <2>2 DEF SingleInv
<1> QED BY <1>1, <1>2, TypeCorrect, PTL DEF Spec

\* Single custody: however many schedulers are active at once and whatever faults
\* happen, a job that was not pushed blindly has one copy under way at most, so
\* no two workers execute it.
THEOREM SingleCustodyHolds == Spec => []SingleCustody
<1>1. SingleInv => SingleCustody
  BY OnceCounts DEF SingleInv, Alone, SingleCustody
<1> QED BY <1>1, SingleInvariant, PTL

----------------------------------------------------------------------------
(* AttemptLeft.  A row without attempts belongs to a job that is nowhere,   *)
(* and what the stale check wants to write back leaves an attempt: both    *)
(* are needed, since its snapshot may be older than the row.               *)

Spent(k) == ~HasAttempt(jobs[k].maxRetries, jobs[k].retryCount)

RowRests(k) == Spent(k) => Free(k) /\ jobs[k].status # "running"

WorkerHas(w) ==
  worker[w].pc \in {"nohandler", "fetched", "executing", "reschedule"} /\ worker[w].id \notin requeued =>
    HasAttempt(worker[w].maxRetries, worker[w].retryCount)

ExpiryHas(i) ==
  \A job \in expiring[i] :
    /\ job.id <= created
    /\ Exists(job.id) /\ job.id \notin requeued => HasAttempt(jobs[job.id].maxRetries, job.retryCount)

AttemptInv ==
  /\ \A w \in Worker : WorkerHas(w)
  /\ \A k \in DOMAIN jobs \ requeued : RowRests(k)
  /\ \A i \in Instance : ExpiryHas(i)

\* A count of zero leaves an attempt, and so does one below max_retries.
LEMMA AttemptCounts ==
  ASSUME NEW maxRetries \in Int
  PROVE  /\ HasAttempt(maxRetries, 0)
         /\ \A n \in Nat \ {0} : n < maxRetries => HasAttempt(maxRetries, n)
BY DEF HasAttempt

\* The row that a step leaves behind is dead, has an attempt, or is as it was.
RowLeft(k) ==
  \/ jobs'[k].status = "dead"
  \/ HasAttempt(jobs'[k].maxRetries, jobs'[k].retryCount)
  \/ /\ k \in DOMAIN jobs
     /\ jobs'[k].maxRetries = jobs[k].maxRetries /\ jobs'[k].retryCount = jobs[k].retryCount
     /\ jobs'[k].status = "running" => jobs[k].status = "running"

TableLeft ==
  /\ DOMAIN jobs' = DOMAIN jobs /\ created' = created
  /\ \A k \in DOMAIN jobs : jobs'[k].maxRetries = jobs[k].maxRetries
  /\ \A k \in DOMAIN jobs \ requeued : RowLeft(k)

\* Each of the three keeps a row without attempts at rest.
LEMMA RowKeeps ==
  ASSUME AttemptInv, SingleInv', StoreTypeOK', NEW k \in DOMAIN jobs' \ requeued',
         k \in JobId, k \notin requeued, Kept(k), RowLeft(k)
  PROVE  RowRests(k)'
<1> SUFFICES ASSUME Spent(k)' PROVE Free(k)' /\ jobs'[k].status # "running"
  BY Zenon DEF RowRests
<1>1. jobs'[k].maxRetries \in Int
  BY DEF StoreTypeOK, Row
<1>2. jobs'[k].retryCount # 0
  BY <1>1, AttemptCounts, Zenon DEF Spent
<1>3. CASE jobs'[k].status = "dead"
  <2>1. Blank(k)'
    BY <1>3, Zenon DEF Blank
  <2> QED BY <1>3, <2>1, Zenon DEF SingleInv, Alone
<1>4. CASE /\ k \in DOMAIN jobs
           /\ jobs'[k].maxRetries = jobs[k].maxRetries /\ jobs'[k].retryCount = jobs[k].retryCount
           /\ jobs'[k].status = "running" => jobs[k].status = "running"
  <2>1. Spent(k)
    BY <1>4, Zenon DEF Spent
  <2>2. Free(k) /\ jobs[k].status # "running"
    BY <1>4, <2>1, Zenon DEF AttemptInv, RowRests
  <2> QED BY <1>2, <1>4, <2>2, Zenon DEF Kept
<1> QED BY <1>3, <1>4, Zenon DEF RowLeft, Spent

\* A worker whose new snapshot has an attempt left.
LEMMA WorkerKeeps ==
  ASSUME WorkerTypeOK, AttemptInv, requeued' = requeued, NEW w \in Worker, NEW state,
         worker' = [worker EXCEPT ![w] = state],
         state.pc \in {"nohandler", "fetched", "executing", "reschedule"} /\ state.id \notin requeued =>
           HasAttempt(state.maxRetries, state.retryCount)
  PROVE  \A v \in Worker : WorkerHas(v)'
<1>1. worker'[w] = state /\ \A v \in Worker : v # w => worker'[v] = worker[v]
  BY DEF WorkerTypeOK
<1>2. WorkerHas(w)'
  BY <1>1 DEF WorkerHas, HasAttempt
<1>3. ASSUME NEW v \in Worker, v # w PROVE WorkerHas(v)'
  <2>1. WorkerHas(v) /\ worker'[v] = worker[v]
    BY <1>1, <1>3, Zenon DEF AttemptInv
  <2> QED BY <2>1 DEF WorkerHas, HasAttempt
<1> QED BY <1>2, <1>3, Zenon

\* A step that finds no stale row and changes no max_retries.
LEMMA ExpiryKeeps ==
  ASSUME StoreTypeOK, AttemptInv, requeued \subseteq requeued',
         created' \in Nat, created <= created', \A i \in Instance : expiring'[i] \subseteq expiring[i],
         \A i \in Instance : \A job \in expiring[i] : job.id \in Nat,
         \A k \in DOMAIN jobs' : k <= created => k \in DOMAIN jobs /\ jobs'[k].maxRetries = jobs[k].maxRetries
  PROVE  \A i \in Instance : ExpiryHas(i)'
<1> SUFFICES ASSUME NEW i \in Instance, NEW job \in expiring'[i]
             PROVE  /\ job.id <= created'
                    /\ job.id \in DOMAIN jobs' /\ job.id \notin requeued' =>
                         HasAttempt(jobs'[job.id].maxRetries, job.retryCount)
  BY Zenon DEF ExpiryHas, Exists
<1>1. /\ job.id <= created /\ job.id \in Nat
      /\ job.id \in DOMAIN jobs /\ job.id \notin requeued => HasAttempt(jobs[job.id].maxRetries, job.retryCount)
  BY Zenon DEF AttemptInv, ExpiryHas, Exists
<1>2. job.id <= created'
  BY <1>1 DEF StoreTypeOK
<1> QED BY <1>1, <1>2, Zenon

\* A worker calls the handler with the count it has fetched for a job it holds.
LEMMA WorkerAttempt ==
  ASSUME TypeOK, TypeOK', BudgetInv, SingleInv, SingleInv', AttemptInv, NEW w \in Worker, WorkerNext(w)
  PROVE  AttemptInv'
<1>0. /\ StoreTypeOK /\ StoreTypeOK' /\ WorkerTypeOK /\ worker[w] \in WorkerState
      /\ \A i \in Instance : \A job \in expiring[i] : job.id \in Nat
  BY DEF TypeOK, WorkerTypeOK, SchedTypeOK, JobId
<1>1. \/ PopJob(w) \/ FetchJob(w) \/ RejectUnknownType(w) \/ StartJob(w) \/ CompleteJob(w)
      \/ BuryJob(w) \/ RetryLater(w) \/ ScheduleRetry(w) \/ AbandonJob(w) \/ RetryUnrecorded(w)
  BY Zenon DEF WorkerNext, WorkerStep, WorkerFault
<1>2. requeued' = requeued /\ expiring' = expiring
  BY <1>1, Zenon DEF WorkerNext, schedVars, PopJob, FetchJob, RejectUnknownType, StartJob, CompleteJob,
       BuryJob, RetryLater, ScheduleRetry, AbandonJob, RetryUnrecorded, envVars, Fault
<1>3. DOMAIN jobs \subseteq JobId /\ created \in Nat /\ created <= created
  BY <1>0, StoreAssumption DEF StoreTypeOK, JobId
<1>4. ASSUME TableLeft, NEW state, worker' = [worker EXCEPT ![w] = state],
             state.pc \in {"nohandler", "fetched", "executing", "reschedule"} /\ state.id \notin requeued =>
               HasAttempt(state.maxRetries, state.retryCount)
      PROVE  AttemptInv'
  <2>1. \A v \in Worker : WorkerHas(v)'
    BY <1>0, <1>2, <1>4, WorkerKeeps, ZenonT(60)
  <2>2. \A i \in Instance : ExpiryHas(i)'
    <3>1. created <= created' /\ created' \in Nat
      BY <1>3, <1>4, Zenon DEF TableLeft
    <3> QED BY <1>0, <1>2, <1>4, <3>1, ExpiryKeeps, Zenon DEF TableLeft
  <2>3. ASSUME NEW k \in DOMAIN jobs' \ requeued' PROVE RowRests(k)'
    <3>1. Kept(k)
      BY <1>3, <1>4, <2>3, WorkerSingle, Zenon DEF TableLeft
    <3> QED BY <1>0, <1>2, <1>3, <1>4, <2>3, <3>1, RowKeeps, Zenon DEF TableLeft
  <2> QED BY <2>1, <2>2, <2>3, Zenon DEF AttemptInv
<1>5. ASSUME UNCHANGED storeVars
      PROVE  TableLeft
  BY <1>5, ZenonT(60) DEF storeVars, RowLeft, TableLeft
<1>6. ASSUME NEW status, UpdateJobStatus(worker[w].id, status),
             status = "running" /\ Exists(worker[w].id) /\ worker[w].id \notin requeued =>
               HasAttempt(jobs[worker[w].id].maxRetries, jobs[worker[w].id].retryCount)
      PROVE  TableLeft
  <2>1. /\ DOMAIN jobs' = DOMAIN jobs /\ created' = created
        /\ \A k \in DOMAIN jobs :
             /\ jobs'[k].status = IF k = worker[w].id THEN status ELSE jobs[k].status
             /\ jobs'[k].retryCount = jobs[k].retryCount
             /\ jobs'[k].maxRetries = jobs[k].maxRetries
             /\ jobs'[k].runAt = jobs[k].runAt
    BY <1>0, <1>6, UpdateJobStatusRows, ZenonT(60)
  <2> QED BY <1>6, <2>1, Zenon DEF RowLeft, TableLeft, Exists
<1>7. ASSUME NEW status, NEW count, UpdateJobError(worker[w].id, status, count), status # "running",
             status # "dead" /\ Exists(worker[w].id) /\ worker[w].id \notin requeued =>
               HasAttempt(jobs[worker[w].id].maxRetries, count)
      PROVE  TableLeft
  <2>1. /\ DOMAIN jobs' = DOMAIN jobs /\ created' = created
        /\ \A k \in DOMAIN jobs :
             /\ jobs'[k].status = IF k = worker[w].id THEN status ELSE jobs[k].status
             /\ jobs'[k].retryCount = IF k = worker[w].id THEN count ELSE jobs[k].retryCount
             /\ jobs'[k].maxRetries = jobs[k].maxRetries
             /\ jobs'[k].runAt = jobs[k].runAt
    BY <1>0, <1>7, UpdateJobErrorRows, ZenonT(60)
  <2> QED BY <1>7, <2>1, ZenonT(60) DEF RowLeft, TableLeft, Exists
<1>8. ASSUME worker[w].pc # "idle", Exists(worker[w].id), worker[w].id \notin requeued
      PROVE  HasAttempt(jobs[worker[w].id].maxRetries, jobs[worker[w].id].retryCount)
  BY <1>8, Zenon DEF AttemptInv, RowRests, Spent, Free, Held, Exists
<1>9. ASSUME worker[w].pc \in {"nohandler", "fetched", "executing", "reschedule"},
             worker[w].id \notin requeued
      PROVE  /\ HasAttempt(worker[w].maxRetries, worker[w].retryCount)
             /\ Exists(worker[w].id) => jobs[worker[w].id].maxRetries = worker[w].maxRetries
  BY <1>9, Zenon DEF AttemptInv, WorkerHas, BudgetInv, SnapshotAgrees
<1>10. IdleWorker.pc = "idle"
  BY DEF IdleWorker
<1>11. ASSUME NEW pc, Goto(w, pc), worker[w].pc \in {"fetched", "executing"}
       PROVE  \E state : /\ worker' = [worker EXCEPT ![w] = state]
                         /\ state.id \notin requeued => HasAttempt(state.maxRetries, state.retryCount)
  <2> DEFINE state == [worker[w] EXCEPT !.pc = pc]
  <2>1. worker' = [worker EXCEPT ![w] = state]
    BY <1>0, <1>11 DEF Goto, WorkerTypeOK
  <2>2. /\ state.id = worker[w].id /\ state.maxRetries = worker[w].maxRetries
        /\ state.retryCount = worker[w].retryCount
    BY <1>0, <1>11 DEF WorkerState, IdleWorker
  <2> HIDE DEF state
  <2> QED BY <1>9, <1>11, <2>1, <2>2, Zenon
<1>12. CASE PopJob(w) \/ ScheduleRetry(w) \/ AbandonJob(w)
  <2>1. UNCHANGED storeVars /\ \E state : worker' = [worker EXCEPT ![w] = state] /\ state.pc \in {"idle", "popped"}
    BY <1>10, <1>12, Zenon DEF PopJob, ScheduleRetry, AbandonJob, Become, Popped
  <2> QED BY <1>4, <1>5, <2>1, Zenon
<1>13. CASE FetchJob(w)
  <2> DEFINE id == worker[w].id
             state == IF Exists(id)
                        THEN [pc |-> IF jobs[id].type \in Registered THEN "fetched" ELSE "nohandler",
                              id |-> id,
                              maxRetries |-> jobs[id].maxRetries,
                              retryCount |-> jobs[id].retryCount]
                        ELSE IdleWorker
  <2>1. worker' = [worker EXCEPT ![w] = state] /\ UNCHANGED storeVars /\ worker[w].pc = "popped"
    BY <1>13, Zenon DEF FetchJob, Become
  <2>2. state.pc # "idle" => /\ Exists(id) /\ state.id = id
                             /\ state.maxRetries = jobs[id].maxRetries /\ state.retryCount = jobs[id].retryCount
    BY <1>10, Zenon
  <2> HIDE DEF state
  <2>3. state.pc # "idle" /\ state.id \notin requeued => HasAttempt(state.maxRetries, state.retryCount)
    BY <1>8, <2>1, <2>2, Zenon
  <2> QED BY <1>4, <1>5, <2>1, <2>3, Zenon
<1>14. CASE RejectUnknownType(w)
  <2>1. /\ UpdateJobError(worker[w].id, "failed", worker[w].retryCount) /\ worker[w].pc = "nohandler"
        /\ worker' = [worker EXCEPT ![w] = IdleWorker]
    BY <1>14, Zenon DEF RejectUnknownType, Become
  <2>2. Exists(worker[w].id) /\ worker[w].id \notin requeued =>
          HasAttempt(jobs[worker[w].id].maxRetries, worker[w].retryCount)
    BY <1>9, <2>1, Zenon
  <2>3. TableLeft
    BY <1>7, <2>1, <2>2, Zenon
  <2> QED BY <1>4, <1>10, <2>1, <2>3, Zenon
<1>15. CASE StartJob(w)
  <2>1. UpdateJobStatus(worker[w].id, "running") /\ Goto(w, "executing") /\ worker[w].pc = "fetched"
    BY <1>15, Zenon DEF StartJob
  <2>2. TableLeft
    BY <1>6, <1>8, <2>1, Zenon
  <2> QED BY <1>4, <1>11, <2>1, <2>2, Zenon
<1>16. CASE CompleteJob(w)
  <2>1. UpdateJobStatus(worker[w].id, "completed") /\ worker' = [worker EXCEPT ![w] = IdleWorker]
    BY <1>16, Zenon DEF CompleteJob, Become
  <2>2. TableLeft
    BY <1>6, <2>1, Zenon
  <2> QED BY <1>4, <1>10, <2>1, <2>2, Zenon
<1>17. CASE BuryJob(w)
  <2>1. UpdateJobError(worker[w].id, "dead", newRetryCount(w)) /\ worker' = [worker EXCEPT ![w] = IdleWorker]
    BY <1>17, Zenon DEF BuryJob, Become
  <2>2. TableLeft
    BY <1>7, <2>1, Zenon
  <2> QED BY <1>4, <1>10, <2>1, <2>2, Zenon
<1>18. CASE RetryLater(w)
  <2>1. /\ UpdateJobError(worker[w].id, "retrying", newRetryCount(w)) /\ Goto(w, "reschedule")
        /\ worker[w].pc = "executing" /\ newRetryCount(w) < worker[w].maxRetries
    BY <1>18, ZenonT(60) DEF RetryLater
  <2>2. newRetryCount(w) \in Nat \ {0} /\ worker[w].maxRetries \in Int
    BY <1>0, StoreAssumption DEF newRetryCount, WorkerState, IdleWorker
  <2>3. Exists(worker[w].id) /\ worker[w].id \notin requeued =>
          HasAttempt(jobs[worker[w].id].maxRetries, newRetryCount(w))
    BY <1>9, <2>1, <2>2, AttemptCounts, Zenon
  <2>4. TableLeft
    BY <1>7, <2>1, <2>3, Zenon
  <2> QED BY <1>4, <1>11, <2>1, <2>4, Zenon
<1>19. CASE RetryUnrecorded(w)
  <2>1. UNCHANGED storeVars /\ Goto(w, "reschedule") /\ worker[w].pc = "executing"
    BY <1>19, Zenon DEF RetryUnrecorded
  <2> QED BY <1>4, <1>5, <1>11, <2>1, Zenon
<1> QED BY <1>1, <1>12, <1>13, <1>14, <1>15, <1>16, <1>17, <1>18, <1>19, ZenonT(60)

\* The stale check writes back a count that a running row had; the other loops
\* leave the counts alone.
LEMMA SchedAttempt ==
  ASSUME TypeOK, TypeOK', SingleInv, SingleInv', AttemptInv, NEW i \in Instance, SchedNext(i)
  PROVE  AttemptInv'
<1>0. /\ StoreTypeOK /\ StoreTypeOK' /\ SchedTypeOK
      /\ \A j \in Instance : \A job \in expiring[j] : job.id \in Nat
  BY DEF TypeOK, SchedTypeOK, JobId
<1>1. \/ Start(i) \/ Stop(i) \/ TakeDueJobs(i) \/ FetchDueJob(i) \/ PushDueJob(i)
      \/ MarkPending(i) \/ SkipDueJob(i) \/ FindUnqueued(i) \/ PushUnqueued(i)
      \/ SkipUnqueued(i) \/ FindStale(i) \/ FailStale(i) \/ SkipStale(i)
  BY SMTT(30) DEF SchedNext, SchedStep, SchedFault, runScheduledLoop, runRecoveryLoop, runStaleCheckLoop
<1>2. requeued \subseteq requeued' /\ worker' = worker
  BY <1>1, Zenon DEF SchedNext, Start, Stop, TakeDueJobs, FetchDueJob, PushDueJob, MarkPending, SkipDueJob,
       FindUnqueued, PushUnqueued, SkipUnqueued, FindStale, FailStale, SkipStale, envVars, Fault, Requeue
<1>3. DOMAIN jobs \subseteq JobId /\ created \in Nat /\ created <= created
  BY <1>0, StoreAssumption DEF StoreTypeOK, JobId
<1>4. \A w \in Worker : WorkerHas(w)'
  BY <1>2, Zenon DEF AttemptInv, WorkerHas
<1>5. ASSUME TableLeft, NEW k \in DOMAIN jobs' \ requeued'
      PROVE  RowRests(k)'
  <2>1. k \in JobId /\ k \notin requeued /\ k \in DOMAIN jobs
    BY <1>2, <1>3, <1>5, Zenon DEF TableLeft
  <2>2. Kept(k)
    BY <1>5, <2>1, SchedSingle, Zenon
  <2> QED BY <1>0, <1>5, <2>1, <2>2, RowKeeps, Zenon DEF TableLeft
<1>6. ASSUME TableLeft, \A j \in Instance : expiring'[j] \subseteq expiring[j]
      PROVE  AttemptInv'
  <2>1. created <= created' /\ created' \in Nat
    BY <1>3, <1>6, Zenon DEF TableLeft
  <2>2. \A j \in Instance : ExpiryHas(j)'
    BY <1>0, <1>2, <1>6, <2>1, ExpiryKeeps, Zenon DEF TableLeft
  <2> QED BY <1>4, <1>5, <1>6, <2>2, Zenon DEF AttemptInv
<1>7. ASSUME UNCHANGED storeVars
      PROVE  TableLeft
  BY <1>7, Zenon DEF storeVars, RowLeft, TableLeft
<1>8. CASE MarkPending(i)
  <2>1. UpdateJobStatus(promoting[i].id, "pending") /\ expiring' = expiring
    BY <1>8, Zenon DEF MarkPending, Promote
  <2>2. /\ DOMAIN jobs' = DOMAIN jobs /\ created' = created
        /\ \A k \in DOMAIN jobs :
             /\ jobs'[k].status = IF k = promoting[i].id THEN "pending" ELSE jobs[k].status
             /\ jobs'[k].retryCount = jobs[k].retryCount
             /\ jobs'[k].maxRetries = jobs[k].maxRetries
             /\ jobs'[k].runAt = jobs[k].runAt
    BY <1>0, <2>1, UpdateJobStatusRows, ZenonT(60)
  <2>3. TableLeft
    BY <2>2, Zenon DEF RowLeft, TableLeft
  <2> QED BY <1>6, <2>1, <2>3, Zenon
<1>9. CASE FailStale(i)
  <2>1. PICK job \in expiring[i] : /\ UpdateJobError(job.id, "failed", job.retryCount)
                                   /\ expiring' = [expiring EXCEPT ![i] = @ \ {job}]
    BY <1>9, ZenonT(60) DEF FailStale
  <2>2. /\ DOMAIN jobs' = DOMAIN jobs /\ created' = created
        /\ \A k \in DOMAIN jobs :
             /\ jobs'[k].status = IF k = job.id THEN "failed" ELSE jobs[k].status
             /\ jobs'[k].retryCount = IF k = job.id THEN job.retryCount ELSE jobs[k].retryCount
             /\ jobs'[k].maxRetries = jobs[k].maxRetries
             /\ jobs'[k].runAt = jobs[k].runAt
    BY <1>0, <2>1, UpdateJobErrorRows, ZenonT(60)
  <2>3. job.id \in DOMAIN jobs \ requeued => HasAttempt(jobs[job.id].maxRetries, job.retryCount)
    BY <2>1, Zenon DEF AttemptInv, ExpiryHas, Exists
  <2>4. ASSUME NEW k \in DOMAIN jobs \ requeued PROVE RowLeft(k)
    <3>1. CASE k = job.id
      BY <2>2, <2>3, <2>4, <3>1, Zenon DEF RowLeft
    <3>2. CASE k # job.id
      BY <2>2, <2>4, <3>2, Zenon DEF RowLeft
    <3> QED BY <3>1, <3>2, SMTT(30)
  <2>5. \A j \in Instance : expiring'[j] \subseteq expiring[j]
    BY <1>0, <2>1 DEF SchedTypeOK
  <2> QED BY <1>6, <2>2, <2>4, <2>5, Zenon DEF TableLeft
<1>10. CASE FindStale(i)
  <2>1. PICK ids \in GetStaleRunningJobs :
          expiring' = [expiring EXCEPT ![i] = {[id |-> id, retryCount |-> jobs[id].retryCount] : id \in ids}]
    BY <1>10, Zenon DEF FindStale
  <2>2. UNCHANGED storeVars /\ requeued' = requeued
    BY <1>10, Zenon DEF FindStale, envVars
  <2>3. \A id \in ids : id \in DOMAIN jobs /\ jobs[id].status = "running"
    BY <2>1, Zenon DEF GetStaleRunningJobs, StaleRunning
  <2>4. \A id \in ids : id <= created
    BY <1>0, <2>3, SMTT(30) DEF StoreTypeOK
  <2>5. ASSUME NEW job \in expiring'[i]
        PROVE  job.id \in ids /\ job.retryCount = jobs[job.id].retryCount
    BY <1>0, <2>1, <2>5 DEF SchedTypeOK
  <2>6. ASSUME NEW id \in ids, id \notin requeued PROVE HasAttempt(jobs[id].maxRetries, jobs[id].retryCount)
    BY <2>3, <2>6, Zenon DEF AttemptInv, RowRests, Spent
  <2>7. ExpiryHas(i)'
    BY <2>2, <2>4, <2>5, <2>6, Zenon DEF ExpiryHas, Exists, storeVars
  <2>8. ASSUME NEW j \in Instance, j # i PROVE ExpiryHas(j)'
    <3>1. ExpiryHas(j) /\ expiring'[j] = expiring[j]
      BY <1>0, <2>1, <2>8, Zenon DEF AttemptInv, SchedTypeOK
    <3> QED BY <2>2, <3>1, ZenonT(60) DEF ExpiryHas, Exists, storeVars
  <2> QED BY <1>4, <1>5, <1>7, <2>2, <2>7, <2>8, Zenon DEF AttemptInv
<1>11. CASE Stop(i) \/ SkipStale(i)
  <2>1. UNCHANGED storeVars /\ \E rest \in SUBSET expiring[i] : expiring' = [expiring EXCEPT ![i] = rest]
    BY <1>11, Zenon DEF Stop, SkipStale
  <2>2. \A j \in Instance : expiring'[j] \subseteq expiring[j]
    BY <1>0, <2>1 DEF SchedTypeOK
  <2> QED BY <1>6, <1>7, <2>1, <2>2, Zenon
<1>12. CASE \/ Start(i) \/ TakeDueJobs(i) \/ FetchDueJob(i) \/ PushDueJob(i) \/ SkipDueJob(i)
            \/ FindUnqueued(i) \/ PushUnqueued(i) \/ SkipUnqueued(i)
  <2>1. UNCHANGED storeVars /\ expiring' = expiring
    BY <1>12, Zenon DEF Start, TakeDueJobs, FetchDueJob, PushDueJob, SkipDueJob, FindUnqueued,
         PushUnqueued, SkipUnqueued, RecoverNext, Promote
  <2> QED BY <1>6, <1>7, <2>1, Zenon
<1> QED BY <1>1, <1>8, <1>9, <1>10, <1>11, <1>12, ZenonT(60)

\* A request inserts or resets a row with a count of zero.
LEMMA ApiAttempt ==
  ASSUME TypeOK, TypeOK', SingleInv, SingleInv', AttemptInv, NEW c \in Client, ApiNext(c)
  PROVE  AttemptInv'
<1>0. /\ StoreTypeOK /\ StoreTypeOK'
      /\ \A i \in Instance : \A job \in expiring[i] : job.id \in Nat
  BY DEF TypeOK, SchedTypeOK, JobId
<1>1. requeued \subseteq requeued' /\ worker' = worker /\ expiring' = expiring
  BY Zenon DEF ApiNext, schedVars, NewRequest, RequestStep, CreateJob, CheckCancel, CheckRetry, DeleteJob,
         EnqueueCreated, CancelJob, RetryJob, PushRetried, RequestFails, envVars, Fault, Requeue
<1>2. \A w \in Worker : WorkerHas(w)'
  BY <1>1, Zenon DEF AttemptInv, WorkerHas
<1>3. created \in Nat /\ created' \in Nat /\ DOMAIN jobs' \subseteq JobId
  BY <1>0, StoreAssumption DEF StoreTypeOK, JobId
<1>4. ASSUME created <= created', \A k \in DOMAIN jobs' : RowLeft(k),
             \A k \in DOMAIN jobs' : k <= created => k \in DOMAIN jobs /\ jobs'[k].maxRetries = jobs[k].maxRetries
      PROVE  AttemptInv'
  <2>1. \A i \in Instance : ExpiryHas(i)'
    BY <1>0, <1>1, <1>3, <1>4, ExpiryKeeps, Zenon
  <2>2. ASSUME NEW k \in DOMAIN jobs' \ requeued' PROVE RowRests(k)'
    <3>1. k \in JobId /\ k \notin requeued
      BY <1>1, <1>3, <2>2, Zenon
    <3>2. Kept(k)
      BY <2>2, <3>1, ApiSingle, Zenon
    <3> QED BY <1>0, <1>4, <2>2, <3>1, <3>2, RowKeeps, Zenon
  <2> QED BY <1>2, <2>1, <2>2, Zenon DEF AttemptInv
<1>5. created <= created
  BY <1>3
<1>6. ASSUME NEW req \in Request, CreateJob(c, req) PROVE AttemptInv'
  <2> DEFINE new == created + 1
  <2>1. /\ DOMAIN jobs' = DOMAIN jobs \cup {new} /\ jobs'[new].retryCount = 0 /\ created' = new
        /\ \A k \in DOMAIN jobs : k # new => jobs'[k] = jobs[k]
    BY <1>6, Zenon DEF CreateJob, InsertRow
  <2>2. jobs'[new].maxRetries \in Int
    BY <1>0, <2>1 DEF StoreTypeOK, Row
  <2>3. created <= created' /\ ~(new <= created)
    BY <1>3, <2>1
  <2> HIDE DEF new
  <2>4. RowLeft(new)
    BY <2>1, <2>2, AttemptCounts, Zenon DEF RowLeft
  <2>5. \A k \in DOMAIN jobs' \ {new} : RowLeft(k) /\ k \in DOMAIN jobs /\ jobs'[k].maxRetries = jobs[k].maxRetries
    BY <2>1, Zenon DEF RowLeft
  <2> QED BY <1>4, <2>3, <2>4, <2>5, Zenon
<1>7. CASE RetryJob(c)
  <2>1. UpdateJobError(request[c].id, "pending", 0)
    BY <1>7, Zenon DEF RetryJob
  <2>2. PICK id : UpdateJobError(id, "pending", 0)
    BY <2>1, Zenon
  <2>3. /\ DOMAIN jobs' = DOMAIN jobs /\ created' = created
        /\ \A k \in DOMAIN jobs :
             /\ jobs'[k].status = IF k = id THEN "pending" ELSE jobs[k].status
             /\ jobs'[k].retryCount = IF k = id THEN 0 ELSE jobs[k].retryCount
             /\ jobs'[k].maxRetries = jobs[k].maxRetries
             /\ jobs'[k].runAt = jobs[k].runAt
    BY <1>0, <2>2, UpdateJobErrorRows, ZenonT(60)
  <2>4. ASSUME NEW k \in DOMAIN jobs PROVE RowLeft(k)
    <3>1. CASE k = id
      <4>1. jobs'[k].retryCount = 0 /\ jobs'[k].maxRetries \in Int
        BY <1>0, <2>3, <2>4, <3>1, ZenonT(60) DEF StoreTypeOK, Row
      <4> QED BY <4>1, AttemptCounts, Zenon DEF RowLeft
    <3>2. CASE k # id
      BY <2>3, <2>4, <3>2, Zenon DEF RowLeft
    <3> QED BY <3>1, <3>2
  <2> QED BY <1>4, <1>5, <2>3, <2>4, Zenon
<1>8. CASE CancelJob(c)
  <2>1. UpdateJobStatus(request[c].id, "cancelled")
    BY <1>8, Zenon DEF CancelJob
  <2>2. /\ DOMAIN jobs' = DOMAIN jobs /\ created' = created
        /\ \A k \in DOMAIN jobs :
             /\ jobs'[k].status = IF k = request[c].id THEN "cancelled" ELSE jobs[k].status
             /\ jobs'[k].retryCount = jobs[k].retryCount
             /\ jobs'[k].maxRetries = jobs[k].maxRetries
             /\ jobs'[k].runAt = jobs[k].runAt
    BY <1>0, <2>1, UpdateJobStatusRows, ZenonT(60)
  <2>3. \A k \in DOMAIN jobs : RowLeft(k)
    BY <2>2, Zenon DEF RowLeft
  <2> QED BY <1>4, <1>5, <2>2, <2>3, Zenon
<1>9. ASSUME NEW id \in JobId, DeleteJob(c, id) PROVE AttemptInv'
  <2>1. /\ DOMAIN jobs' \subseteq DOMAIN jobs /\ created' = created
        /\ \A k \in DOMAIN jobs' : jobs'[k] = jobs[k]
    BY <1>9, Zenon DEF DeleteJob, DeleteRow
  <2>2. \A k \in DOMAIN jobs' : RowLeft(k)
    BY <2>1, Zenon DEF RowLeft
  <2> QED BY <1>4, <1>5, <2>1, <2>2, Zenon
<1>10. CASE UNCHANGED storeVars
  <2>1. \A k \in DOMAIN jobs : RowLeft(k)
    BY <1>10, Zenon DEF storeVars, RowLeft
  <2> QED BY <1>4, <1>5, <1>10, <2>1, Zenon DEF storeVars
<1> QED BY <1>6, <1>7, <1>8, <1>9, <1>10, Zenon
        DEF ApiNext, NewRequest, RequestStep, EnqueueCreated, CheckCancel, CheckRetry,
            PushRetried, RequestFails

\* Time touches none of the columns involved.
LEMMA TimeAttempt ==
  ASSUME TypeOK, TypeOK', SingleInv, SingleInv', AttemptInv, NEW id \in JobId, TimeNext(id)
  PROVE  AttemptInv'
<1>0. /\ StoreTypeOK /\ StoreTypeOK'
      /\ \A i \in Instance : \A job \in expiring[i] : job.id \in Nat
  BY DEF TypeOK, SchedTypeOK, JobId
<1>1. requeued' = requeued /\ worker' = worker /\ expiring' = expiring
  BY Zenon DEF TimeNext, TimePasses, schedVars, envVars, RunAtArrives, BackoffElapses
<1>2. \A w \in Worker : WorkerHas(w)'
  BY <1>1, Zenon DEF AttemptInv, WorkerHas
<1>3. created \in Nat /\ created <= created /\ DOMAIN jobs \subseteq JobId
  BY <1>0, StoreAssumption DEF StoreTypeOK, JobId
<1>4. /\ DOMAIN jobs' = DOMAIN jobs /\ created' = created
      /\ \A k \in DOMAIN jobs : /\ jobs'[k].status = jobs[k].status
                                /\ jobs'[k].retryCount = jobs[k].retryCount
                                /\ jobs'[k].maxRetries = jobs[k].maxRetries
  BY <1>0, SMTT(30) DEF TimeNext, TimePasses, CreatedAtAges, StartedAtAges, RunAtArrives, BackoffElapses,
              Exists, storeVars, StoreTypeOK, Row
<1>5. \A i \in Instance : ExpiryHas(i)'
  BY <1>0, <1>1, <1>3, <1>4, ExpiryKeeps, Zenon
<1>6. ASSUME NEW k \in DOMAIN jobs' \ requeued' PROVE RowRests(k)'
  <2>1. Kept(k)
    BY <1>3, <1>4, <1>6, TimeSingle, Zenon
  <2>2. RowLeft(k)
    BY <1>4, <1>6, Zenon DEF RowLeft
  <2> QED BY <1>0, <1>1, <1>3, <1>4, <1>6, <2>1, <2>2, RowKeeps, Zenon
<1> QED BY <1>2, <1>5, <1>6, ZenonT(60) DEF AttemptInv

\* Attempts: whatever workers, loops and requests overwrite of each other, a
\* handler is called only for a job whose snapshot has an attempt left, unless the
\* job was pushed blindly.
THEOREM AttemptLeftHolds == Spec => []AttemptLeft
<1>1. Init => AttemptInv
  <2> HAVE Init
  <2>1. DOMAIN jobs = {} /\ \A i \in Instance : expiring[i] = {}
    BY DEF Init, StoreInit, SchedInit
  <2>2. \A w \in Worker : worker[w].pc = "idle"
    BY DEF Init, WorkerInit, IdleWorker
  <2> QED BY <2>1, <2>2, Zenon DEF AttemptInv, WorkerHas, ExpiryHas
<1>2. TypeOK /\ TypeOK' /\ BudgetInv /\ SingleInv /\ SingleInv' /\ AttemptInv /\ [Next]_vars => AttemptInv'
  <2> SUFFICES ASSUME TypeOK, TypeOK', BudgetInv, SingleInv, SingleInv', AttemptInv, [Next]_vars
               PROVE  AttemptInv'
    BY Zenon
  <2>1. CASE UNCHANGED vars
    <3>1. UNCHANGED <<jobs, created, lists, scheduled, worker, promoting, expiring, request, requeued>>
      BY <2>1, Zenon DEF vars, storeVars, queueVars, envVars, schedVars
    <3>2. \A w \in Worker : WorkerHas(w)'
      BY <3>1, Zenon DEF AttemptInv, WorkerHas
    <3>3. \A i \in Instance : ExpiryHas(i)'
      BY <3>1, Zenon DEF AttemptInv, ExpiryHas, Exists
    <3>4. ASSUME NEW k \in DOMAIN jobs' \ requeued' PROVE RowRests(k)'
      <4>1. RowRests(k) /\ jobs' = jobs
        BY <3>1, <3>4, Zenon DEF AttemptInv
      <4>2. Free(k)' <=> Free(k)
        BY <3>1, Zenon DEF Free, InSet, InList, InLoop, InPromotion, Held, WithRequest
      <4> QED BY <4>1, <4>2, Zenon DEF RowRests, Spent
    <3> QED BY <3>2, <3>3, <3>4, Zenon DEF AttemptInv
  <2>2. CASE Next
    BY <2>2, WorkerAttempt, SchedAttempt, ApiAttempt, TimeAttempt, Zenon DEF Next
  <2> QED BY <2>1, <2>2, Zenon
<1>3. AttemptInv => AttemptLeft
  BY Zenon DEF AttemptInv, WorkerHas, AttemptLeft
<1> QED BY <1>1, <1>2, <1>3, TypeCorrect, BudgetInvariant, SingleInvariant, PTL DEF Spec
=============================================================================
