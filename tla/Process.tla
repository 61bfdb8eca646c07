------------------------------ MODULE Process ------------------------------
(***************************************************************************)
(* A whole process (cmd/goqueue/main.go): how main starts the parts and    *)
(* shuts them down, next to the goroutines it waits for and those it does  *)
(* not.  The election is LeaderElection's, step by step; the scheduler it  *)
(* starts and stops is opened up to the three loops behind the flag, and   *)
(* the end of the shutdown to srv.Shutdown, pool.Stop and the deferred     *)
(* calls that close the two stores.                                        *)
(***************************************************************************)
EXTENDS LeaderElection

CONSTANTS Loop,          \* the three ticker loops of a scheduler
          Worker,        \* the goroutines of a pool
          Request        \* HTTP requests that can be under way together

VARIABLES stage,         \* how far main is, at both ends of its life
          schedDone,     \* Scheduler.cancel has been called
          loop,          \* the loops of Scheduler.Start
          worker,        \* the goroutines of Pool.Start
          server,        \* ListenAndServe
          request,       \* handlers under way
          timedOut       \* srv.Shutdown has given up waiting for them

partVars == <<stage, schedDone, loop, worker, server, request, timedOut>>
procVars == <<vars, partVars>>

Boot == <<"config", "store", "migrate", "redis", "serving">>
Ending == {"http", "pool", "close redis", "close store", "return"}

Each(S, place) == [i \in Instance |-> [x \in S |-> place]]

ProcInit ==
  /\ Init
  /\ stage = [i \in Instance |-> "config"]
  /\ schedDone = [i \in Instance |-> FALSE]
  /\ loop = Each(Loop, "none")
  /\ worker = Each(Worker, "none")
  /\ server = [i \in Instance |-> "none"]
  /\ request = Each(Request, "none")
  /\ timedOut = [i \in Instance |-> FALSE]

Booted(i) == stage[i] \notin {"config", "store", "migrate", "redis", "gone"}

AllNone(f) == \A x \in DOMAIN f : f[x] = "none"

(* A goroutine in a statement has a connection of the pool.  Close of the  *)
(* pool refuses further ones as soon as it is called, and returns when all *)
(* have been given back.                                                   *)
PoolOpen(i) == stage[i] \notin {"close store", "return"}

NoneAcquired(f) == \A x \in DOMAIN f : f[x] # "statement"

\* The process and its goroutines are no more.
Gone(i) ==
  /\ stage' = [stage EXCEPT ![i] = "gone"]
  /\ loop' = [loop EXCEPT ![i] = [l \in Loop |-> "none"]]
  /\ worker' = [worker EXCEPT ![i] = [w \in Worker |-> "none"]]
  /\ request' = [request EXCEPT ![i] = [r \in Request |-> "none"]]
  /\ server' = [server EXCEPT ![i] = "none"]
  /\ UNCHANGED <<schedDone, timedOut>>

----------------------------------------------------------------------------
(* Start-up.  What fails before the end of it is os.Exit(1), which runs no *)
(* deferred call; it counts as a loss.                                     *)
BootStep(i) ==
  /\ \E k \in 1 .. 4 :
       /\ stage[i] = Boot[k]
       /\ stage' = [stage EXCEPT ![i] = Boot[k + 1]]
       /\ IF Boot[k + 1] = "serving"
            THEN /\ worker' = [worker EXCEPT ![i] = [w \in Worker |-> "loop"]]
                 /\ server' = [server EXCEPT ![i] = "starting"]
            ELSE UNCHANGED <<worker, server>>
  /\ UNCHANGED <<vars, schedDone, loop, request, timedOut>>

BootFails(i) ==
  /\ ~Booted(i) /\ Crash(i)
  /\ Gone(i)

----------------------------------------------------------------------------
(* The scheduler's Start and Stop, which the elector calls.                *)
LoopStart(i) ==
  IF pc[Elector(i)] = "start" /\ ~running[i]
    THEN /\ loop' = [loop EXCEPT ![i] = [l \in Loop |-> "new"]]
         /\ schedDone' = [schedDone EXCEPT ![i] = FALSE]
    ELSE UNCHANGED <<loop, schedDone>>

\* Mutant: Stop does not wait for the loops.
LoopWaitNot(i) == pc[Elector(i)] = "stop" /\ running[i] => schedDone[i]

\* wg.Wait in Stop.
LoopWait(i) == pc[Elector(i)] = "stop" /\ running[i] => schedDone[i] /\ AllNone(loop[i])

SchedulerCancel(i) ==
  /\ Booted(i)
  /\ pc[Elector(i)] = "stop" /\ running[i] /\ ~schedDone[i]
  /\ schedDone' = [schedDone EXCEPT ![i] = TRUE]
  /\ UNCHANGED <<vars, stage, loop, worker, server, request, timedOut>>

\* A step of the election, with what it does to the scheduler; a panic of the
\* elector ends the process.
ElectorMove(i) ==
  /\ Booted(i)
  /\ ElectorStep(i) /\ LoopWait(i)
  /\ \/ pc'[Elector(i)] = "panicked" /\ Gone(i)
     \/ /\ pc'[Elector(i)] # "panicked"
        /\ LoopStart(i)
        /\ UNCHANGED <<stage, worker, server, request, timedOut>>

SetLoop(i, l, place) ==
  /\ loop' = [loop EXCEPT ![i][l] = place]
  /\ UNCHANGED <<vars, stage, schedDone, worker, server, request, timedOut>>

\* The context a loop runs under, from Start or from main, has ended.
LoopDone(i) == schedDone[i] \/ Cancelled(i)

\* With the context done and the ticker ready, select takes either case; the
\* statements of the work then fail before they have a connection, and one that
\* has it is broken off.
LoopStep(i, l) ==
  \/ loop[i][l] = "new" /\ SetLoop(i, l, "select")
  \/ loop[i][l] = "select" /\ SetLoop(i, l, "work")
  \/ loop[i][l] = "work" /\ SetLoop(i, l, "select")
  \/ loop[i][l] = "work" /\ ~LoopDone(i) /\ PoolOpen(i) /\ SetLoop(i, l, "statement")
  \/ loop[i][l] = "statement" /\ SetLoop(i, l, "work")

\* Mutant: the loops run under the context of main, not that of Start.
LoopEndsWithMain(i, l) ==
  /\ loop[i][l] = "select" /\ Cancelled(i)
  /\ SetLoop(i, l, "none")

LoopEnds(i, l) ==
  /\ loop[i][l] = "select" /\ LoopDone(i)
  /\ SetLoop(i, l, "none")

----------------------------------------------------------------------------
(* The worker pool and the HTTP server.                                    *)
SetWorker(i, w, place) ==
  /\ worker' = [worker EXCEPT ![i][w] = place]
  /\ UNCHANGED <<vars, stage, schedDone, loop, server, request, timedOut>>

WorkerLoop(i, w) ==
  /\ worker[i][w] = "loop"
  /\ SetWorker(i, w, IF Cancelled(i) THEN "none" ELSE "pop")

\* BRPOP times out or fails, or hands out a job, even to a worker that has been
\* told to end while it waited.
Pop(i, w) ==
  /\ worker[i][w] = "pop"
  /\ \/ SetWorker(i, w, "loop")
     \/ SetWorker(i, w, "job")
     \/ Cancelled(i) /\ SetWorker(i, w, "none")

\* GetJob and the update to running fail once the context is done; otherwise the
\* job may be gone or have no handler.
FetchJob(i, w) ==
  /\ worker[i][w] = "job"
  /\ \/ SetWorker(i, w, "loop")
     \/ ~Cancelled(i) /\ SetWorker(i, w, "handler")

\* The result is written, or not when the context is done: the worker goes on.
HandlerReturns(i, w) ==
  /\ worker[i][w] = "handler"
  /\ SetWorker(i, w, "loop")

WorkerStep(i, w) ==
  \/ WorkerLoop(i, w) \/ Pop(i, w) \/ FetchJob(i, w) \/ HandlerReturns(i, w)

SetServer(i, place) ==
  /\ server' = [server EXCEPT ![i] = place]
  /\ UNCHANGED <<vars, stage, schedDone, loop, worker, request, timedOut>>

\* An address that is taken is logged; the process goes on without an API.
ListenAndServe(i) ==
  /\ server[i] = "starting"
  /\ \E place \in {"listening", "failed"} : SetServer(i, place)

SetRequest(i, r, place) ==
  /\ request' = [request EXCEPT ![i][r] = place]
  /\ UNCHANGED <<vars, stage, schedDone, loop, worker, server, timedOut>>

RequestArrives(i, r) ==
  /\ server[i] = "listening" /\ request[i][r] = "none"
  /\ SetRequest(i, r, "active")

\* A handler has its own context, which cancel() does not touch.
RequestQueries(i, r) ==
  /\ request[i][r] = "active" /\ PoolOpen(i)
  /\ SetRequest(i, r, "statement")

StatementReturns(i, r) ==
  /\ request[i][r] = "statement"
  /\ SetRequest(i, r, "active")

RequestEnds(i, r) ==
  /\ request[i][r] = "active"
  /\ SetRequest(i, r, "none")

RequestStep(i, r) ==
  \/ RequestArrives(i, r) \/ RequestQueries(i, r) \/ StatementReturns(i, r) \/ RequestEnds(i, r)

----------------------------------------------------------------------------
(* Shutdown: cancel(), elector.Stop(), srv.Shutdown, pool.Stop, and the    *)
(* deferred Close of Redis and of PostgreSQL.                              *)
Signal(i) ==
  /\ stage[i] = "serving" /\ Cancel(i)
  /\ UNCHANGED partVars

StopElector(i) ==
  /\ stage[i] = "serving"
  /\ CloseStep(Main(i)) \/ Standby(i)
  /\ IF pc'[Main(i)] = "panicked" THEN Gone(i) ELSE UNCHANGED partVars

SetStage(i, place) ==
  /\ stage' = [stage EXCEPT ![i] = place]
  /\ UNCHANGED <<vars, schedDone, loop, worker, request>>

\* srv.Shutdown closes the listener first; a server that has not started yet
\* will not.
HttpShutdown(i) ==
  /\ stage[i] = "serving" /\ pc[Main(i)] = "drain"
  /\ SetStage(i, "http")
  /\ server' = [server EXCEPT ![i] = "closed"]
  /\ UNCHANGED timedOut

HttpDrained(i) ==
  /\ stage[i] = "http" /\ AllNone(request[i])
  /\ SetStage(i, "pool")
  /\ UNCHANGED <<server, timedOut>>

\* Mutant: srv.Shutdown is given a context without a deadline.
HttpTimesOutNever(i) ==
  /\ stage[i] = "http" /\ AllNone(request[i])
  /\ SetStage(i, "pool")
  /\ UNCHANGED <<server, timedOut>>

HttpTimesOut(i) ==
  /\ stage[i] = "http" /\ ~AllNone(request[i])
  /\ SetStage(i, "pool")
  /\ timedOut' = [timedOut EXCEPT ![i] = TRUE]
  /\ UNCHANGED server

\* Mutant: Pool.Stop returns without waiting.
PoolStopAtOnce(i) ==
  /\ stage[i] = "pool"
  /\ SetStage(i, "close redis")
  /\ UNCHANGED <<server, timedOut>>

\* Pool.Stop: the context of the workers ended with cancel(); wg.Wait.
PoolStop(i) ==
  /\ stage[i] = "pool" /\ AllNone(worker[i])
  /\ SetStage(i, "close redis")
  /\ UNCHANGED <<server, timedOut>>

\* The deferred calls, last one first.
CloseRedis(i) ==
  /\ stage[i] = "close redis"
  /\ SetStage(i, "close store")
  /\ UNCHANGED <<server, timedOut>>

\* It has no timeout: a request that srv.Shutdown gave up on, or a loop nobody has
\* waited for, is waited for here while it is in a statement.
CloseStore(i) ==
  /\ stage[i] = "close store"
  /\ NoneAcquired(request[i]) /\ NoneAcquired(loop[i])
  /\ SetStage(i, "return")
  /\ UNCHANGED <<server, timedOut>>

Return(i) ==
  /\ stage[i] = "return" /\ Exit(i)
  /\ Gone(i)

MainStep(i) ==
  \/ StopElector(i) \/ HttpShutdown(i) \/ HttpDrained(i) \/ HttpTimesOut(i)
  \/ PoolStop(i) \/ CloseRedis(i) \/ CloseStore(i) \/ Return(i)

----------------------------------------------------------------------------
Killed(i) == Booted(i) /\ Crash(i) /\ Gone(i)

NetworkBreaks(i) == ConnectionBreaks(i) /\ UNCHANGED partVars

ServerNotices == ServerReleases /\ UNCHANGED partVars

ProcNext ==
  \/ \E i \in Instance :
       \/ BootStep(i) \/ BootFails(i) \/ ElectorMove(i) \/ SchedulerCancel(i)
       \/ ListenAndServe(i) \/ Signal(i) \/ MainStep(i) \/ Killed(i) \/ NetworkBreaks(i)
       \/ \E l \in Loop : LoopStep(i, l) \/ LoopEnds(i, l)
       \/ \E w \in Worker : WorkerStep(i, w)
       \/ \E r \in Request : RequestStep(i, r)
  \/ ServerNotices

ProcSpec == ProcInit /\ [][ProcNext]_procVars

(* Goroutines run on; a ready case of a select is not passed over for      *)
(* ever; handlers of jobs return; PostgreSQL answers a statement, or its   *)
(* connection fails.  A request may take for ever between its statements,  *)
(* and start any number of them.  Nobody promises a signal.                *)
ProcFairness ==
  /\ \A i \in Instance :
       /\ WF_procVars(BootStep(i))
       /\ WF_procVars(ElectorMove(i) \/ SchedulerCancel(i))
       /\ WF_procVars(MainStep(i))
       /\ \A l \in Loop : WF_procVars(LoopStep(i, l)) /\ SF_procVars(LoopEnds(i, l))
       /\ \A w \in Worker : WF_procVars(WorkerStep(i, w))
       /\ \A r \in Request : WF_procVars(StatementReturns(i, r))
  /\ WF_procVars(ServerNotices)

ProcLiveSpec == ProcSpec /\ ProcFairness

----------------------------------------------------------------------------
\* A loop that may move jobs belongs to an instance that owns the advisory lock,
\* or whose session is over: Stop keeps the elector from asking for the lock
\* again before the loops of the last tenure have ended.
LoopsUnderLease ==
  \A i \in Instance : ~AllNone(loop[i]) => lock = i \/ ~attached[i]

\* The stores are closed under nobody main waits for: all workers have ended, and
\* so has every request unless srv.Shutdown ran into its timeout.  When main
\* returns, no request and no loop is left in a statement or gets into one.
ClosedAfterUse ==
  \A i \in Instance :
    /\ stage[i] \in {"close store", "return"} =>
         AllNone(worker[i]) /\ (AllNone(request[i]) \/ timedOut[i])
    /\ stage[i] = "return" => NoneAcquired(request[i]) /\ NoneAcquired(loop[i])

\* A process that is told to end does end, whatever its workers, its elector and
\* the loops of its scheduler are doing at that time, and though a request never
\* returns and goes from statement to statement: srv.Shutdown has a timeout, and
\* Close, which has none, waits for the statement under way only.
Terminates == \A i \in Instance : []<>(Cancelled(i) => ~Up(i))

\* An instance that has lost its lease ends its loops, though they are in the
\* middle of their work and the process goes on.
LoopsEnd ==
  \A i \in Instance : []<>(AllNone(loop[i]) \/ lock = i \/ Cancelled(i))
=============================================================================
