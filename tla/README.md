# GoQueue in TLA+

A specification of GoQueue: its job pipeline, leader election, process life cycle, dashboard hub,
queries and dashboard, model-checked with TLC; the safety properties are
also proved with TLAPS.

GoQueue keeps a job's row in PostgreSQL and its id in Redis. No step changes both, nothing
guards a status with the one it replaces, and several goroutines of several instances work on
the same job. What the program promises therefore depends on the order of its steps, and that
order is what the modules describe.

## 1. The system and its parts

| Part | Source (`src/`) | Shared state | Operations | Module |
|---|---|---|---|---|
| Job entity | `internal/model/job.go` | – | transition table, `CanTransitionTo` | `JobModel` |
| Storage | `internal/storage/postgres.go` | table `jobs` | insert, status update, error update, delete; two recovery queries | `JobStore` |
| Redis queue | `internal/queue/redis.go` | a list per queue, one sorted set | `Push`, `Pop`, `Schedule`, `GetDueJobs` | `RedisQueue` |
| Worker pool | `internal/worker/worker.go` | – | `worker`, `processJob`, `handleFailure` | `WorkerPool` |
| Scheduler | `internal/scheduler/scheduler.go` | `running` | `Start`, `Stop`, promotion, recovery and stale-check loops | `Scheduler`, `Process` |
| REST commands | `internal/api/handler.go` | – | `CreateJob`, `CancelJob`, `RetryJob`, `DeleteJob` | `ApiHandler` |
| REST queries | `internal/api/handler.go`, `internal/storage/postgres.go` | – | `ListJobs`, `GetStats`, `GetQueues`, `GetQueueByName` | `Reports`, `Statistics` |
| Leader election | `internal/leader/leader.go` | `e.conn`, `isLeader`, advisory lock | `Start`, `tryAcquire`, `holdLock`, `Stop` | `LeaderElection`, `LeaderLease` |
| Start and shutdown | `cmd/goqueue/main.go` | contexts, wait groups | boot, `cancel`, `elector.Stop`, `srv.Shutdown`, `pool.Stop`, deferred `Close` | `Process` |
| Dashboard hub | `internal/dashboard/{hub,client,publisher,handler}.go` | client map, channels | `ServeWS`, pumps, `Run`, `Shutdown`, subscriber | `Hub` |
| Dashboard content | `internal/dashboard/{templates,publisher,handler,event}.go` | – | page, list, fragments, chart, events | `Statistics`, `Dashboard` |
| Metrics, config, HTTP plumbing, legacy page | see section 7 | – | – | – |

A request inserts a row and pushes the id to a list, or adds it to the sorted set when it has
a `run_at`. A worker pops an id, reads the row, marks it running, calls the handler and writes
the outcome; a failed attempt goes into the sorted set with a backoff. The scheduler of the
leading instance moves due ids to their lists, pushes old pending rows again, and fails rows
that have been running too long. The elector starts and stops that scheduler. The dashboard's
subscriber renders fragments of the table after an event and every five seconds, and the hub
hands them to the open tabs.

## 2. Modules

    JobModel <- JobStore <- RedisQueue <-+- WorkerPool <-+
                            Environment <+- Scheduler  <-+- GoQueue <- MCGoQueue
                                         +- ApiHandler <-+
    Delivery <--refines-- GoQueue <- GoQueueProofs <-+- SingleCustodyProofs <- CustodyProofs
                                                     +- EarlyProofs

    LeaderLease <--refines-- LeaderElection <- Process <- ProcessProofs

    Hub <- HubProofs
    Reports, Statistics <- Dashboard <- MCDashboard
    Statistics <- StatisticsProofs; with Dashboard <- ReportsProofs

**The pipeline.** `GoQueue` composes the modules to its left, which hold one component each and share the
variables of the stores. `jobs` maps ids to rows; ids are issued in order of insertion, which is also the
order of `created_at`. A timestamp is kept as its relation to the instant it is compared with:
`run_at` is null, future or past, `created_at` and `started_at` are recent or old. Scores and
`now` are compared in Unix seconds, so an instant counts as reached with its second. `lists`
holds a sequence per queue in the order `BRPOP` takes it, `scheduled` the sorted set. `worker`,
`promoting`, `recovering`, `expiring` and `request` hold the local state of each goroutine:
where it is, and the snapshot it works with.

A handler is cut where it calls PostgreSQL or Redis, because other goroutines run
between two calls; one call with the local computation around it is one action. `processJob` is
`PopJob`, `FetchJob`, `StartJob` (or `RejectUnknownType`), then `CompleteJob`, `BuryJob`, or
`RetryLater` and `ScheduleRetry`. `processScheduledJobs` is `TakeDueJobs`, then for each id
`FetchDueJob`, `PushDueJob` and, for a retry, `MarkPending`. The other two loops are a query
(`FindUnqueued`, `FindStale`) and a step per row (`PushUnqueued`, `FailStale`). `CancelJob` and
`RetryJob` read and check first (`CheckCancel`, `CheckRetry`) and write later.

A failing call, a cancelled context and a dead instance (`Environment`) all end a piece
of work at the point it has reached: `AbandonJob`, `SkipDueJob`, `SkipUnqueued`, `SkipStale`, `Stop`,
`RequestFails`. A call that was applied and then reported as failed is the successful step followed by
such an end. `handleFailure` ignores a failed update and schedules all the same: `RetryUnrecorded`.
`hit` remembers the jobs a fault touched, `requeued` those pushed by a path that cannot know whether
another copy is under way; only properties read them.

`Delivery` is what the parts of the pipeline promise together: a job waits, one worker takes it, and it
waits again only when that worker gives it back; a fault may drop it, and a blind push ends the
promise for it. The refinement mapping takes a job for waiting while it is in the sorted set, a list, a
batch or a request that is to push it. That a due id is taken out of the set, carried through a batch and
pushed in three steps is invisible there; so is that `ScheduleRetry` is what gives a job back.

**LeaderElection.** Two goroutines of a process use `e.conn` without a lock: the elector, and main
in `Stop`. Every read and write of the field is its own step, and a call through nil panics. The
lock belongs to a session; a session that is over keeps it (`detached`) until the server notices.
External behaviour is taken from how `leader.go` uses pgx: a cancelled context fails a query
before it is sent, a query broken off half-way takes its connection with it, an error the server reports
(`QueryError`) leaves the session and its lock as they are, closing twice is harmless.
`LeaderLease` is what the callbacks may rely on: a lease granted to one instance at a time, which can lapse
under its holder, and tenures, each begun by a grant, in which alone an instance acts. The refinement
mapping reads the holder off the advisory lock, a tenure off the stretch of the elector's code from the
granted lock to the close, and acting off the scheduler's `running` and `isLeader`.

**Process** extends `LeaderElection` from the elector to the whole process. The flag `running` is opened up
to the loops behind it: `Start` makes them, they run until the context of that `Start` is done, and
`Stop` waits for them. `main` boots (configuration, PostgreSQL, migrations, Redis), and after a signal goes
through `cancel`, `elector.Stop`, `srv.Shutdown` with its timeout, `pool.Stop` and the deferred `Close` of Redis
and of PostgreSQL. The latter is the pool's: it hands out no connection any more and waits, without a
timeout, for those in use (`CloseStore`). Workers, loops and requests are reduced to where they are, a
request and a loop to whether they are in a statement as well; their effects are in `GoQueue`. Workers have ended
when the pool is closed, and the subscriber's statements run under the context `main` has cancelled.

**Hub.** Buffered channels are bounded sequences, or counters where messages are alike. Closing a
closed channel and sending on one panic. `Run` takes one step per case of its `select` and one per
statement on the map or a channel, because `Shutdown` runs beside it. That the Go runtime may also
abort on the concurrent map access itself is not modelled.

**Reports**, **Statistics** and **Dashboard** are about what is read. The table is written by the statements of the API, the
workers and the scheduler, in any order they could come. `Reports` has the two statements of `ListJobs` and
a client that walks the pages of a filtered list until the reply says there are no more. `Statistics` has the
grouping queries, returned in any order their ORDER BY leaves open, and the loops that add them up, as
recursive functions over the turns of the loop. `Dashboard` has three renderers that go through their
statements one by one: the subscriber's feed, the page, and the list. A tab replaces the fragments it receives. Statements fail, rows stop short (only `GetTimeSeries`
reads `rows.Err`), events get lost, connections break and a slow tab is dropped. The hub is a bounded
channel here. The reader of the table is chosen initially: a client of the API or a tab.

## 3. Properties

| Property | Says | Hazard |
|---|---|---|
| `Custody` | a job no fault touched is carried by some list, set, loop, worker or request while scheduled or retrying, and executed while running | row and id change in separate steps of separate stores |
| `SingleCustody` | a job has one copy under way, unless pushed blindly | overlapping schedulers, duplicated execution |
| `DeliveryKept` | the pipeline implements `Delivery` | an id dropped or doubled in a hand-over |
| `RetryBudget` | no row waits for a retry beyond its `max_retries`, none is dead before they are used up | outcomes written from stale snapshots |
| `AttemptLeft` | a handler is called only with an attempt left, unless the job was pushed blindly | stale counts and statuses written back |
| `NeverEarly` | no handler runs before `run_at` | recovery paths around the sorted set |
| `NoStuckRunning` | a row does not stay running | lost workers |
| `ImmediateDelivered` | an immediate job of a served queue leaves pending, unless a queue of higher priority keeps filling or older rows fill the batch | lost list entries, starvation, the LIMIT of the query |
| `LeaseOrLost` | an instance that runs its scheduler, or calls itself leader, owns the lock, or its session is over | two leaders; a flag set after `Stop` cleared it |
| `ReleasedByStop` | after `Stop` the instance does not own the lock | shutdown racing an acquisition |
| `LeaseKept` | the election implements `LeaderLease` | a tenure without a grant, or renewed before it ended |
| `Available` | some instance comes to lead under the lock while one stays up | failed attempts, dead leaders |
| `TenureEnds` | an elector whose session is over does not go on leading | a heartbeat that never fails |
| `LoopsUnderLease` | a loop of a scheduler exists only under the lock, or with the session over | loops that outlive their tenure |
| `LoopsEnd` | a lost lease ends the loops, in the middle of a batch too | a loop under the wrong context |
| `ClosedAfterUse` | the stores are closed after the workers, and the requests unless `srv.Shutdown` timed out; `main` returns when no connection of the pool is in use | order of the shutdown |
| `Terminates` | a process that is told to end does, though a request goes on for ever | a wait without an end, in `pool.Stop` or in the pool's `Close` |
| `SafeWhileServing` | no double close, no send after close, before shutdown | both pumps and `Run` dispose of a client |
| `PumpsEnd`, `Forgotten` | a dropped client loses its goroutines; one whose connection is gone leaves nothing behind | unregistration before registration |
| `WalkComplete` | a walk over the pages misses no job that stays in the list, while the list moves | offsets, and a count and a page of different instants |
| `StatsExact`, `ChartExact` | statistics and chart are those of the table, in whatever order the groups come | sums over queues; labels without a date |
| `RenderExact` | a fragment rendered for the feed or the page is what the tab should show at the instant of its statement | limits, offsets and page counts computed in several places |
| `Fresh` | the tab comes to show the table, in every fragment | lost events, failed or short queries, late fragments |

`WalkComplete` names what a walk does not survive: a job that leaves the list moves the ones behind it to a
page already read; a page cut short by a broken connection is not told from a full one; a job that enters
between the COUNT and the SELECT of the last reply moves the oldest to a page that reply does not count.
`TypeOK` of `GoQueue`, `LeaderElection` and `Hub` is the type invariant of each.

## 4. Runs that pass

Sizes are distinct states.

| Run | Checks | Instance | States |
|---|---|---|---|
| `overlap` | `TypeOK`, `Custody`, `SingleCustody`, `RetryBudget`, `AttemptLeft`, `NeverEarly`, `DeliveryKept` | 1 job, deferred or of a type without handler, 2 queues, 2 workers, 2 schedulers, all endpoints, 3 faults, 2 copies | 119,844 |
| `recovery` | `Custody`, `NoStuckRunning`, `ImmediateDelivered` | 2 immediate jobs in 2 served queues and an unserved one, batch of 1, creation and retry, 1 fault, fair | 271,096 |
| `election` | `TypeOK`, `LeaseOrLost`, `ReleasedByStop`, `LeaseKept`, `Available`, `TenureEnds` | 2 instances, 1 loss, fair | 141,528 |
| `process` | `LoopsUnderLease`, `ClosedAfterUse`, `Terminates`, `LoopsEnd` | 1 process, 1 loop, 1 worker, 2 requests, 1 loss, fair | 188,301 |
| `hub` | `TypeOK`, `SafeWhileServing`, `PumpsEnd`, `Forgotten` | 1 client, capacity 2, fair | 44,250 |
| `dashboard` | `WalkComplete`, `StatsExact`, `ChartExact`, `RenderExact`, `Fresh` | up to 3 rows and 2 writes for the walk; 1 row, 1 write and 1 upset for the tab; fair | 277,382 |

**Bounds.** `MaxJobs` bounds the rows ever inserted; the properties of the pipeline speak of one job at a
time, and jobs interact only through list order, the priority of queues and the batch limit. These are what
`recovery` has its second job for: one of the two at most has a registered type (`OneExecutable` keeps the
workload within TLC's reach), the other may be in the queue before it or in one nobody serves. Without either
of its two exemptions `ImmediateDelivered` is violated there, so both cases occur.
`MaxFaults` and `MaxLosses` bound faults; `MaxRetryCount` is where counts saturate, at no less than
every `max_retries` requested, so the comparison of `handleFailure` is unaffected. `MaxCopies` bounds
the copies of an id in a list: the recovery loop would add one every five seconds for ever, a further
copy has no effect of its own. `BatchLimit` stands for the LIMIT of 100 of the recovery query, `StaleLimit` for
that of the stale query, which the runs keep at no less than the jobs: the order of `started_at` is not in the
model, and a smaller batch could pass over the same row for ever. `Cap` stands for the capacity of 256;
capacity 2 distinguishes full from non-empty. One client of the hub, one process and one loss are what
the liveness properties of those runs allow; the safety properties are proved for any number. In `dashboard`
a page has one to two rows, so that walks have several; `Minute` 2, `Hour` 4 and `Day` 3 keep the proportions
that matter, an hour that touches one minute more than it lasts and no more of them than a day has;
`MaxUpsets` counts failed and short statements, broken connections and filtered lists together. Symmetry is used in safety runs
only, for workers, clients and instances that no definition tells apart. Deadlock is checked in `dashboard`
alone: with a bounded number of jobs the pipeline really comes to rest, instances exit, and the hub ends.

**Fairness.** Goroutines keep running and calls return, hence weak fairness per goroutine or loop.
A handler of a job returns: the registered ones do within half a second. PostgreSQL answers a statement or its
connection fails: without that the pool's `Close` waits for ever, and `Terminates` is violated. A request need not
return, and may go from statement to statement: `srv.Shutdown` has its timeout, and `Close` lets it begin no other. Tickers come round and time passes. A scheduler is started again after a stop, which
`Available` supports. A `select` chooses at random among ready cases and blocked senders queue up, hence
strong fairness for those in `Hub` and for the end of a loop in `Process`; the
hub's subscriber renders something every five seconds, which needs PostgreSQL to answer. A tab connects again, as
the page asks htmx to. Nothing is assumed of new requests, faults, lost events, browsers or shutdown.

## 5. Runs that fail: the code and what is said of it

| Run | Statement | What happens |
|---|---|---|
| `cancelled_runs` | `job_test.go`: cancelled does not become running | the worker does not look at the status it read |
| `completed_reopened` | README: nothing leaves completed | the scheduler pushes a retry, a worker completes it, then the scheduler writes pending |
| `deferred_lost` | `run_at` reserves a time | a failed `Schedule` is logged, and no loop finds the row |
| `dead_early` | README, `handleFailure`: dead when `max_retries` is exceeded | the failure with which the count reaches `max_retries` makes the job dead |
| `stop_race` | `Stop` is part of the graceful shutdown | `e.conn` becomes nil between the check and the call |
| `hub_shutdown` | `Shutdown` closes every send channel | `Run` sends on a channel it has closed |

Other differences between the code and what is said of it were seen while modelling and have no run of their
own here. The transition table is consulted by `CancelJob` only: `handleFailure` goes from running to retrying
and the scheduler from retrying to pending, which the README's state machine does not have, and the stale
check can turn a row that has completed since its query into a failed one. The recovery loop pushes again whatever
has waited in its list for five seconds. Its query returns the oldest 100 pending rows of all queues, so that
as many rows of a queue nobody serves hide every younger one, which `ImmediateDelivered` exempts. A retrying row
whose entry in the sorted set is lost is found by no loop, like a deferred one. After a lost session the old leader reports itself leader until its next
heartbeat, as `LeaseOrLost` allows. Nothing takes a job out of failed. The stale check also writes back the
`retry_count` of its query, so that the number of times a handler is called can exceed `max_retries`;
`AttemptLeft` is what does hold, with the attempts counted as `handleFailure` does. `main` cancels the workers' context before it waits for them, so that the
outcome of a job that is executing is not recorded. A broadcast replaces a filtered or later page of the list
by the first page of all jobs. An empty list has 0 pages for a client of the API and 1 on the dashboard.

## 6. What is proved

For all values of the constants satisfying the named assumptions of the modules (bounds are naturals,
`queues` is a sequence of queue names, requests are well formed, two lock states are not instances, the
tables are finite, numbered from 1 and their rows have the columns and an update time not after the present,
filters constrain columns, page sizes are positive, an hour touches no more minutes than a day has):

- `TypeCorrect` (`GoQueueProofs`): `Spec => []TypeOK`, a lemma per component. `TypeOK` is inductive.
- `RetryBudgetHolds` (`GoQueueProofs`). `RetryBudget` alone is not inductive: a worker decides with the
  `max_retries` of its snapshot. With `SnapshotAgrees`, by which that is the row's, it is: the column is never
  updated, and a row that is deleted does not come back under its id. Its `retry_count` may be any older one.
- `CustodyHolds` (`CustodyProofs`). `Custody` is inductive given `TypeOK`. The argument follows the
  carrier: every step that takes an id from one place puts it in another, ends the status that needed
  it, or is a fault and records the id in `hit`.
- `SingleCustodyHolds` (`SingleCustodyProofs`). `SingleCustody` counts the copies of a job over the lists, the
  sorted set, the loops, the workers and the requests. `SingleInv` says the same without counting: a job
  that was not pushed blindly is in at most one of these places, and there once; one that has no row, or
  a dead one, is in none. Every step moves the one copy, ends it, or records the job in `requeued`.
- `AttemptLeftHolds` (`SingleCustodyProofs`). The worker decides with its snapshot, which is the row of some
  earlier instant. `AttemptInv` says of every row without an attempt left that its job is in none of the
  places and not running, and of every snapshot of a worker or of the stale check that it has one. A job
  loses its last attempt with its only copy (`BuryJob`), and the proof of `SingleInv` shows besides
  that a job that is nowhere stays there until `RetryJob` has reset its count (`Kept`). So a stale count
  that is written back belongs to a job that has attempts.
- `DeliveryImplemented` (`CustodyProofs`): `Spec => DeliveryKept`, the refinement of `Delivery`, given `TypeOK` and
  `SingleInv`. The latter is needed: a worker that takes an id takes it out of waiting only if there was no
  second entry. Every step of a worker, a loop, a request or the clock is one step of the delivery or a stutter.
- `NeverEarlyHolds` (`EarlyProofs`). `NeverEarly` speaks of handlers only; `EarlyInv` says of a job that is not
  created yet, or whose `run_at` lies ahead, everything that keeps it from one: it is in no list and with no
  worker, no loop has it in a batch, an entry in the sorted set is not due, its status is scheduled or
  cancelled, and the only requests for it are its own creation and a cancellation.
- `ElectionTypeCorrect`, `LeaseOrLostHolds`, `ReleasedByStopHolds` (`ProcessProofs`), from the
  invariant `LeaseInv`. It says, for each stretch of the elector's code, what the lock and the session
  are: in the section from `acquired` to the close the lock is this instance's or the session is
  over, and past the close of main's `Stop` no open session is left that could obtain it. Neither
  property is inductive without it, since both depend on where the other goroutine is.
- `LeaseImplemented` (`ProcessProofs`): `Spec => LeaseKept`, the refinement of `LeaderLease`. Under
  `LeaseInv` every step of one instance is one step of the lease or a stutter.
- `LoopsUnderLeaseHold`, `ClosedAfterUseHolds` (`ProcessProofs`). Every step of the processes is a step of
  `LeaderElection` or leaves it alone, so `LeaseInv` carries over; `PartInv` adds that loops live only while
  `running` is set, since `Stop` clears it after its wait, and what each place of `main` has waited for,
  the connections of the pool included.
- `HubTypeCorrect`, `SafeWhileServingHolds` (`HubProofs`), from `HubInv`: before the shutdown a client is in
  one phase of its life. It is registered once, leaves the map together with its channel, and does not return.
- `WalkCompleteHolds` (`ReportsProofs`). `WalkInv` adds that every job of the start that is not returned yet
  ranks behind the pages already read, which creations only increase and which `gap` excuses otherwise, and that after
  the COUNT as many jobs match as it counted unless `late`.
- `StatsExactHolds`, `ChartExactHolds` (`ReportsProofs`), from what the loops compute (`StatisticsProofs`). A loop is a
  recursive function over its turns. That a formula in closed form is what it computes follows without an
  induction rule: a first turn at which they differed would contradict the loop's equation, and numbers
  are well-founded. The closed form of a turn is a count over the groups of the rows before it, each group being one
  row of the query. For the chart, two minutes of the window have different labels, because the window
  touches no more minutes than a day has; `Dated` says that no job was updated after the present.
- `RenderExactHolds` (`ReportsProofs`), an action property, from the two above and `RenderInv`: the feed and the page
  always ask for the first page of all jobs. The first page of a list is its newest jobs, and the page counts of
  the handler and of the fragment are both the least number of pages, at least one, that holds the total.

Only model-checked: the liveness properties (`NoStuckRunning`, `ImmediateDelivered`, `Available`, `TenureEnds`,
`LoopsEnd`, `Terminates`, `PumpsEnd`, `Forgotten`, `Fresh`), since the prover handles neither fairness nor
ENABLED. The constants of the theorems are arbitrary, the bounds included, so the proofs cover any number of
jobs, workers, schedulers, instances, clients, rows and faults.

## 7. Not modelled

- The query for one job (`GetJob` of the API, the dashboard's detail fragment) is one statement and
  changes nothing; `/dashboard/dlq` is not used by the page. HTML, JSON and their wording are left out.
- `internal/api/dashboard.go` is a page no route serves.
- Metrics are never read back, and the goroutines that collect them touch nothing else. Configuration,
  routing, authentication, health handlers, migrations and the generated API documentation hold no state of
  interest; that configuration, connection or migration fail at the start is `BootFails`.
- `hub.Shutdown` is in `Hub` and not repeated in `Process`, and the effects of workers and loops on jobs are in
  `GoQueue` and not repeated there: a composition of all of them is out of TLC's reach.
- Loss of Redis data and clock differences between instances.
- The value of the backoff beyond "at least two seconds". `BackoffDuration` would overflow from the 34th
  retry on, after centuries of waiting.
- Rows with equal `created_at`, for which the order of `ListJobs` is open, and a change of the UTC offset within
  the hour of the chart, when two minutes can share a label.
