------------------------------ MODULE Reports ------------------------------
(***************************************************************************)
(* What reads the jobs table (internal/storage/postgres.go) while others   *)
(* write it, and a client of GET /api/v1/jobs that walks the pages of a    *)
(* filtered list.  Every statement sees the table of one instant, but      *)
(* ListJobs is two statements and a walk many requests.                    *)
(*                                                                         *)
(* Jobs are numbered in the order of created_at; no two rows share one.    *)
(* A time is a number of ticks.                                            *)
(***************************************************************************)
EXTENDS Integers, FiniteSets

CONSTANTS Reader,        \* who reads the table
          Tables,        \* the tables each of them may find
          NewRows,       \* what a client creates
          Written,       \* the statuses the UPDATE statements write
          Filters,       \* each filter constrains some of the columns
          Limits,        \* the values of ?limit=, 0 for none
          DefaultLimit,  \* 20
          MaxLimit,      \* 100
          MaxChanges,    \* bound on the writes to the table, for each of them
          MaxTime        \* bound on the clock

Column == {"queue", "type", "status"}

ASSUME LimitAssumption ==
  /\ DefaultLimit \in Nat \ {0} /\ MaxLimit \in Nat
  /\ Limits \subseteq Int
  /\ \A f \in Filters : DOMAIN f \subseteq Column

ASSUME TableAssumption ==
  /\ MaxTime \in Int
  /\ \A r \in Reader : \A t \in Tables[r] :
       /\ IsFiniteSet(DOMAIN t) /\ DOMAIN t = 1 .. Cardinality(DOMAIN t)
       /\ \A id \in DOMAIN t : /\ DOMAIN t[id] = Column \cup {"updated"}
                               /\ t[id].updated \in Int /\ t[id].updated < MaxTime

VARIABLES reader,        \* the one at hand
          jobs,          \* the table: job -> row
          created,       \* jobs created so far
          changes,       \* writes so far
          now,           \* the clock
          walk           \* the client that walks the pages

tableVars == <<reader, jobs, created, changes, now>>

----------------------------------------------------------------------------
(* The statements.                                                         *)
Matching(table, filter) ==
  {id \in DOMAIN table : \A c \in DOMAIN filter : table[id][c] = filter[c]}

CountJobs(table, filter) == Cardinality(Matching(table, filter))

\* How many jobs of a set a list puts before this one: ORDER BY created_at DESC.
Rank(id, ids) == Cardinality({j \in ids : j > id})

\* LIMIT and OFFSET.
SelectJobs(table, filter, page, limit) ==
  LET ids == Matching(table, filter)
  IN  {id \in ids : /\ (page - 1) * limit <= Rank(id, ids)
                    /\ Rank(id, ids) < page * limit}

\* Mutant: the last page that is not full is not counted.
TotalPagesFull(total, limit) == total \div limit

\* math.Ceil(total / limit).
TotalPages(total, limit) == (total + limit - 1) \div limit

----------------------------------------------------------------------------
(* The walk.  start is what matches when it begins and seen what it has    *)
(* returned; gap and late are not in the code: a job has left the list or  *)
(* a page has come back short, a job has entered the list between the two  *)
(* statements of the last reply.                                           *)
NoWalk == [pc |-> "idle", filter |-> <<>>, limit |-> DefaultLimit, page |-> 1, total |-> 0,
           start |-> {}, seen |-> {}, gap |-> FALSE, late |-> FALSE]

Walking == walk.pc \in {"count", "select"}

\* The page and the limit that the handler makes of the query string.
ClampPage(page) == IF page < 1 THEN 1 ELSE page
ClampLimit(limit) == IF limit < 1 \/ limit > MaxLimit THEN DefaultLimit ELSE limit

WalkBegin(filter, limit) ==
  /\ ~Walking
  /\ walk' = [NoWalk EXCEPT !.pc = "count", !.filter = filter, !.limit = ClampLimit(limit),
                            !.page = ClampPage(0), !.start = Matching(jobs, filter)]
  /\ UNCHANGED tableVars

ListCount ==
  /\ walk.pc = "count"
  /\ walk' = [walk EXCEPT !.pc = "select", !.late = FALSE,
                          !.total = CountJobs(jobs, walk.filter)]
  /\ UNCHANGED tableVars

Page == SelectJobs(jobs, walk.filter, walk.page, walk.limit)

\* The client goes on until the page is the last of the reply.
PageRead(rows, gap) ==
  /\ walk.pc = "select"
  /\ LET last == walk.page >= TotalPages(walk.total, walk.limit)
     IN  walk' = [walk EXCEPT !.pc = IF last THEN "done" ELSE "count",
                              !.page = IF last THEN @ ELSE @ + 1,
                              !.seen = @ \cup rows, !.gap = gap]
  /\ UNCHANGED tableVars

ListSelect == PageRead(Page, walk.gap)

\* The connection breaks while the rows are read.  The loop over rows.Next ends as
\* after the last one and nobody looks at rows.Err: a page that is too short.
Cut(ids) == {{id \in ids : Rank(id, ids) < n} : n \in 0 .. Cardinality(ids) - 1}

ListCut == \E rows \in Cut(Page) : PageRead(rows, TRUE)

\* One of the two statements fails and the client asks for the page again.
ListFails ==
  /\ walk.pc = "select"
  /\ walk' = [walk EXCEPT !.pc = "count"]
  /\ UNCHANGED tableVars

WalkNext ==
  \/ \E f \in Filters, l \in Limits : WalkBegin(f, l)
  \/ ListCount \/ ListSelect \/ ListCut \/ ListFails

----------------------------------------------------------------------------
(* The writes of the API, the workers and the scheduler.                   *)
Change(table) ==
  /\ changes < MaxChanges[reader]
  /\ changes' = changes + 1
  /\ jobs' = table
  /\ LET before == Matching(jobs, walk.filter)
         after == Matching(table, walk.filter)
     IN  walk' = [walk EXCEPT !.gap = @ \/ (Walking /\ ~(before \subseteq after)),
                              !.late = @ \/ (walk.pc = "select" /\ ~(after \subseteq before))]
  /\ UNCHANGED <<reader, now>>

CreateJob(row) ==
  /\ created' = created + 1
  /\ Change([id \in DOMAIN jobs \cup {created + 1} |->
               IF id = created + 1
                 THEN [queue |-> row.queue, type |-> row.type, status |-> row.status, updated |-> now]
                 ELSE jobs[id]])

\* UPDATE ... WHERE id = $1: whatever status the row has.
SetStatus(id, status) ==
  /\ Change([jobs EXCEPT ![id].status = status, ![id].updated = now])
  /\ UNCHANGED created

DeleteJob(id) ==
  /\ jobs[id].status = "dead"
  /\ Change([j \in DOMAIN jobs \ {id} |-> jobs[j]])
  /\ UNCHANGED created

Tick ==
  /\ now < MaxTime
  /\ now' = now + 1
  /\ UNCHANGED <<reader, jobs, created, changes, walk>>

TableNext ==
  \/ \E row \in NewRows : CreateJob(row)
  \/ \E id \in DOMAIN jobs, s \in Written : SetStatus(id, s)
  \/ \E id \in DOMAIN jobs : DeleteJob(id)

TableInit ==
  /\ reader \in Reader /\ jobs \in Tables[reader]
  /\ created = Cardinality(DOMAIN jobs)
  /\ changes = 0 /\ now = MaxTime - 1
  /\ walk = NoWalk

(* A walk returns every job that matched its filter from the beginning to  *)
(* the end (ListJobs, postgres.go and handler.go), whatever is created and *)
(* changed meanwhile, unless a job left the list, which moves the later    *)
(* ones to pages already read, a page was cut, or a job entered the list   *)
(* between the COUNT and the SELECT of the last reply, which moves the     *)
(* oldest to a page not counted.                                           *)
WalkComplete == walk.pc = "done" /\ ~walk.gap /\ ~walk.late => walk.start \subseteq walk.seen
=============================================================================
