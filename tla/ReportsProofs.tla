--------------------------- MODULE ReportsProofs ---------------------------
(***************************************************************************)
(* What a walk over the pages of ListJobs returns, for every table, page   *)
(* size and number of writes.  A job that the walk has not returned yet    *)
(* has at least as many newer jobs in the list as the pages read so far    *)
(* hold; what enters the list only adds to them.                           *)
(*                                                                         *)
(* Then the statistics, the chart and the fragments of the dashboard: what *)
(* is computed from the statements is what the table says, by the lemmas   *)
(* of StatisticsProofs and those here on the first page of a list.         *)
(***************************************************************************)
EXTENDS Dashboard, StatisticsProofs

Listed == Matching(jobs, walk.filter)

\* The table is finite and its jobs are numbers.
TableShape ==
  /\ IsFiniteSet(DOMAIN jobs) /\ DOMAIN jobs \subseteq Nat
  /\ created \in Nat

WalkShape ==
  walk \in [pc : {"idle", "count", "select", "done"}, filter : Filters \cup {<<>>},
            limit : Nat \ {0}, page : Nat \ {0}, total : Nat,
            start : SUBSET Nat, seen : SUBSET Nat, gap : BOOLEAN, late : BOOLEAN]

\* What is not returned yet lies beyond the pages read.
Beyond ==
  Walking /\ ~walk.gap =>
    /\ walk.start \subseteq Listed
    /\ \A id \in walk.start \ walk.seen : Rank(id, Listed) >= (walk.page - 1) * walk.limit

Counted == walk.pc = "select" /\ ~walk.gap /\ ~walk.late => walk.total = Cardinality(Listed)

WalkInv == TableShape /\ WalkShape /\ Beyond /\ Counted /\ WalkComplete

----------------------------------------------------------------------------
\* The jobs that pass the filter of ListJobs are finitely many jobs of the table.
LEMMA MatchingFinite ==
  ASSUME NEW t, NEW f, IsFiniteSet(DOMAIN t), DOMAIN t \subseteq Nat
  PROVE  /\ Matching(t, f) \subseteq DOMAIN t
         /\ IsFiniteSet(Matching(t, f))
         /\ Cardinality(Matching(t, f)) \in Nat
<1>1. Matching(t, f) \subseteq DOMAIN t
  BY DEF Matching
<1>2. IsFiniteSet(Matching(t, f))
  BY <1>1, FS_Subset, SMTT(30)
<1> QED
  BY <1>1, <1>2, FS_CardinalityType

\* A larger list has at least as many newer jobs.
LEMMA RankGrows ==
  ASSUME NEW S, NEW T, S \subseteq T, IsFiniteSet(T), NEW id
  PROVE  Rank(id, S) \in Nat /\ Rank(id, T) \in Nat /\ Rank(id, S) <= Rank(id, T)
<1> DEFINE A == {j \in S : j > id}
           B == {j \in T : j > id}
<1>1. IsFiniteSet(B)
  <2>1. B \subseteq T
    OBVIOUS
  <2> QED
    BY <2>1, FS_Subset
<1>2. A \subseteq B
  OBVIOUS
<1>3. IsFiniteSet(A) /\ Cardinality(A) <= Cardinality(B)
  BY <1>1, <1>2, FS_Subset
<1>4. Cardinality(A) \in Nat /\ Cardinality(B) \in Nat
  BY <1>1, <1>3, FS_CardinalityType
<1> QED
  BY <1>3, <1>4 DEF Rank

\* A job of a list is not newer than itself.
LEMMA RankBelow ==
  ASSUME NEW S, IsFiniteSet(S), S \subseteq Nat, NEW id \in S
  PROVE  Rank(id, S) < Cardinality(S)
<1> DEFINE A == {j \in S : j > id}
<1>1. A \subseteq S /\ A # S
  OBVIOUS
<1>2. /\ Cardinality(A) <= Cardinality(S)
      /\ Cardinality(A) # Cardinality(S)
  BY <1>1, FS_Subset
<1>3. Cardinality(A) \in Nat /\ Cardinality(S) \in Nat
  BY <1>1, FS_Subset, FS_CardinalityType
<1> QED
  BY <1>2, <1>3 DEF Rank

\* The pages of a reply hold all it counted.
LEMMA PagesHoldTotal ==
  ASSUME NEW total \in Nat, NEW limit \in Nat \ {0}, NEW page \in Nat,
         page >= TotalPages(total, limit)
  PROVE  page * limit >= total
<1> DEFINE q == (total + limit - 1) \div limit
           x == total + limit - 1
<1>1. x \in Nat
  OBVIOUS
<1>2. q \in Nat /\ x = limit * q + (x % limit) /\ x % limit < limit /\ x % limit \in Nat
  BY <1>1
<1>3. page >= q
  BY DEF TotalPages
<1>4. limit * page >= limit * q
  BY <1>2, <1>3, Z3
<1> HIDE DEF q
<1>5. limit * q > x - limit
  BY <1>1, <1>2
<1> QED
  BY <1>2, <1>4, <1>5

----------------------------------------------------------------------------
(* A write to the table.                                                   *)
LEMMA ChangeKeeps ==
  ASSUME WalkInv, NEW t, IsFiniteSet(DOMAIN t), DOMAIN t \subseteq Nat,
         Change(t), created' \in Nat
  PROVE  WalkInv'
<1> DEFINE before == Matching(jobs, walk.filter)
           after == Matching(t, walk.filter)
<1>1. jobs' = t /\ TableShape'
  BY SMTT(30) DEF WalkInv, Change, TableShape
<1>2. /\ WalkShape'
      /\ walk'.pc = walk.pc /\ walk'.filter = walk.filter /\ walk'.limit = walk.limit
      /\ walk'.page = walk.page /\ walk'.total = walk.total
      /\ walk'.start = walk.start /\ walk'.seen = walk.seen
      /\ walk'.gap = (walk.gap \/ (Walking /\ ~(before \subseteq after)))
      /\ walk'.late = (walk.late \/ (walk.pc = "select" /\ ~(after \subseteq before)))
  BY ZenonT(60) DEF WalkInv, WalkShape, Change
<1>3. Listed = before /\ Listed' = after
  BY <1>1, <1>2 DEF Listed
<1>4. IsFiniteSet(after) /\ IsFiniteSet(before)
  BY MatchingFinite DEF WalkInv, TableShape
<1>5. Beyond'
  <2> SUFFICES ASSUME Walking', ~walk'.gap
               PROVE  /\ walk'.start \subseteq after
                      /\ \A id \in walk'.start \ walk'.seen :
                           Rank(id, after) >= (walk'.page - 1) * walk'.limit
    BY <1>3 DEF Beyond
  <2>1. Walking /\ ~walk.gap /\ before \subseteq after
    BY <1>2, Zenon DEF Walking
  <2>2. /\ walk.start \subseteq before
        /\ \A id \in walk.start \ walk.seen : Rank(id, before) >= (walk.page - 1) * walk.limit
    BY <1>3, <2>1 DEF WalkInv, Beyond
  <2>3. ASSUME NEW id \in walk.start \ walk.seen
        PROVE  Rank(id, after) >= (walk.page - 1) * walk.limit
    <3>1. Rank(id, before) \in Nat /\ Rank(id, after) \in Nat /\ Rank(id, before) <= Rank(id, after)
      BY <1>4, <2>1, RankGrows
    <3>2. (walk.page - 1) * walk.limit \in Int
      BY DEF WalkInv, WalkShape
    <3> QED
      BY <2>2, <3>1, <3>2
  <2> QED
    BY <1>2, <2>1, <2>2, <2>3, SMTT(30)
<1>6. Counted'
  <2> SUFFICES ASSUME walk'.pc = "select", ~walk'.gap, ~walk'.late
               PROVE  walk'.total = Cardinality(after)
    BY <1>3 DEF Counted
  <2>1. before = after /\ walk.pc = "select" /\ ~walk.gap /\ ~walk.late
    BY <1>2, Zenon DEF Walking
  <2> QED
    BY <1>2, <1>3, <2>1 DEF WalkInv, Counted
<1>7. WalkComplete'
  BY <1>2, Zenon DEF WalkInv, WalkComplete, Walking
<1> QED
  BY <1>1, <1>2, <1>5, <1>6, <1>7 DEF WalkInv

\* The three writes.
LEMMA TableKeeps == ASSUME WalkInv, TableNext PROVE WalkInv'
<1> USE DEF WalkInv, TableShape
<1>1. ASSUME NEW row \in NewRows, CreateJob(row) PROVE WalkInv'
  <2> DEFINE t == [id \in DOMAIN jobs \cup {created + 1} |->
                     IF id = created + 1
                       THEN [queue |-> row.queue, type |-> row.type, status |-> row.status, updated |-> now]
                       ELSE jobs[id]]
  <2>1. DOMAIN t = DOMAIN jobs \cup {created + 1}
    OBVIOUS
  <2>2. IsFiniteSet(DOMAIN t) /\ DOMAIN t \subseteq Nat
    BY <2>1, FS_AddElement
  <2>3. Change(t) /\ created' \in Nat
    BY <1>1 DEF CreateJob
  <2> HIDE DEF t
  <2> QED
    BY <2>2, <2>3, ChangeKeeps
<1>2. ASSUME NEW id \in DOMAIN jobs, NEW s \in Written, SetStatus(id, s) PROVE WalkInv'
  <2> DEFINE t == [jobs EXCEPT ![id].status = s, ![id].updated = now]
  <2>1. DOMAIN t = DOMAIN jobs
    OBVIOUS
  <2>2. Change(t) /\ created' = created
    BY <1>2 DEF SetStatus
  <2> HIDE DEF t
  <2> QED
    BY <2>1, <2>2, ChangeKeeps
<1>3. ASSUME NEW id \in DOMAIN jobs, DeleteJob(id) PROVE WalkInv'
  <2> DEFINE t == [j \in DOMAIN jobs \ {id} |-> jobs[j]]
  <2>1. DOMAIN t \subseteq DOMAIN jobs
    OBVIOUS
  <2>2. IsFiniteSet(DOMAIN t) /\ DOMAIN t \subseteq Nat
    BY <2>1, FS_Subset
  <2>3. Change(t) /\ created' = created
    BY <1>3 DEF DeleteJob
  <2> HIDE DEF t
  <2> QED
    BY <2>2, <2>3, ChangeKeeps
<1> QED
  BY <1>1, <1>2, <1>3 DEF TableNext

----------------------------------------------------------------------------
(* A step of the walk.                                                     *)
LEMMA PageReadKeeps ==
  ASSUME WalkInv, NEW rows \in SUBSET Nat, NEW gap \in BOOLEAN, PageRead(rows, gap)
  PROVE  LET last == walk.page >= TotalPages(walk.total, walk.limit) IN
         /\ WalkShape'
         /\ walk'.pc = (IF last THEN "done" ELSE "count")
         /\ walk'.page = (IF last THEN walk.page ELSE walk.page + 1)
         /\ walk'.seen = walk.seen \cup rows
         /\ walk'.filter = walk.filter /\ walk'.limit = walk.limit /\ walk'.start = walk.start
         /\ walk'.gap = gap /\ walk'.late = walk.late
<1> DEFINE last == walk.page >= TotalPages(walk.total, walk.limit)
           all == walk.seen \cup rows
<1>1. walk' = [walk EXCEPT !.pc = IF last THEN "done" ELSE "count",
                           !.page = IF last THEN @ ELSE @ + 1,
                           !.seen = @ \cup rows, !.gap = gap]
  BY DEF PageRead
<1>2. WalkShape
  BY DEF WalkInv
<1>3. all \in SUBSET Nat
  BY <1>2, Zenon DEF WalkShape
<1> HIDE DEF last
<1>4. CASE last
  <2>1. walk' = [walk EXCEPT !.pc = "done", !.page = walk.page, !.seen = all, !.gap = gap]
    BY <1>1, <1>2, <1>4 DEF WalkShape
  <2> HIDE DEF all
  <2>2. WalkShape' /\ walk'.seen = all
    BY <1>2, <1>3, <2>1, Zenon DEF WalkShape
  <2> QED
    BY <1>2, <1>4, <2>1, <2>2 DEF WalkShape, all, last
<1>5. CASE ~last
  <2> DEFINE next == walk.page + 1
  <2>1. walk' = [walk EXCEPT !.pc = "count", !.page = next, !.seen = all, !.gap = gap]
    BY <1>1, <1>2, <1>5 DEF WalkShape
  <2>2. next \in Nat \ {0}
    BY <1>2 DEF WalkShape
  <2> HIDE DEF all, next
  <2>3. WalkShape' /\ walk'.seen = all /\ walk'.page = next
    BY <1>2, <1>3, <2>1, <2>2, Zenon DEF WalkShape
  <2> QED
    BY <1>2, <1>5, <2>1, <2>3 DEF WalkShape, all, next, last
<1> QED
  BY <1>4, <1>5

\* A page that the SELECT of ListJobs fills keeps the walk in step with the table.
LEMMA SelectKeeps == ASSUME WalkInv, ListSelect PROVE WalkInv'
<1> DEFINE last == walk.page >= TotalPages(walk.total, walk.limit)
           rows == SelectJobs(jobs, walk.filter, walk.page, walk.limit)
<1>1. jobs' = jobs /\ TableShape'
  BY DEF WalkInv, ListSelect, PageRead, tableVars, TableShape
<1>2. Listed \subseteq Nat /\ IsFiniteSet(Listed) /\ Cardinality(Listed) \in Nat
  BY MatchingFinite DEF WalkInv, TableShape, Listed
<1>3. rows \subseteq Nat
  BY <1>2 DEF SelectJobs, Listed
<1>4. /\ walk.page \in Nat \ {0} /\ walk.limit \in Nat \ {0} /\ walk.total \in Nat
      /\ walk.gap \in BOOLEAN /\ walk.pc = "select"
  BY DEF WalkInv, WalkShape, ListSelect, PageRead
<1>5. /\ WalkShape'
      /\ walk'.pc = (IF last THEN "done" ELSE "count")
      /\ walk'.page = (IF last THEN walk.page ELSE walk.page + 1)
      /\ walk'.seen = walk.seen \cup rows
      /\ walk'.filter = walk.filter /\ walk'.limit = walk.limit /\ walk'.start = walk.start
      /\ walk'.gap = walk.gap /\ walk'.late = walk.late
  <2>1. PageRead(rows, walk.gap)
    BY DEF ListSelect, Page
  <2> HIDE DEF rows
  <2> QED
    BY <1>3, <1>4, <2>1, PageReadKeeps
<1>6. Listed' = Listed
  BY <1>1, <1>5 DEF Listed
<1>7. ASSUME ~walk.gap, NEW id \in walk.start \ walk'.seen
      PROVE  /\ id \in Listed /\ Rank(id, Listed) \in Nat
             /\ Rank(id, Listed) >= walk.page * walk.limit
  <2>1. id \in walk.start \ walk.seen /\ id \notin rows
    BY <1>5, <1>7
  <2>2. id \in Listed /\ Rank(id, Listed) >= (walk.page - 1) * walk.limit
    BY <1>4, <1>7, <2>1, SMTT(30) DEF WalkInv, Beyond, Walking
  <2>3. Rank(id, Listed) \in Nat
    BY <1>2, RankGrows
  <2>4. walk.page * walk.limit \in Nat
    BY <1>4
  <2>5. ~(Rank(id, Listed) < walk.page * walk.limit)
    BY <2>1, <2>2, SMTT(30) DEF SelectJobs, Listed
  <2> QED
    BY <2>2, <2>3, <2>4, <2>5
<1>8. Beyond'
  <2> SUFFICES ASSUME Walking', ~walk'.gap
               PROVE  /\ walk'.start \subseteq Listed
                      /\ \A id \in walk'.start \ walk'.seen :
                           Rank(id, Listed) >= (walk'.page - 1) * walk'.limit
    BY <1>6 DEF Beyond
  <2>1. walk'.page = walk.page + 1
    BY <1>5 DEF Walking
  <2>2. walk'.page - 1 = walk.page
    BY <1>4, <2>1
  <2>3. walk.start \subseteq Listed
    BY <1>4, <1>5, SMTT(30) DEF WalkInv, Beyond, Walking
  <2> QED
    BY <1>5, <1>7, <2>2, <2>3
<1>9. Counted'
  BY <1>5, SMTT(30) DEF Counted
<1>10. WalkComplete'
  <2> SUFFICES ASSUME walk'.pc = "done", ~walk'.gap, ~walk'.late,
                      NEW id \in walk.start, id \notin walk'.seen
               PROVE  FALSE
    BY <1>5 DEF WalkComplete
  <2>1. last /\ ~walk.gap /\ ~walk.late
    BY <1>5
  <2>2. walk.total = Cardinality(Listed)
    BY <1>4, <2>1 DEF WalkInv, Counted
  <2>3. walk.page * walk.limit >= walk.total
    BY <1>4, <2>1, PagesHoldTotal, SMTT(30)
  <2>4. id \in Listed /\ Rank(id, Listed) \in Nat /\ Rank(id, Listed) >= walk.page * walk.limit
    BY <1>7, <2>1
  <2>5. Rank(id, Listed) < Cardinality(Listed)
    BY <1>2, <2>4, RankBelow, ZenonT(60)
  <2>6. walk.page * walk.limit \in Nat
    BY <1>4
  <2> QED
    BY <1>2, <2>2, <2>3, <2>4, <2>5, <2>6, SMTT(30)
<1> QED
  BY <1>1, <1>5, <1>8, <1>9, <1>10 DEF WalkInv

\* A page that was cut excuses what the walk misses.
LEMMA CutKeeps == ASSUME WalkInv, ListCut PROVE WalkInv'
<1>1. PICK rows \in Cut(Page) : PageRead(rows, TRUE)
  BY Zenon DEF ListCut
<1>2. rows \in SUBSET Nat
  <2>1. Matching(jobs, walk.filter) \subseteq Nat
    BY MatchingFinite DEF WalkInv, TableShape
  <2>2. Page \subseteq Nat
    BY <2>1 DEF Page, SelectJobs
  <2> QED
    BY <1>1, <2>2, Zenon DEF Cut
<1>3. WalkShape' /\ walk'.gap = TRUE
  BY <1>1, <1>2, PageReadKeeps, ZenonT(60)
<1>4. TableShape'
  BY <1>1 DEF WalkInv, PageRead, tableVars, TableShape
<1> QED
  BY <1>3, <1>4 DEF WalkInv, Beyond, Counted, WalkComplete

\* Every step of a walk over the pages keeps its invariant.
LEMMA WalkKeeps == ASSUME WalkInv, WalkNext PROVE WalkInv'
<1>1. ASSUME NEW f \in Filters, NEW l \in Limits, WalkBegin(f, l) PROVE WalkInv'
  <2> DEFINE ids == Matching(jobs, f)
  <2>1. jobs' = jobs /\ TableShape'
    BY <1>1 DEF WalkInv, WalkBegin, tableVars, TableShape
  <2>2. ClampLimit(l) \in Nat \ {0} /\ ClampPage(0) = 1
    BY LimitAssumption DEF ClampLimit, ClampPage
  <2>3. ids \subseteq Nat /\ IsFiniteSet(ids)
    BY MatchingFinite DEF WalkInv, TableShape
  <2>4. walk' = [pc |-> "count", filter |-> f, limit |-> ClampLimit(l), page |-> 1, total |-> 0,
                 start |-> ids, seen |-> {}, gap |-> FALSE, late |-> FALSE]
    BY <1>1, <2>2, ZenonT(60) DEF WalkBegin, NoWalk
  <2> HIDE DEF ids
  <2>5. WalkShape'
    BY <2>2, <2>3, <2>4, SMTT(30) DEF WalkShape
  <2>6. Listed' = ids
    BY <2>1, <2>4, SMTT(30) DEF Listed, ids
  <2>7. Beyond'
    <3>1. \A id \in ids : Rank(id, ids) \in Nat
      BY <2>3, RankGrows, SMTT(30)
    <3>2. (1 - 1) * ClampLimit(l) = 0
      BY <2>2, SMTT(30)
    <3> QED
      BY <2>4, <2>6, <3>1, <3>2, SMTT(30) DEF Beyond
  <2>8. Counted' /\ WalkComplete'
    BY <2>4 DEF Counted, WalkComplete
  <2> QED
    BY <2>1, <2>5, <2>7, <2>8, SMTT(30) DEF WalkInv
<1>2. ASSUME ListCount PROVE WalkInv'
  <2>1. jobs' = jobs /\ TableShape'
    BY <1>2, SMTT(30) DEF WalkInv, ListCount, tableVars, TableShape
  <2>2. Cardinality(Listed) \in Nat /\ CountJobs(jobs, walk.filter) = Cardinality(Listed)
    BY MatchingFinite DEF WalkInv, TableShape, Listed, CountJobs
  <2>3. /\ WalkShape'
        /\ walk.pc = "count" /\ walk'.pc = "select" /\ walk'.total = Cardinality(Listed)
        /\ walk'.filter = walk.filter /\ walk'.limit = walk.limit /\ walk'.page = walk.page
        /\ walk'.start = walk.start /\ walk'.seen = walk.seen /\ walk'.gap = walk.gap
    BY <1>2, <2>2, ZenonT(60) DEF WalkInv, WalkShape, ListCount
  <2>4. Listed' = Listed
    BY <2>1, <2>3, SMTT(30) DEF Listed
  <2>5. Beyond' /\ Counted' /\ WalkComplete'
    BY <2>3, <2>4, SMTT(30) DEF WalkInv, Beyond, Counted, WalkComplete, Walking
  <2> QED
    BY <2>1, <2>3, <2>5, Zenon DEF WalkInv
<1>3. ASSUME ListFails PROVE WalkInv'
  <2>1. jobs' = jobs /\ TableShape'
    BY <1>3 DEF WalkInv, ListFails, tableVars, TableShape
  <2>2. /\ WalkShape'
        /\ walk.pc = "select" /\ walk'.pc = "count"
        /\ walk'.filter = walk.filter /\ walk'.limit = walk.limit /\ walk'.page = walk.page
        /\ walk'.start = walk.start /\ walk'.seen = walk.seen /\ walk'.gap = walk.gap
    BY <1>3 DEF WalkInv, WalkShape, ListFails
  <2>3. Listed' = Listed
    BY <2>1, <2>2, SMTT(30) DEF Listed
  <2>4. Beyond' /\ Counted' /\ WalkComplete'
    BY <2>2, <2>3, Zenon DEF WalkInv, Beyond, Counted, WalkComplete, Walking
  <2> QED
    BY <2>1, <2>2, <2>4, SMTT(30) DEF WalkInv
<1> QED
  BY <1>1, <1>2, <1>3, SelectKeeps, CutKeeps, SMTT(30) DEF WalkNext

\* Nothing else touches the table or the walk.
LEMMA WalkFrame == ASSUME WalkInv, jobs' = jobs, created' = created, walk' = walk PROVE WalkInv'
  BY Zenon DEF WalkInv, TableShape, WalkShape, Beyond, Counted, WalkComplete, Walking, Listed

\* The invariant of the walk holds however the table changes between two pages.
LEMMA WalkInvariant == Spec => []WalkInv
<1>1. Init => WalkInv
  <2> SUFFICES ASSUME Init PROVE WalkInv
    OBVIOUS
  <2>1. TableShape
    <3>1. IsFiniteSet(DOMAIN jobs) /\ DOMAIN jobs = 1 .. Cardinality(DOMAIN jobs)
      BY TableAssumption, SMTT(30) DEF Init, TableInit
    <3>2. Cardinality(DOMAIN jobs) \in Nat
      BY <3>1, FS_CardinalityType, SMTT(30)
    <3> QED
      BY <3>1, <3>2, SMTT(30) DEF Init, TableInit, TableShape
  <2>2. walk = NoWalk
    BY SMTT(30) DEF Init, TableInit
  <2>3. WalkShape
    BY <2>2, LimitAssumption, SMTT(30) DEF WalkShape, NoWalk
  <2>4. Beyond /\ Counted /\ WalkComplete
    BY <2>2 DEF Beyond, Counted, WalkComplete, Walking, NoWalk
  <2> QED
    BY <2>1, <2>3, <2>4, SMTT(30) DEF WalkInv
<1>2. WalkInv /\ [Next]_vars => WalkInv'
  <2> SUFFICES ASSUME WalkInv, [Next]_vars PROVE WalkInv'
    OBVIOUS
  <2>1. CASE Write
    BY <2>1, TableKeeps, SMTT(30) DEF Write
  <2>2. CASE Tick /\ UNCHANGED tabVars
    BY <2>2, WalkFrame DEF Tick
  <2>3. CASE reader = "api" /\ WalkNext /\ UNCHANGED tabVars
    BY <2>3, WalkKeeps, SMTT(30)
  <2>4. CASE reader = "tab" /\ TabNext /\ UNCHANGED <<tableVars, walk>>
    BY <2>4, WalkFrame, SMTT(30) DEF tableVars
  <2>5. CASE UNCHANGED vars
    BY <2>5, WalkFrame DEF vars, tableVars
  <2> QED
    BY <2>1, <2>2, <2>3, <2>4, <2>5, SMTT(30) DEF Next
<1> QED
  BY <1>1, <1>2, PTL DEF Spec

(* A walk over the pages of the list misses no job that stays in it, for   *)
(* every table, filter, page size and number of writes (ListJobs), unless  *)
(* a job left the list, a page was cut, or a job entered the list between  *)
(* the COUNT and the SELECT of the last reply.                             *)
THEOREM WalkCompleteHolds == Spec => []WalkComplete
<1>1. WalkInv => WalkComplete
  BY DEF WalkInv
<1> QED
  BY <1>1, WalkInvariant, PTL

----------------------------------------------------------------------------
(* The statistics and the chart.                                           *)

(* The statistics of GetStats, GetQueues and GetQueueByName are the counts *)
(* of the table, for every table and every order in which the database     *)
(* returns the groups.                                                     *)
THEOREM StatsExactHolds == Spec => []StatsExact
<1>1. ASSUME WalkInv PROVE StatsExact
  <2>1. IsFiniteSet(DOMAIN jobs)
    BY <1>1 DEF WalkInv, TableShape
  <2>2. ASSUME NEW stats \in GetQueueStats(jobs)
        PROVE  /\ Totals(stats) = StatusCounts(jobs)
               /\ GetQueues(stats) = [q \in {jobs[i].queue : i \in DOMAIN jobs} |-> QueueStatusCounts(jobs, q)]
    <3>1. stats \in InAnyOrder(QueueStat(jobs, DOMAIN jobs))
      BY DEF GetQueueStats
    <3>2. Totals(stats) = [s \in Status |-> Cardinality({i \in DOMAIN jobs : jobs[i].status = s})]
      BY <2>1, <3>1, TotalsCount, SMTT(30)
    <3>3. GetQueues(stats) = QueueCounts(jobs, DOMAIN jobs)
      BY <2>1, <3>1, QueuesCount
    <3> QED
      BY <3>2, <3>3, Zenon DEF StatusCounts, QueueStatusCounts, CountOf, QueueCounts, Group
  <2>3. ASSUME NEW q, NEW stats \in GetQueueStatsByName(jobs, q)
        PROVE  GetQueueByName(stats) = QueueStatusCounts(jobs, q)
    <3> DEFINE ids == {i \in DOMAIN jobs : jobs[i].queue = q}
    <3>1. IsFiniteSet(ids) /\ (\A i \in ids : jobs[i].queue = q)
      BY <2>1, FS_Subset, SMTT(30)
    <3>2. stats \in InAnyOrder(QueueStat(jobs, ids))
      BY SMTT(30) DEF GetQueueStatsByName
    <3> HIDE DEF ids
    <3>3. GetQueueByName(stats) = [s \in Status |-> Cardinality(Group(jobs, ids, q, s))]
      BY <3>1, <3>2, ByNameCount, ZenonT(60)
    <3>4. ASSUME NEW s PROVE Group(jobs, ids, q, s) = {i \in DOMAIN jobs : jobs[i].queue = q /\ jobs[i].status = s}
      BY DEF Group, ids
    <3> QED
      BY <3>3, <3>4, ZenonT(60) DEF QueueStatusCounts, CountOf
  <2> QED
    BY <2>2, <2>3, Zenon DEF StatsExact
<1> QED
  BY <1>1, WalkInvariant, PTL

\* No job was updated after the present.
Dated ==
  /\ now \in Int
  /\ \A id \in DOMAIN jobs : /\ DOMAIN jobs[id] = Column \cup {"updated"}
                             /\ jobs[id].updated \in Int /\ jobs[id].updated <= now

(* The chart has one point for each minute of the last hour in which a job *)
(* ended, in their order, with the counts of that minute (GetTimeSeries,   *)
(* buildChartData), for every table and every length of the window short   *)
(* of a day: the labels of its minutes do not collide.                     *)
THEOREM ChartExactHolds == Spec => []ChartExact
<1>1. Init => Dated
  <2> HAVE Init
  <2>1. now = MaxTime - 1 /\ MaxTime \in Int
    BY TableAssumption DEF Init, TableInit
  <2>2. \A id \in DOMAIN jobs : /\ DOMAIN jobs[id] = Column \cup {"updated"}
                               /\ jobs[id].updated \in Int /\ jobs[id].updated < MaxTime
    BY TableAssumption, Zenon DEF Init, TableInit
  <2> QED
    BY <2>1, <2>2, SMTT(30) DEF Dated
<1>2. Dated /\ [Next]_vars => Dated'
  <2> SUFFICES ASSUME Dated /\ [Next]_vars PROVE Dated'
    BY Zenon
  <2>1. ASSUME NEW row \in NewRows, CreateJob(row) PROVE Dated'
    <3> DEFINE new == [queue |-> row.queue, type |-> row.type, status |-> row.status, updated |-> now]
    <3>1. /\ now' = now
          /\ jobs' = [id \in DOMAIN jobs \cup {created + 1} |-> IF id = created + 1 THEN new ELSE jobs[id]]
      BY <2>1, ZenonT(60) DEF CreateJob, Change
    <3>2. DOMAIN new = Column \cup {"updated"} /\ new.updated = now
      BY DEF Column
    <3> HIDE DEF new
    <3> QED
      BY <3>1, <3>2 DEF Dated
  <2>2. ASSUME NEW id \in DOMAIN jobs, NEW s \in Written, SetStatus(id, s) PROVE Dated'
    <3> DEFINE new == [jobs[id] EXCEPT !.status = s, !.updated = now]
    <3>1. now' = now /\ jobs' = [jobs EXCEPT ![id].status = s, ![id].updated = now]
      BY <2>2, Zenon DEF SetStatus, Change
    <3>2. jobs' = [jobs EXCEPT ![id] = new]
      BY <3>1, ZenonT(60)
    <3>3. DOMAIN new = Column \cup {"updated"} /\ new.updated = now
      BY SMTT(30) DEF Column, Dated
    <3> HIDE DEF new
    <3> QED
      BY <3>1, <3>2, <3>3, SMTT(30) DEF Dated
  <2>3. ASSUME NEW id \in DOMAIN jobs, DeleteJob(id) PROVE Dated'
    <3>1. now' = now /\ jobs' = [j \in DOMAIN jobs \ {id} |-> jobs[j]]
      BY <2>3, ZenonT(60) DEF DeleteJob, Change
    <3> QED
      BY <3>1, Zenon DEF Dated
  <2>4. CASE Tick
    BY <2>4, SMTT(30) DEF Tick, Dated
  <2>5. CASE UNCHANGED <<jobs, now>>
    BY <2>5 DEF Dated
  <2>6. WalkNext => UNCHANGED <<jobs, now>>
    BY Zenon DEF WalkNext, WalkBegin, ListCount, ListSelect, ListCut, ListFails, PageRead, tableVars
  <2> QED
    BY <2>1, <2>2, <2>3, <2>4, <2>5, <2>6, ZenonT(60) DEF Next, Write, TableNext, vars, tableVars
<1>3. WalkInv /\ Dated => ChartExact
  BY ChartCount, SMTT(30) DEF WalkInv, TableShape, Dated, ChartExact
<1> QED
  BY <1>1, <1>2, <1>3, WalkInvariant, PTL DEF Spec

----------------------------------------------------------------------------
(* The fragments.                                                          *)

\* Only one number of pages is enough and not too much.
LEMMA OnePagesFor ==
  ASSUME NEW total \in Nat, NEW n \in Nat \ {0},
         n * ListLimit >= total, n > 1 => (n - 1) * ListLimit < total
  PROVE  PagesFor(total) = n
<1> DEFINE Enough(m) == m * ListLimit >= total /\ (m > 1 => (m - 1) * ListLimit < total)
<1>1. ListLimit \in Nat \ {0}
  BY ListAssumption, SMTT(30)
<1>2. ASSUME NEW a \in Nat \ {0}, NEW b \in Nat \ {0}, a < b
      PROVE  a * ListLimit <= (b - 1) * ListLimit
  BY <1>1, <1>2, Z3
<1>3. n \in 1 .. total + 1
  <2> SUFFICES ASSUME n > total + 1 PROVE FALSE
    OBVIOUS
  <2>1. (n - 1) * ListLimit >= n - 1
    BY <1>1, Z3
  <2>2. (n - 1) * ListLimit \in Nat /\ (n - 1) * ListLimit < total
    BY <1>1
  <2> QED
    BY <2>1, <2>2
<1>4. ASSUME NEW m \in 1 .. total + 1, Enough(m) PROVE m = n
  <2>1. m * ListLimit \in Nat /\ n * ListLimit \in Nat
    BY <1>1, SMTT(30)
  <2>2. (m - 1) * ListLimit \in Nat /\ (n - 1) * ListLimit \in Nat
    BY <1>1, SMTT(30)
  <2>3. ~(m < n)
    BY <1>2, <1>4, <2>1, <2>2, SMTT(30)
  <2>4. ~(n < m)
    BY <1>2, <1>4, <2>1, <2>2, SMTT(30)
  <2> QED
    BY <2>3, <2>4
<1>5. Enough(n)
  OBVIOUS
<1>6. PagesFor(total) = CHOOSE m \in 1 .. total + 1 : Enough(m)
  BY DEF PagesFor
<1> HIDE DEF Enough
<1> QED
  BY <1>3, <1>4, <1>5, <1>6, SMTT(30)

\* The feed and the page agree with it.
LEMMA PagesAgree ==
  ASSUME NEW total \in Nat
  PROVE  FragmentPages(total) = PagesFor(total) /\ HandlerPages(total) = PagesFor(total)
<1> DEFINE x == total + ListLimit - 1
           q == x \div ListLimit
<1>1. ListLimit \in Nat \ {0} /\ x \in Nat
  BY ListAssumption
<1>2. q \in Nat /\ x = ListLimit * q + (x % ListLimit) /\ x % ListLimit < ListLimit /\ x % ListLimit \in Nat
  BY <1>1
<1>3. TotalPages(total, ListLimit) = q
  BY DEF TotalPages
<1>4. HandlerPages(total) = IF total > ListLimit THEN q ELSE 1
  BY DEF HandlerPages
<1>5. FragmentPages(total) = IF q < 1 THEN 1 ELSE q
  BY <1>3 DEF FragmentPages
<1>6. x - ListLimit = total - 1
  BY <1>1, SMTT(30)
<1> HIDE DEF q, x
<1>7. q * ListLimit >= total /\ (q - 1) * ListLimit < total
  <2>1. q * ListLimit = ListLimit * q /\ (q - 1) * ListLimit = ListLimit * q - ListLimit
    BY <1>1, <1>2, Z3
  <2>2. ListLimit * q \in Nat
    BY <1>1, <1>2
  <2> QED
    BY <1>1, <1>2, <1>6, <2>1, <2>2, SMTT(30)
<1>8. total > ListLimit => q >= 1
  BY <1>1, <1>2, <1>7
<1>9. q >= 1 => PagesFor(total) = q
  BY <1>2, <1>7, OnePagesFor, SMTT(30)
<1>10. total <= ListLimit => PagesFor(total) = 1
  BY <1>1, OnePagesFor, SMTT(30)
<1>11. q < 1 => total <= ListLimit
  BY <1>1, <1>2, <1>8, SMTT(30)
<1> QED
  BY <1>1, <1>2, <1>4, <1>5, <1>8, <1>9, <1>10, <1>11, SMTT(30)

\* The first page of a list has its newest jobs.
LEMMA FirstPage ==
  ASSUME NEW t, NEW f, NEW limit \in Nat, IsFiniteSet(Matching(t, f)), Matching(t, f) \subseteq Nat
  PROVE  SelectJobs(t, f, 1, limit) = Newest(Matching(t, f), limit)
<1> DEFINE ids == Matching(t, f)
<1>1. ASSUME NEW i \in ids
      PROVE  Rank(i, ids) \in Nat /\ Cardinality({j \in ids : j >= i}) = Rank(i, ids) + 1
  <2> DEFINE A == {j \in ids : j > i}
  <2>1. {j \in ids : j >= i} = A \cup {i} /\ i \notin A
    OBVIOUS
  <2>2. IsFiniteSet(A)
    BY FS_Subset, SMTT(30)
  <2> HIDE DEF A
  <2>3. Cardinality(A \cup {i}) = Cardinality(A) + 1 /\ Cardinality(A) \in Nat
    BY <2>1, <2>2, FS_AddElement, FS_CardinalityType, SMTT(30)
  <2> QED
    BY <2>1, <2>3, SMTT(30) DEF Rank, A
<1>2. SelectJobs(t, f, 1, limit) = {i \in ids : (1 - 1) * limit <= Rank(i, ids) /\ Rank(i, ids) < 1 * limit}
  BY DEF SelectJobs
<1>3. Newest(ids, limit) = {i \in ids : Cardinality({j \in ids : j >= i}) <= limit}
  BY DEF Newest
<1>4. ASSUME NEW i \in ids
      PROVE  ((1 - 1) * limit <= Rank(i, ids) /\ Rank(i, ids) < 1 * limit)
               <=> Cardinality({j \in ids : j >= i}) <= limit
  <2>1. (1 - 1) * limit = 0 /\ 1 * limit = limit
    OBVIOUS
  <2> QED
    BY <1>1, <2>1, SMTT(30)
<1> HIDE DEF ids
<1>5. SelectJobs(t, f, 1, limit) = Newest(ids, limit)
  BY <1>2, <1>3, <1>4, Zenon
<1> QED
  BY <1>5, SMTT(30) DEF ids

\* The feed and the page ask for the first page of all jobs.
Unfiltered(x) ==
  /\ DOMAIN x = {"step", "filter", "page", "total", "html"}
  /\ x.filter = <<>> /\ x.page = 1 /\ x.total \in Nat

RenderInv ==
  /\ DOMAIN render = {"feed", "page", "list"}
  /\ Unfiltered(render["feed"]) /\ Unfiltered(render["page"])

\* A feed or a page that is idle or begins anew asks for the first page of all jobs.
LEMMA UnfilteredStarts == Unfiltered(Idle) /\ Unfiltered(Begun(<<>>, 1))
  BY DEF Unfiltered, Idle, Begun

\* Going from fragment to fragment changes nothing that it asks for.
LEMMA UnfilteredGoesOn ==
  ASSUME NEW x, Unfiltered(x), NEW n, NEW html, NEW total \in Nat
  PROVE  /\ Unfiltered([x EXCEPT !.step = n])
         /\ Unfiltered([x EXCEPT !.step = n, !.html = html])
         /\ Unfiltered([x EXCEPT !.step = n, !.total = total])
  BY DEF Unfiltered

\* A step that changes one of the three keeps the invariant if what it makes of
\* the feed or the page is unfiltered.
LEMMA RenderReplaced ==
  ASSUME RenderInv, NEW r \in {"feed", "page", "list"}, NEW x, r # "list" => Unfiltered(x),
         render' = [render EXCEPT ![r] = x]
  PROVE  RenderInv'
  BY Zenon DEF RenderInv

\* Collecting a fragment keeps the invariant of the rendering.
LEMMA CollectKeeps ==
  ASSUME RenderInv, NEW r \in DOMAIN Steps, NEW fragment, NEW content, Collect(r, fragment, content)
  PROVE  RenderInv'
<1> DEFINE x == [render[r] EXCEPT !.step = render[r].step + 1,
                                  !.html = With(render[r].html, fragment, content)]
<1>1. r \in {"feed", "page", "list"}
  BY DEF Steps
<1>2. render' = [render EXCEPT ![r] = x]
  BY <1>1, Zenon DEF Collect, RenderInv
<1>3. r # "list" => Unfiltered(render[r])
  BY <1>1 DEF RenderInv
<1>4. r # "list" => Unfiltered(x)
  BY <1>3, UnfilteredGoesOn, Zenon
<1> HIDE DEF x
<1> QED
  BY <1>1, <1>2, <1>4, RenderReplaced, ZenonT(60)

\* So does each fragment that is rendered,
LEMMA RenderKeeps ==
  ASSUME WalkInv, RenderInv, NEW r \in DOMAIN Steps, Render(r) PROVE RenderInv'
<1>1. r \in {"feed", "page", "list"}
  BY DEF Steps
<1>2. CASE RenderStatsFragment(r)
  BY <1>2, CollectKeeps, Zenon DEF RenderStatsFragment
<1>3. CASE RenderJobListFragment(r)
  <2>1. CASE Step(r) = "jobs" /\ Collect(r, "jobs", JobList(r, ListPage(r)))
    BY <2>1, CollectKeeps, Zenon
  <2>2. CASE render' = [render EXCEPT ![r].step = @ + 1,
                                        ![r].total = CountJobs(jobs, render[r].filter)]
    <3> DEFINE total == CountJobs(jobs, render[r].filter)
               x == [render[r] EXCEPT !.step = render[r].step + 1, !.total = total]
    <3>1. total \in Nat
      BY MatchingFinite DEF WalkInv, TableShape, CountJobs
    <3>2. r # "list" => Unfiltered(render[r])
      BY <1>1 DEF RenderInv
    <3> HIDE DEF total
    <3>3. r # "list" => Unfiltered(x)
      BY <3>1, <3>2, UnfilteredGoesOn, ZenonT(60)
    <3>4. render' = [render EXCEPT ![r] = x]
      BY <1>1, <2>2, ZenonT(60) DEF RenderInv, total
    <3> HIDE DEF x
    <3> QED
      BY <1>1, <3>3, <3>4, RenderReplaced, ZenonT(60)
  <2> QED
    BY <1>3, <2>1, <2>2, Zenon DEF RenderJobListFragment
<1>4. CASE RenderDLQFragment(r)
  BY <1>4, CollectKeeps, Zenon DEF RenderDLQFragment
<1>5. CASE RenderChartDataFragment(r)
  BY <1>5, CollectKeeps, Zenon DEF RenderChartDataFragment
<1> QED
  BY <1>2, <1>3, <1>4, <1>5, ZenonT(60) DEF Render

\* each whose query fails,
LEMMA FailsKeeps == ASSUME RenderInv, NEW r \in DOMAIN Steps, RenderFails(r) PROVE RenderInv'
<1> DEFINE fragment == IF Step(r) = "count" THEN "jobs" ELSE Step(r)
           after == render[r].step + (IF Step(r) = "count" THEN 2 ELSE 1)
           html == With(render[r].html, fragment, Missing[fragment])
<1>1. r \in {"feed", "page", "list"}
  BY DEF Steps
<1>2. render' = [render EXCEPT ![r] =
           CASE r = "feed" -> [@ EXCEPT !.step = after]
             [] r = "page" -> [@ EXCEPT !.step = after, !.html = html]
             [] OTHER -> Idle]
  BY Zenon DEF RenderFails
<1> HIDE DEF fragment, after, html
<1>3. CASE r = "feed"
  <2>1. render' = [render EXCEPT ![r] = [render[r] EXCEPT !.step = after]]
    BY <1>2, <1>3
  <2>2. Unfiltered([render[r] EXCEPT !.step = after])
    BY <1>3, UnfilteredGoesOn, Zenon DEF RenderInv, Unfiltered
  <2> QED
    BY <1>1, <2>1, <2>2, RenderReplaced, ZenonT(60)
<1>4. CASE r = "page"
  <2>1. render' = [render EXCEPT ![r] = [render[r] EXCEPT !.step = after, !.html = html]]
    BY <1>2, <1>4
  <2>2. Unfiltered([render[r] EXCEPT !.step = after, !.html = html])
    BY <1>4, UnfilteredGoesOn, Zenon DEF RenderInv, Unfiltered
  <2> QED
    BY <1>1, <2>1, <2>2, RenderReplaced, ZenonT(60)
<1>5. CASE r = "list"
  <2>1. render' = [render EXCEPT ![r] = Idle]
    BY <1>2, <1>5
  <2> QED
    BY <1>1, <1>5, <2>1, RenderReplaced, Zenon
<1> QED
  BY <1>1, <1>3, <1>4, <1>5, SMTT(30)

\* and each whose rows are cut short.
LEMMA CutRenderKeeps == ASSUME RenderInv, NEW r \in DOMAIN Steps, RenderCut(r) PROVE RenderInv'
  BY CollectKeeps, Zenon DEF RenderCut

\* What the browser, the feed and the handlers do keeps it too.
LEMMA TabKeeps == ASSUME WalkInv, RenderInv, TabNext PROVE RenderInv'
<1>1. "feed" \in DOMAIN Steps /\ "page" \in DOMAIN Steps /\ "list" \in DOMAIN Steps
  BY DEF Steps
<1>2. CASE ReceiveEvent \/ TickerFires
  BY <1>2, UnfilteredStarts, RenderReplaced, Zenon DEF ReceiveEvent, TickerFires
<1>3. CASE Broadcast
  BY <1>3, UnfilteredStarts, RenderReplaced, Zenon DEF Broadcast
<1>4. CASE PageShown
  BY <1>4, UnfilteredStarts, RenderReplaced, Zenon DEF PageShown
<1>5. CASE ListShown
  BY <1>5, RenderReplaced, Zenon DEF ListShown
<1>6. ASSUME NEW f, NEW p, AskList(f, p) PROVE RenderInv'
  BY <1>6, RenderReplaced, Zenon DEF AskList
<1>7. CASE TabStep \/ ConnectionBreaks
  BY <1>7, Zenon DEF TabStep, Connect, Receive, ConnectionBreaks, RenderInv
<1> QED
  BY <1>1, <1>2, <1>3, <1>4, <1>5, <1>6, <1>7, RenderKeeps, FailsKeeps, CutRenderKeeps, ZenonT(60)
     DEF TabNext, FeedStep, PageStep, ListStep

\* The feed and the page never ask for anything but the first page of all jobs.
LEMMA RenderInvariant == Spec => []RenderInv
<1>1. Init => RenderInv
  <2> HAVE Init
  <2>1. render = [feed |-> Idle, page |-> Begun(<<>>, 1), list |-> Idle]
    BY DEF Init
  <2>2. DOMAIN render = {"feed", "page", "list"} /\ render["feed"] = Idle /\ render["page"] = Begun(<<>>, 1)
    BY <2>1
  <2> QED
    BY <2>2, UnfilteredStarts, ZenonT(60) DEF RenderInv
<1>2. WalkInv /\ RenderInv /\ [Next]_vars => RenderInv'
  <2> HAVE WalkInv /\ RenderInv /\ [Next]_vars
  <2>1. CASE render' = render
    BY <2>1 DEF RenderInv
  <2> QED
    BY <2>1, TabKeeps, Zenon DEF Next, Write, vars, tabVars
<1> QED
  BY <1>1, <1>2, WalkInvariant, PTL DEF Spec

\* What a statement has added to the fragments.
LEMMA Collected ==
  ASSUME RenderInv, NEW r \in {"feed", "page"}, NEW fragment, NEW content, Collect(r, fragment, content)
  PROVE  render'[r].html[fragment] = content
<1>1. r \in DOMAIN render /\ DOMAIN render[r] = {"step", "filter", "page", "total", "html"}
  BY DEF RenderInv, Unfiltered
<1>2. render'[r].html = With(render[r].html, fragment, content)
  BY <1>1, Zenon DEF Collect
<1> QED
  BY <1>2, Zenon DEF With

\* The fragment that a step renders.
LEMMA FragmentExact ==
  ASSUME WalkInv, StatsExact, ChartExact, RenderInv,
         NEW r \in {"feed", "page"}, Render(r), Step(r) # "count"
  PROVE  render'[r].html[Step(r)] =
           [Shown(jobs, now) EXCEPT !.jobs = ShownList(jobs, render[r].total)][Step(r)]
<1> DEFINE dead == {i \in DOMAIN jobs : jobs[i].status = "dead"}
           shown == [Shown(jobs, now) EXCEPT !.jobs = ShownList(jobs, render[r].total)]
<1>1. /\ shown["stats"] = StatusCounts(jobs)
      /\ shown["jobs"] = ShownList(jobs, render[r].total)
      /\ shown["dlq"] = Rows(jobs, Newest(dead, DLQLimit))
      /\ shown["chart"] = ChartOf(jobs, now)
  BY DEF Shown
<1>2. IsFiniteSet(DOMAIN jobs) /\ DOMAIN jobs \subseteq Nat
  BY DEF WalkInv, TableShape
<1> HIDE DEF shown
<1>3. CASE RenderStatsFragment(r)
  <2>1. PICK stats \in GetQueueStats(jobs) : Step(r) = "stats" /\ Collect(r, "stats", Totals(stats))
    BY <1>3, Zenon DEF RenderStatsFragment
  <2>2. Totals(stats) = StatusCounts(jobs)
    BY Zenon DEF StatsExact
  <2> QED
    BY <1>1, <2>1, <2>2, Collected, Zenon DEF shown
<1>4. CASE RenderJobListFragment(r)
  <2>1. Step(r) = "jobs" /\ Collect(r, "jobs", JobList(r, ListPage(r)))
    BY <1>4, ZenonT(60) DEF RenderJobListFragment
  <2>2. render[r].filter = <<>> /\ render[r].page = 1 /\ render[r].total \in Nat
    BY DEF RenderInv, Unfiltered
  <2>3. Matching(jobs, <<>>) = DOMAIN jobs
    BY SMTT(30) DEF Matching
  <2>4. ListPage(r) = Newest(DOMAIN jobs, ListLimit)
    BY <1>2, <2>2, <2>3, FirstPage, ListAssumption, SMTT(30) DEF ListPage
  <2>5. JobList(r, ListPage(r)) = ShownList(jobs, render[r].total)
    BY <2>2, <2>4, PagesAgree, Zenon DEF JobList, ShownList
  <2> QED
    BY <1>1, <2>1, <2>5, Collected, Zenon DEF shown
<1>5. CASE RenderDLQFragment(r)
  <2>1. Step(r) = "dlq" /\ Collect(r, "dlq", Rows(jobs, DLQPage))
    BY <1>5, Zenon DEF RenderDLQFragment
  <2>2. Matching(jobs, DeadFilter) = dead
    BY DEF Matching, DeadFilter
  <2>3. IsFiniteSet(dead) /\ dead \subseteq Nat
    BY <1>2, FS_Subset
  <2> HIDE DEF dead
  <2>4. DLQPage = Newest(dead, DLQLimit)
    BY <2>2, <2>3, FirstPage, ListAssumption, Zenon DEF DLQPage
  <2> QED
    BY <1>1, <2>1, <2>4, Collected, Zenon DEF shown
<1>6. CASE RenderChartDataFragment(r)
  <2>1. PICK stats \in GetTimeSeries(jobs, now) : Step(r) = "chart" /\ Collect(r, "chart", buildChartData(stats))
    BY <1>6, Zenon DEF RenderChartDataFragment
  <2>2. buildChartData(stats) = ChartOf(jobs, now)
    BY Zenon DEF ChartExact
  <2> QED
    BY <1>1, <2>1, <2>2, Collected, Zenon DEF shown
<1> QED
  BY <1>3, <1>4, <1>5, <1>6, Zenon DEF Render

(* What a statement of the subscriber or of DashboardPageHandler adds to   *)
(* the fragments is what the tab should show of the table at that instant, *)
(* for every table, limit and number of writes: the sums, the newest jobs  *)
(* with the right number of pages, the newest dead jobs, the chart.        *)
THEOREM RenderExactHolds == Spec => RenderExact
<1>1. WalkInv /\ StatsExact /\ ChartExact /\ RenderInv =>
        \A r \in {"feed", "page"} : Render(r) /\ Step(r) # "count" =>
          render'[r].html[Step(r)] = [Shown(jobs, now) EXCEPT !.jobs = ShownList(jobs, render[r].total)][Step(r)]
  BY FragmentExact, Zenon
<1> QED
  BY <1>1, WalkInvariant, StatsExactHolds, ChartExactHolds, RenderInvariant, PTL DEF RenderExact
=============================================================================
