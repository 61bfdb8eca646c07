---------------------------- MODULE Statistics -----------------------------
(***************************************************************************)
(* What the statistics of the API and the dashboard's page and fragments   *)
(* make of the table: the grouping statements of internal/storage/         *)
(* postgres.go, the loops of internal/api/handler.go and internal/         *)
(* dashboard over their rows, and the counts they should come to.          *)
(***************************************************************************)
EXTENDS Integers, Sequences, FiniteSets, Functions

CONSTANTS Minute,        \* ticks in a minute
          Hour,          \* ticks in the hour of the chart
          Day            \* minutes in a day

ASSUME ChartAssumption ==
  /\ Minute \in Nat \ {0} /\ Hour \in Nat /\ Day \in Nat
  /\ Hour % Minute = 0 /\ Hour \div Minute + 1 <= Day

Status == {"pending", "scheduled", "running", "completed", "failed", "retrying", "dead", "cancelled"}
Plotted == {"completed", "failed", "dead"}

----------------------------------------------------------------------------
(* The grouping statements.  Rows come in any order that ORDER BY leaves   *)
(* open: the groups of a queue follow each other, buckets are ascending.   *)
InAnyOrder(rows) == Bijection(1 .. Cardinality(rows), rows)

QueueStat(table, ids) ==
  {[queue |-> table[i].queue, status |-> table[i].status,
    count |-> Cardinality({j \in ids : /\ table[j].queue = table[i].queue
                                       /\ table[j].status = table[i].status})] : i \in ids}

GetQueueStats(table) ==
  {stats \in InAnyOrder(QueueStat(table, DOMAIN table)) :
     \A i, j, k \in DOMAIN stats :
       i < j /\ j < k /\ stats[i].queue = stats[k].queue => stats[j].queue = stats[i].queue}

GetQueueStatsByName(table, queue) ==
  InAnyOrder(QueueStat(table, {i \in DOMAIN table : table[i].queue = queue}))

Recent(table, time) ==
  {i \in DOMAIN table : table[i].updated > time - Hour /\ table[i].status \in Plotted}

Bucket(table, id) == table[id].updated \div Minute

InBucket(table, time, bucket, status) ==
  {i \in Recent(table, time) : Bucket(table, i) = bucket /\ table[i].status = status}

TimeStat(table, time) ==
  {[bucket |-> Bucket(table, i), status |-> table[i].status,
    count |-> Cardinality(InBucket(table, time, Bucket(table, i), table[i].status))] :
     i \in Recent(table, time)}

GetTimeSeries(table, time) ==
  {stats \in InAnyOrder(TimeStat(table, time)) :
     \A i, j \in DOMAIN stats : i < j => stats[i].bucket <= stats[j].bucket}

----------------------------------------------------------------------------
(* The aggregations: after[n] is the map after n turns of the loop over    *)
(* the rows.  A key that a map lacks reads as 0.                           *)
NoCounts == [s \in Status |-> 0]

\* Mutant: a later queue overwrites the count of an earlier one.
TotalsOfLast(stats) ==
  LET after[n \in 0 .. Len(stats)] ==
        IF n = 0 THEN NoCounts
                 ELSE [after[n - 1] EXCEPT ![stats[n].status] = stats[n].count]
  IN  after[Len(stats)]

\* GetStats, RenderStatsFragment and the page.
Totals(stats) ==
  LET after[n \in 0 .. Len(stats)] ==
        IF n = 0 THEN NoCounts
                 ELSE [after[n - 1] EXCEPT ![stats[n].status] = @ + stats[n].count]
  IN  after[Len(stats)]

GetQueues(stats) ==
  LET after[n \in 0 .. Len(stats)] ==
        IF n = 0 THEN [q \in {s.queue : s \in Range(stats)} |-> NoCounts]
                 ELSE [after[n - 1] EXCEPT ![stats[n].queue][stats[n].status] = stats[n].count]
  IN  after[Len(stats)]

GetQueueByName(stats) ==
  LET after[n \in 0 .. Len(stats)] ==
        IF n = 0 THEN NoCounts
                 ELSE [after[n - 1] EXCEPT ![stats[n].status] = stats[n].count]
  IN  after[Len(stats)]

\* Mutant: the label has the minutes only.
LabelOfMinute(bucket) == bucket % (Hour \div Minute)

\* Bucket.Format("15:04").
Label(bucket) == bucket % Day

NoPoints == [s \in Plotted |-> 0]

AddPoint(chart, s) ==
  LET label == Label(s.bucket)
      known == label \in DOMAIN chart.points
      point == IF known THEN chart.points[label] ELSE NoPoints
  IN  [labels |-> IF known THEN chart.labels ELSE Append(chart.labels, label),
       points |-> [l \in DOMAIN chart.points \cup {label} |->
                     IF l = label THEN [point EXCEPT ![s.status] = @ + s.count]
                                  ELSE chart.points[l]]]

EmptyChart == [labels |-> <<>>, points |-> <<>>]

buildChartData(stats) ==
  LET after[n \in 0 .. Len(stats)] ==
        IF n = 0 THEN EmptyChart ELSE AddPoint(after[n - 1], stats[n])
  IN  after[Len(stats)]

----------------------------------------------------------------------------
(* The same counts, stated without the code's loops.                       *)
CountOf(table, P(_)) == Cardinality({i \in DOMAIN table : P(table[i])})

StatusCounts(table) == [s \in Status |-> CountOf(table, LAMBDA row : row.status = s)]

QueueStatusCounts(table, q) ==
  [s \in Status |-> CountOf(table, LAMBDA row : row.queue = q /\ row.status = s)]

Ascending(numbers) ==
  {f \in InAnyOrder(numbers) : \A j, k \in DOMAIN f : j < k => f[j] < f[k]}

ChartOf(table, time) ==
  LET minutes == {Bucket(table, i) : i \in Recent(table, time)}
      order == CHOOSE f \in Ascending(minutes) : TRUE
      label == [m \in minutes |-> m % Day]
  IN  [labels |-> [k \in DOMAIN order |-> label[order[k]]],
       points |-> [l \in {label[m] : m \in minutes} |->
                     [s \in Plotted |-> Cardinality(InBucket(table, time,
                                          CHOOSE m \in minutes : label[m] = l, s))]]]
=============================================================================
