-------------------------- MODULE StatisticsProofs --------------------------
(***************************************************************************)
(* The loops over the rows of the grouping statements come to the counts   *)
(* of the table, for every table and every order of the rows.  Each loop   *)
(* is compared with the closed form of what it has after n turns: the form *)
(* satisfies the equation of the loop, and two functions that satisfy it   *)
(* agree after each turn.                                                  *)
(***************************************************************************)
EXTENDS Statistics, TLAPS, FiniteSetTheorems

\* What holds before the loop and is kept by each turn holds after it.
LEMMA EveryTurn ==
  ASSUME NEW N \in Nat, NEW S, 0 \in S, \A n \in 0 .. N - 1 : n \in S => n + 1 \in S
  PROVE  \A n \in 0 .. N : n \in S
<1> DEFINE T == (0 .. N) \ S
           R == {ss \in Nat \X Nat : ss[1] < ss[2]}
<1> SUFFICES ASSUME T # {} PROVE FALSE
  OBVIOUS
<1>1. PICK x \in T : \A y \in T : ~(<<y, x>> \in R)
  <2>1. IsWellFoundedOn(R, Nat)
    BY NatLessThanWellFounded, Zenon DEF OpToRel
  <2>2. T \subseteq Nat
    OBVIOUS
  <2> HIDE DEF T, R
  <2> QED
    BY <2>1, <2>2, WFMin, Zenon
<1>2. x \in 1 .. N /\ x - 1 \in 0 .. N - 1
  OBVIOUS
<1>3. x - 1 \in S
  <2>1. <<x - 1, x>> \in R
    BY <1>2
  <2> QED
    BY <1>1, <1>2, <2>1
<1> QED
  BY <1>1, <1>2, <1>3


\* Two functions that agree before the loop and stay together in each of its
\* turns agree after it.
LEMMA SameLoop ==
  ASSUME NEW N \in Nat, NEW f, NEW g, f[0] = g[0],
         \A n \in 1 .. N : f[n - 1] = g[n - 1] => f[n] = g[n]
  PROVE  f[N] = g[N]
<1> DEFINE S == {n \in 0 .. N : f[n] = g[n]}
<1>1. 0 \in S
  OBVIOUS
<1>2. ASSUME NEW n \in 0 .. N - 1, n \in S PROVE n + 1 \in S
  <2>1. n + 1 \in 1 .. N /\ (n + 1) - 1 = n
    OBVIOUS
  <2> QED
    BY <1>2, <2>1
<1> HIDE DEF S
<1>3. N \in S
  BY <1>1, <1>2, EveryTurn
<1> QED
  BY <1>3 DEF S

\* The jobs that a row of a grouping statement stands for.
Group(table, ids, q, s) == {j \in ids : table[j].queue = q /\ table[j].status = s}

\* GROUP BY queue, status: each group has one row, with its size.
LEMMA StatRows ==
  ASSUME NEW table, NEW ids, IsFiniteSet(ids),
         NEW stats \in InAnyOrder(QueueStat(table, ids))
  PROVE  /\ Len(stats) \in Nat /\ DOMAIN stats = 1 .. Len(stats)
         /\ \A n \in 1 .. Len(stats) :
              stats[n].count = Cardinality(Group(table, ids, stats[n].queue, stats[n].status))
         /\ \A m, n \in 1 .. Len(stats) :
              stats[m].queue = stats[n].queue /\ stats[m].status = stats[n].status => m = n
         /\ \A i \in ids : \E n \in 1 .. Len(stats) :
              stats[n].queue = table[i].queue /\ stats[n].status = table[i].status
         /\ \A n \in 1 .. Len(stats) : \E i \in ids :
              stats[n].queue = table[i].queue /\ stats[n].status = table[i].status
<1> DEFINE rows == QueueStat(table, ids)
           row == [i \in ids |-> [queue |-> table[i].queue, status |-> table[i].status,
                     count |-> Cardinality(Group(table, ids, table[i].queue, table[i].status))]]
           N == Cardinality(rows)
<1>1. rows = {row[i] : i \in ids}
  BY DEF QueueStat, Group
<1>2. N \in Nat
  <2>1. row \in Surjection(ids, rows)
    BY <1>1 DEF Surjection
  <2>2. IsFiniteSet(rows)
    BY <2>1, FS_Surjection
  <2> QED
    BY <2>2, FS_CardinalityType
<1> HIDE DEF rows
<1>3. /\ stats \in [1 .. N -> rows]
      /\ \A m, n \in 1 .. N : stats[m] = stats[n] => m = n
      /\ \A r \in rows : \E n \in 1 .. N : stats[n] = r
  BY SMTT(30) DEF InAnyOrder, Bijection, Injection, Surjection, IsInjective, rows
<1> HIDE DEF N
<1>4. Len(stats) = N /\ DOMAIN stats = 1 .. N
  BY <1>2, <1>3
<1>5. ASSUME NEW n \in 1 .. N PROVE \E i \in ids : stats[n] = row[i]
  BY <1>1, <1>3
<1>6. ASSUME NEW i \in ids
      PROVE  /\ row[i].queue = table[i].queue /\ row[i].status = table[i].status
             /\ row[i].count = Cardinality(Group(table, ids, row[i].queue, row[i].status))
  OBVIOUS
<1>7. ASSUME NEW i \in ids, NEW j \in ids, row[i].queue = row[j].queue, row[i].status = row[j].status
      PROVE  row[i] = row[j]
  BY <1>7
<1> HIDE DEF row
<1>8. ASSUME NEW m \in 1 .. N, NEW n \in 1 .. N, stats[m].queue = stats[n].queue,
             stats[m].status = stats[n].status
      PROVE  m = n
  BY <1>3, <1>5, <1>7, <1>8
<1>9. ASSUME NEW i \in ids
      PROVE  \E n \in 1 .. N : stats[n].queue = table[i].queue /\ stats[n].status = table[i].status
  <2>1. row[i] \in rows
    BY <1>1
  <2>2. PICK n \in 1 .. N : stats[n] = row[i]
    BY <1>3, <2>1
  <2> QED
    BY <1>6, <2>2
<1>10. ASSUME NEW n \in 1 .. N
       PROVE  /\ stats[n].count = Cardinality(Group(table, ids, stats[n].queue, stats[n].status))
              /\ \E i \in ids : stats[n].queue = table[i].queue /\ stats[n].status = table[i].status
  <2>1. PICK i \in ids : stats[n] = row[i]
    BY <1>5, Zenon
  <2> QED
    BY <1>6, <2>1
<1> QED
  BY <1>2, <1>4, <1>8, <1>9, <1>10, Zenon

\* The loop of GetStats and of the dashboard adds up the groups of a status.
LEMMA TotalsCount ==
  ASSUME NEW table, NEW ids, IsFiniteSet(ids),
         NEW stats \in InAnyOrder(QueueStat(table, ids))
  PROVE  Totals(stats) = [s \in Status |-> Cardinality({i \in ids : table[i].status = s})]
<1> DEFINE N == Len(stats)
           Done(n, s) == {i \in ids : /\ table[i].status = s
                                      /\ \E k \in 1 .. n : /\ stats[k].queue = table[i].queue
                                                           /\ stats[k].status = table[i].status}
           sum == [n \in 0 .. N |-> [s \in Status |-> Cardinality(Done(n, s))]]
           Body(f) == [n \in 0 .. N |->
                         IF n = 0 THEN NoCounts
                                  ELSE [f[n - 1] EXCEPT ![stats[n].status] = @ + stats[n].count]]
           after == CHOOSE f : f = Body(f)
<1>1. /\ N \in Nat
      /\ \A n \in 1 .. N : stats[n].count = Cardinality(Group(table, ids, stats[n].queue, stats[n].status))
      /\ \A m, n \in 1 .. N :
           stats[m].queue = stats[n].queue /\ stats[m].status = stats[n].status => m = n
      /\ \A i \in ids : \E n \in 1 .. N :
           stats[n].queue = table[i].queue /\ stats[n].status = table[i].status
  BY StatRows
<1> HIDE DEF N
<1>a. N \in Nat
  BY <1>1
<1>2. ASSUME NEW n, NEW s PROVE IsFiniteSet(Done(n, s)) /\ Cardinality(Done(n, s)) \in Nat
  <2>1. Done(n, s) \subseteq ids
    OBVIOUS
  <2> QED
    BY <2>1, FS_Subset, FS_CardinalityType
<1>3. sum[0] = NoCounts
  <2>1. ASSUME NEW s \in Status PROVE Cardinality(Done(0, s)) = 0
    <3>1. Done(0, s) = {}
      OBVIOUS
    <3> QED
      BY <3>1, FS_EmptySet
  <2> HIDE DEF Done
  <2>2. sum[0] = [s \in Status |-> Cardinality(Done(0, s))]
    BY <1>1
  <2> HIDE DEF sum
  <2> QED
    BY <2>1, <2>2 DEF NoCounts
<1>4. ASSUME NEW n \in 1 .. N
      PROVE  sum[n] = [sum[n - 1] EXCEPT ![stats[n].status] = @ + stats[n].count]
  <2> DEFINE r == stats[n]
             G == Group(table, ids, r.queue, r.status)
  <2>1. n \in 0 .. N /\ n - 1 \in 0 .. N
    BY <1>a
  <2>2. \A k : k \in 1 .. n <=> k = n \/ k \in 1 .. (n - 1)
    BY <1>a
  <2>3. ASSUME NEW s, s # r.status PROVE Done(n, s) = Done(n - 1, s)
    BY <2>2, <2>3
  <2>4. Done(n, r.status) = Done(n - 1, r.status) \cup G
    BY <2>2 DEF Group
  <2>5. Done(n - 1, r.status) \cap G = {}
    BY <1>1, <2>1 DEF Group
  <2>6. IsFiniteSet(G) /\ Cardinality(G) \in Nat
    BY FS_Subset, FS_CardinalityType DEF Group
  <2> HIDE DEF G, Done
  <2>7. Cardinality(Done(n, r.status)) = Cardinality(Done(n - 1, r.status)) + Cardinality(G)
    <3>1. Cardinality(Done(n - 1, r.status) \cap G) = 0
      BY <2>5, FS_EmptySet
    <3>2. Cardinality(Done(n - 1, r.status) \cup G) =
             Cardinality(Done(n - 1, r.status)) + Cardinality(G) - Cardinality(Done(n - 1, r.status) \cap G)
      BY <1>2, <2>6, FS_Union, Zenon
    <3> QED
      BY <1>2, <2>4, <2>6, <3>1, <3>2
  <2>8. r.count = Cardinality(G)
    BY <1>1 DEF G
  <2> HIDE DEF r
  <2>9. sum[n] = [sum[n - 1] EXCEPT ![r.status] = @ + r.count]
    BY <2>1, <2>3, <2>7, <2>8
  <2> QED
    BY <2>9 DEF r
<1>5. sum = Body(sum)
  <2>1. sum = [n \in 0 .. N |-> sum[n]]
    OBVIOUS
  <2> HIDE DEF sum
  <2>2. ASSUME NEW n \in 0 .. N
        PROVE  sum[n] = IF n = 0 THEN NoCounts
                                 ELSE [sum[n - 1] EXCEPT ![stats[n].status] = @ + stats[n].count]
    <3>1. n = 0 \/ n \in 1 .. N
      BY <1>a
    <3> QED
      BY <1>3, <1>4, <3>1
  <2> QED
    BY <2>1, <2>2, Zenon
<1> HIDE DEF sum
<1>6. after = Body(after)
  BY <1>5, Zenon
<1> HIDE DEF after
<1>7. after[N] = sum[N]
  <2>1. after[0] = sum[0]
    BY <1>1, <1>3, <1>6
  <2>2. ASSUME NEW n \in 1 .. N, after[n - 1] = sum[n - 1] PROVE after[n] = sum[n]
    <3>1. n \in 0 .. N /\ n # 0
      BY <1>a
    <3>2. after[n] = [after[n - 1] EXCEPT ![stats[n].status] = @ + stats[n].count]
      BY <1>6, <3>1, Zenon
    <3> QED
      BY <1>4, <2>2, <3>2, Zenon
  <2> QED
    BY <1>a, <2>1, <2>2, SameLoop, Zenon
<1>8. sum[N] = [s \in Status |-> Cardinality({i \in ids : table[i].status = s})]
  <2>1. ASSUME NEW s PROVE Done(N, s) = {i \in ids : table[i].status = s}
    BY <1>1
  <2> HIDE DEF Done
  <2>2. sum[N] = [s \in Status |-> Cardinality(Done(N, s))]
    BY <1>1, SMTT(30) DEF sum
  <2> QED
    BY <2>1, <2>2, Zenon
<1> QED
  BY <1>7, <1>8 DEF Totals, after, N

\* The loop of GetQueueByName writes each count where no other row does.
LEMMA ByNameCount ==
  ASSUME NEW table, NEW ids, IsFiniteSet(ids), NEW q, \A i \in ids : table[i].queue = q,
         NEW stats \in InAnyOrder(QueueStat(table, ids))
  PROVE  GetQueueByName(stats) = [s \in Status |-> Cardinality(Group(table, ids, q, s))]
<1> DEFINE N == Len(stats)
           Seen(n, s) == \E k \in 1 .. n : stats[k].status = s
           Count(s) == Cardinality(Group(table, ids, q, s))
           sum == [n \in 0 .. N |-> [s \in Status |-> IF Seen(n, s) THEN Count(s) ELSE 0]]
           Body(f) == [n \in 0 .. N |->
                         IF n = 0 THEN NoCounts
                                  ELSE [f[n - 1] EXCEPT ![stats[n].status] = stats[n].count]]
           after == CHOOSE f : f = Body(f)
<1>1. /\ N \in Nat
      /\ \A n \in 1 .. N : stats[n].queue = q /\ stats[n].count = Count(stats[n].status)
      /\ \A i \in ids : Seen(N, table[i].status)
  BY StatRows
<1> HIDE DEF N, Count
<1>a. N \in Nat
  BY <1>1
<1>2. sum[0] = NoCounts
  <2>1. sum[0] = [s \in Status |-> IF Seen(0, s) THEN Count(s) ELSE 0]
    BY <1>1
  <2>2. ASSUME NEW s PROVE ~Seen(0, s)
    OBVIOUS
  <2> HIDE DEF Seen, sum
  <2> QED
    BY <2>1, <2>2 DEF NoCounts
<1>3. ASSUME NEW n \in 1 .. N
      PROVE  sum[n] = [sum[n - 1] EXCEPT ![stats[n].status] = stats[n].count]
  <2>1. n \in 0 .. N /\ n - 1 \in 0 .. N
    BY <1>a
  <2>2. \A k : k \in 1 .. n <=> k = n \/ k \in 1 .. (n - 1)
    BY <1>a
  <2>3. ASSUME NEW s PROVE Seen(n, s) <=> (s = stats[n].status \/ Seen(n - 1, s))
    BY <2>2
  <2>4. /\ sum[n] = [s \in Status |-> IF Seen(n, s) THEN Count(s) ELSE 0]
        /\ sum[n - 1] = [s \in Status |-> IF Seen(n - 1, s) THEN Count(s) ELSE 0]
    BY <2>1
  <2> HIDE DEF Seen, sum
  <2> QED
    BY <1>1, <2>3, <2>4
<1>4. sum = Body(sum)
  <2>1. sum = [n \in 0 .. N |-> sum[n]]
    OBVIOUS
  <2> HIDE DEF sum
  <2>2. ASSUME NEW n \in 0 .. N
        PROVE  sum[n] = IF n = 0 THEN NoCounts
                                 ELSE [sum[n - 1] EXCEPT ![stats[n].status] = stats[n].count]
    <3>1. n = 0 \/ n \in 1 .. N
      BY <1>a
    <3> QED
      BY <1>2, <1>3, <3>1
  <2> QED
    BY <2>1, <2>2, Zenon
<1> HIDE DEF sum
<1>5. after = Body(after)
  BY <1>4, Zenon
<1> HIDE DEF after
<1>6. after[N] = sum[N]
  <2>1. after[0] = sum[0]
    BY <1>1, <1>2, <1>5
  <2>2. ASSUME NEW n \in 1 .. N, after[n - 1] = sum[n - 1] PROVE after[n] = sum[n]
    <3>1. n \in 0 .. N /\ n # 0
      BY <1>a
    <3>2. after[n] = [after[n - 1] EXCEPT ![stats[n].status] = stats[n].count]
      BY <1>5, <3>1, Zenon
    <3> QED
      BY <1>3, <2>2, <3>2, Zenon
  <2> QED
    BY <1>a, <2>1, <2>2, SameLoop, Zenon
<1>7. ASSUME NEW s, ~Seen(N, s) PROVE Count(s) = 0
  <2>1. Group(table, ids, q, s) = {}
    BY <1>1, <1>7 DEF Group
  <2> QED
    BY <2>1, FS_EmptySet DEF Count
<1> HIDE DEF Seen
<1>8. sum[N] = [s \in Status |-> IF Seen(N, s) THEN Count(s) ELSE 0]
  BY <1>a DEF sum
<1>9. sum[N] = [s \in Status |-> Count(s)]
  BY <1>7, <1>8, SMTT(30)
<1> QED
  BY <1>6, <1>9 DEF GetQueueByName, after, N, Count

QueueCounts(table, ids) ==
  [q \in {table[i].queue : i \in ids} |-> [s \in Status |-> Cardinality(Group(table, ids, q, s))]]

\* The loop of GetQueues does so in the map of the queue.
LEMMA QueuesCount ==
  ASSUME NEW table, NEW ids, IsFiniteSet(ids),
         NEW stats \in InAnyOrder(QueueStat(table, ids))
  PROVE  GetQueues(stats) = QueueCounts(table, ids)
<1> DEFINE N == Len(stats)
           Q == {s.queue : s \in Range(stats)}
           Seen(n, q, s) == \E k \in 1 .. n : stats[k].queue = q /\ stats[k].status = s
           Count(q, s) == Cardinality(Group(table, ids, q, s))
           At(n, q) == [s \in Status |-> IF Seen(n, q, s) THEN Count(q, s) ELSE 0]
           sum == [n \in 0 .. N |-> [q \in Q |-> At(n, q)]]
           Body(f) == [n \in 0 .. N |->
                         IF n = 0 THEN [q \in Q |-> NoCounts]
                                  ELSE [f[n - 1] EXCEPT ![stats[n].queue][stats[n].status] = stats[n].count]]
           after == CHOOSE f : f = Body(f)
<1>1. /\ N \in Nat
      /\ \A n \in 1 .. N : stats[n].queue \in Q /\ stats[n].count = Count(stats[n].queue, stats[n].status)
      /\ \A i \in ids : Seen(N, table[i].queue, table[i].status)
      /\ Q = {table[i].queue : i \in ids}
  <2>1. N \in Nat /\ DOMAIN stats = 1 .. N
    BY StatRows
  <2>2. Range(stats) = {stats[n] : n \in 1 .. N}
    BY <2>1 DEF Range
  <2>3. ASSUME NEW n \in 1 .. N PROVE stats[n].count = Count(stats[n].queue, stats[n].status)
    BY StatRows
  <2>4. ASSUME NEW i \in ids PROVE Seen(N, table[i].queue, table[i].status)
    BY StatRows
  <2>5. ASSUME NEW n \in 1 .. N PROVE \E i \in ids : stats[n].queue = table[i].queue
    BY StatRows
  <2> HIDE DEF N, Count
  <2>6. Q = {table[i].queue : i \in ids}
    BY <2>2, <2>4, <2>5
  <2> QED
    BY <2>1, <2>2, <2>3, <2>4, <2>6, Zenon
<1> HIDE DEF N, Q, Count
<1>a. N \in Nat
  BY <1>1
<1>2. sum[0] = [q \in Q |-> NoCounts]
  <2>1. sum[0] = [q \in Q |-> At(0, q)]
    BY <1>1
  <2>2. ASSUME NEW q, NEW s PROVE ~Seen(0, q, s)
    OBVIOUS
  <2> HIDE DEF Seen, sum
  <2>3. ASSUME NEW q PROVE At(0, q) = NoCounts
    BY <2>2, Zenon DEF NoCounts
  <2> HIDE DEF At
  <2> QED
    BY <2>1, <2>3
<1>3. ASSUME NEW n \in 1 .. N
      PROVE  sum[n] = [sum[n - 1] EXCEPT ![stats[n].queue][stats[n].status] = stats[n].count]
  <2> DEFINE p == stats[n].queue
             t == stats[n].status
  <2>1. n \in 0 .. N /\ n - 1 \in 0 .. N
    BY <1>a
  <2>2. \A k : k \in 1 .. n <=> k = n \/ k \in 1 .. (n - 1)
    BY <1>a
  <2>3. ASSUME NEW q, NEW s PROVE Seen(n, q, s) <=> (q = p /\ s = t) \/ Seen(n - 1, q, s)
    BY <2>2
  <2>4. sum[n] = [q \in Q |-> At(n, q)] /\ sum[n - 1] = [q \in Q |-> At(n - 1, q)]
    BY <2>1
  <2> HIDE DEF Seen, sum
  <2>5. ASSUME NEW q, q # p PROVE At(n, q) = At(n - 1, q)
    BY <2>3, <2>5
  <2>6. At(n, p) = [At(n - 1, p) EXCEPT ![t] = Count(p, t)]
    BY <2>3, Zenon
  <2> HIDE DEF At
  <2>7. stats[n].count = Count(p, t) /\ p \in Q
    BY <1>1
  <2> HIDE DEF p, t
  <2>8. sum[n] = [sum[n - 1] EXCEPT ![p] = [sum[n - 1][p] EXCEPT ![t] = Count(p, t)]]
    BY <2>4, <2>5, <2>6, <2>7
  <2> QED
    BY <2>7, <2>8 DEF p, t
<1>4. sum = Body(sum)
  <2>1. sum = [n \in 0 .. N |-> sum[n]]
    BY ZenonT(60)
  <2> HIDE DEF sum
  <2>2. ASSUME NEW n \in 0 .. N
        PROVE  sum[n] = IF n = 0 THEN [q \in Q |-> NoCounts]
                          ELSE [sum[n - 1] EXCEPT ![stats[n].queue][stats[n].status] = stats[n].count]
    <3>1. n = 0 \/ n \in 1 .. N
      BY <1>a
    <3> QED
      BY <1>2, <1>3, <3>1
  <2> QED
    BY <2>1, <2>2, Zenon
<1> HIDE DEF sum
<1>5. after = Body(after)
  BY <1>4, ZenonT(60)
<1> HIDE DEF after
<1>6. after[N] = sum[N]
  <2>1. after[0] = sum[0]
    BY <1>1, <1>2, <1>5
  <2>2. ASSUME NEW n \in 1 .. N, after[n - 1] = sum[n - 1] PROVE after[n] = sum[n]
    <3>1. n \in 0 .. N /\ n # 0
      BY <1>a
    <3>2. after[n] = [after[n - 1] EXCEPT ![stats[n].queue][stats[n].status] = stats[n].count]
      BY <1>5, <3>1, Zenon
    <3> QED
      BY <1>3, <2>2, <3>2, Zenon
  <2> QED
    BY <1>a, <2>1, <2>2, SameLoop, Zenon
<1>7. ASSUME NEW q, NEW s, ~Seen(N, q, s) PROVE Count(q, s) = 0
  <2>1. Group(table, ids, q, s) = {}
    BY <1>1, <1>7 DEF Group
  <2> QED
    BY <2>1, FS_EmptySet DEF Count
<1> HIDE DEF Seen
<1>8. sum[N] = [q \in Q |-> At(N, q)]
  <2>1. N \in 0 .. N
    BY <1>a
  <2> HIDE DEF At
  <2> QED
    BY <2>1 DEF sum
<1>9. ASSUME NEW q PROVE At(N, q) = [s \in Status |-> Count(q, s)]
  BY <1>7
<1> HIDE DEF At
<1>10. sum[N] = [q \in {table[i].queue : i \in ids} |-> [s \in Status |-> Count(q, s)]]
  BY <1>1, <1>8, <1>9
<1> QED
  BY <1>6, <1>10, Zenon DEF GetQueues, QueueCounts, after, N, Q, Count

----------------------------------------------------------------------------
(* The chart.                                                              *)

\* The window of the chart touches no more minutes than there are labels.
LEMMA NoCollision ==
  ASSUME NEW table, NEW time \in Int,
         \A i \in DOMAIN table : table[i].updated \in Int /\ table[i].updated <= time,
         NEW i \in Recent(table, time), NEW j \in Recent(table, time),
         Label(Bucket(table, i)) = Label(Bucket(table, j))
  PROVE  Bucket(table, i) = Bucket(table, j)
<1> DEFINE h == Hour \div Minute
<1>1. /\ Minute \in Nat \ {0} /\ Day \in Nat /\ h \in Nat
      /\ Hour = Minute * h /\ h + 1 <= Day
  BY ChartAssumption
<1> HIDE DEF h
<1>2. ASSUME NEW u \in Int, NEW v \in Int, u < v + Hour
      PROVE  u \div Minute < v \div Minute + Day
  <2> DEFINE a == u \div Minute
             b == v \div Minute
  <2>1. a \in Int /\ b \in Int /\ Minute * a <= u /\ v < Minute * b + Minute
    BY <1>1
  <2> HIDE DEF a, b
  <2>2. Minute * a < Minute * b + Minute + Minute * h
    BY <1>1, <1>2, <2>1
  <2>3. Minute * (b + h + 1) = Minute * b + Minute + Minute * h
    BY <1>1, <2>1
  <2>4. a < b + h + 1
    <3> SUFFICES ASSUME b + h + 1 <= a PROVE FALSE
      BY <1>1, <2>1
    <3>1. Minute * (b + h + 1) <= Minute * a
      BY <1>1, <2>1, Z3
    <3> QED
      BY <1>1, <2>1, <2>2, <2>3, <3>1
  <2> QED
    BY <1>1, <2>1, <2>4 DEF a, b
<1>3. ASSUME NEW a \in Int, NEW b \in Int, a < b + Day, b < a + Day, a % Day = b % Day
      PROVE  a = b
  <2> DEFINE p == a \div Day
             q == b \div Day
  <2>1. Day > 0
    BY <1>1
  <2>2. p \in Int /\ q \in Int /\ a = Day * p + (a % Day) /\ b = Day * q + (b % Day) /\ a % Day \in Int
    BY <1>1, <2>1
  <2> HIDE DEF p, q
  <2>3. a - b = Day * p - Day * q
    BY <1>1, <1>3, <2>2, SMTT(30)
  <2>4. ~(p > q)
    <3> SUFFICES ASSUME p >= q + 1 PROVE FALSE
      BY <2>2
    <3>1. Day * p >= Day * (q + 1) /\ Day * (q + 1) = Day * q + Day
      BY <1>1, <2>2, Z3
    <3> QED
      BY <1>1, <1>3, <2>2, <2>3, <3>1
  <2>5. ~(q > p)
    <3> SUFFICES ASSUME q >= p + 1 PROVE FALSE
      BY <2>2
    <3>1. Day * q >= Day * (p + 1) /\ Day * (p + 1) = Day * p + Day
      BY <1>1, <2>2, Z3
    <3> QED
      BY <1>1, <1>3, <2>2, <2>3, <3>1
  <2>6. p = q
    BY <2>2, <2>4, <2>5, SMTT(30)
  <2> QED
    BY <1>1, <1>3, <2>2, <2>6
<1>4. /\ table[i].updated \in Int /\ table[j].updated \in Int
      /\ table[i].updated < table[j].updated + Hour
      /\ table[j].updated < table[i].updated + Hour
  BY <1>1, SMTT(30) DEF Recent
<1>5. /\ Bucket(table, i) \in Int /\ Bucket(table, j) \in Int
      /\ Bucket(table, i) < Bucket(table, j) + Day
      /\ Bucket(table, j) < Bucket(table, i) + Day
  <2>1. table[i].updated \div Minute \in Int /\ table[j].updated \div Minute \in Int
    BY <1>1, <1>4
  <2>2. /\ table[i].updated \div Minute < table[j].updated \div Minute + Day
        /\ table[j].updated \div Minute < table[i].updated \div Minute + Day
    BY <1>2, <1>4
  <2> QED
    BY <2>1, <2>2 DEF Bucket
<1> QED
  BY <1>3, <1>5 DEF Label

\* There is one ascending order of a set of numbers.
LEMMA AscendingUnique ==
  ASSUME NEW S \in SUBSET Int, Cardinality(S) \in Nat,
         NEW f \in Ascending(S), NEW g \in Ascending(S)
  PROVE  f = g
<1> DEFINE N == Cardinality(S)
           Same(n) == \A k \in 1 .. n : f[k] = g[k]
           P == {n \in 0 .. N : Same(n)}
<1>1. /\ f \in [1 .. N -> S] /\ g \in [1 .. N -> S]
      /\ \A x \in S : (\E k \in 1 .. N : f[k] = x) /\ (\E k \in 1 .. N : g[k] = x)
      /\ \A j, k \in 1 .. N : j < k => f[j] < f[k] /\ g[j] < g[k]
  BY DEF Ascending, InAnyOrder, Bijection, Injection, Surjection
<1> HIDE DEF N
<1>2. N \in Nat
  BY DEF N
<1>3. 0 \in P
  BY <1>2
<1>4. ASSUME NEW n \in 0 .. N - 1, n \in P PROVE n + 1 \in P
  <2>1. n + 1 \in 1 .. N /\ Same(n)
    BY <1>2, <1>4
  <2>2. f[n + 1] \in Int /\ g[n + 1] \in Int
    BY <1>1, <2>1, Zenon
  <2>3. ~(f[n + 1] < g[n + 1])
    <3> SUFFICES ASSUME f[n + 1] < g[n + 1] PROVE FALSE
      OBVIOUS
    <3>1. PICK k \in 1 .. N : g[k] = f[n + 1]
      BY <1>1, <2>1, Zenon
    <3>2. ~(n + 1 < k) /\ k # n + 1
      BY <1>1, <2>1, <2>2, <3>1
    <3>3. k \in 1 .. n /\ k < n + 1
      BY <1>2, <3>2
    <3> QED
      BY <1>1, <2>1, <2>2, <3>1, <3>3
  <2>4. ~(g[n + 1] < f[n + 1])
    <3> SUFFICES ASSUME g[n + 1] < f[n + 1] PROVE FALSE
      OBVIOUS
    <3>1. PICK k \in 1 .. N : f[k] = g[n + 1]
      BY <1>1, <2>1, Zenon
    <3>2. ~(n + 1 < k) /\ k # n + 1
      BY <1>1, <2>1, <2>2, <3>1
    <3>3. k \in 1 .. n /\ k < n + 1
      BY <1>2, <3>2
    <3> QED
      BY <1>1, <2>1, <2>2, <3>1, <3>3
  <2>5. f[n + 1] = g[n + 1]
    BY <2>2, <2>3, <2>4
  <2>6. \A k \in 1 .. (n + 1) : k = n + 1 \/ k \in 1 .. n
    OBVIOUS
  <2> QED
    BY <1>2, <2>1, <2>5, <2>6
<1> HIDE DEF P
<1>5. N \in P
  BY <1>2, <1>3, <1>4, EveryTurn
<1> QED
  BY <1>1, <1>5 DEF P

\* A number that is larger than all comes last.
LEMMA AscendingGrows ==
  ASSUME NEW S \in SUBSET Int, IsFiniteSet(S), NEW f \in Ascending(S),
         NEW x \in Int, \A y \in S : y < x
  PROVE  /\ Append(f, x) \in Ascending(S \cup {x})
         /\ Cardinality(S \cup {x}) = Cardinality(S) + 1
<1> DEFINE N == Cardinality(S)
           g == Append(f, x)
<1>1. N \in Nat /\ Cardinality(S \cup {x}) = N + 1
  BY FS_CardinalityType, FS_AddElement
<1>2. /\ f \in [1 .. N -> S]
      /\ \A y \in S : \E k \in 1 .. N : f[k] = y
      /\ \A j, k \in 1 .. N : j < k => f[j] < f[k]
  BY DEF Ascending, InAnyOrder, Bijection, Injection, Surjection
<1> HIDE DEF N
<1>3. f \in Seq(S) /\ Len(f) = N
  BY <1>1, <1>2
<1>4. /\ g \in [1 .. (N + 1) -> S \cup {x}] /\ g[N + 1] = x
      /\ \A k \in 1 .. N : g[k] = f[k]
  <2>1. f \in Seq(S \cup {x}) /\ x \in S \cup {x}
    BY <1>1, <1>2
  <2>2. g \in Seq(S \cup {x}) /\ Len(g) = N + 1 /\ g[N + 1] = x
    BY <1>1, <1>3, <2>1
  <2>3. \A k \in 1 .. N : g[k] = f[k]
    BY <1>1, <1>3, <2>1
  <2> HIDE DEF g
  <2> QED
    BY <1>1, <2>2, <2>3
<1> HIDE DEF g
<1>5. \A k \in 1 .. (N + 1) : k = N + 1 \/ k \in 1 .. N
  BY <1>1
<1>6. ASSUME NEW j \in 1 .. (N + 1), NEW k \in 1 .. (N + 1), j < k PROVE g[j] < g[k]
  <2>1. j \in 1 .. N
    BY <1>1, <1>6
  <2>2. CASE k = N + 1
    BY <1>2, <1>4, <2>1, <2>2, Zenon
  <2>3. CASE k \in 1 .. N
    BY <1>2, <1>4, <1>6, <2>1, <2>3
  <2> QED
    BY <1>5, <2>2, <2>3
<1>7. ASSUME NEW j \in 1 .. (N + 1), NEW k \in 1 .. (N + 1), g[j] = g[k] PROVE j = k
  <2>1. g[j] \in Int /\ g[k] \in Int
    BY <1>4, Zenon
  <2> QED
    BY <1>1, <1>6, <1>7, <2>1
<1>8. ASSUME NEW y \in S \cup {x} PROVE \E k \in 1 .. (N + 1) : g[k] = y
  BY <1>1, <1>2, <1>4
<1>9. g \in Ascending(S \cup {x})
  BY <1>1, <1>4, <1>6, <1>7, <1>8, ZenonT(60) DEF Ascending, InAnyOrder, Bijection, Injection, Surjection, IsInjective
<1> QED
  BY <1>1, <1>9 DEF g, N

\* GROUP BY bucket, status, ORDER BY bucket: each group of the last hour has one
\* row, with its size.
LEMMA SeriesRows ==
  ASSUME NEW table, IsFiniteSet(DOMAIN table), NEW time,
         NEW stats \in GetTimeSeries(table, time)
  PROVE  /\ Len(stats) \in Nat /\ DOMAIN stats = 1 .. Len(stats)
         /\ \A n \in 1 .. Len(stats) :
              stats[n].count = Cardinality(InBucket(table, time, stats[n].bucket, stats[n].status))
         /\ \A m, n \in 1 .. Len(stats) :
              stats[m].bucket = stats[n].bucket /\ stats[m].status = stats[n].status => m = n
         /\ \A i \in Recent(table, time) : \E n \in 1 .. Len(stats) :
              stats[n].bucket = Bucket(table, i) /\ stats[n].status = table[i].status
         /\ \A n \in 1 .. Len(stats) : \E i \in Recent(table, time) :
              stats[n].bucket = Bucket(table, i) /\ stats[n].status = table[i].status
         /\ \A m, n \in 1 .. Len(stats) : m < n => stats[m].bucket <= stats[n].bucket
<1> DEFINE rows == TimeStat(table, time)
           ids == Recent(table, time)
           Size(b, s) == Cardinality(InBucket(table, time, b, s))
           row == [i \in ids |-> [bucket |-> Bucket(table, i), status |-> table[i].status,
                                  count |-> Size(Bucket(table, i), table[i].status)]]
           N == Cardinality(rows)
<1>1. rows = {row[i] : i \in ids}
  BY DEF TimeStat
<1> HIDE DEF Size
<1>2. N \in Nat
  <2>1. row \in Surjection(ids, rows)
    BY <1>1 DEF Surjection
  <2>2. IsFiniteSet(ids)
    BY FS_Subset DEF Recent
  <2>3. IsFiniteSet(rows)
    BY <2>1, <2>2, FS_Surjection
  <2> QED
    BY <2>3, FS_CardinalityType
<1> HIDE DEF rows
<1>3. /\ stats \in [1 .. N -> rows]
      /\ \A m, n \in 1 .. N : stats[m] = stats[n] => m = n
      /\ \A r \in rows : \E n \in 1 .. N : stats[n] = r
      /\ \A m, n \in 1 .. N : m < n => stats[m].bucket <= stats[n].bucket
  BY DEF GetTimeSeries, InAnyOrder, Bijection, Injection, Surjection, IsInjective, rows
<1> HIDE DEF N
<1>4. Len(stats) = N /\ DOMAIN stats = 1 .. N
  BY <1>2, <1>3
<1>5. ASSUME NEW i \in ids
      PROVE  /\ row[i].bucket = Bucket(table, i) /\ row[i].status = table[i].status
             /\ row[i].count = Size(row[i].bucket, row[i].status)
  OBVIOUS
<1>6. ASSUME NEW i \in ids, NEW j \in ids, row[i].bucket = row[j].bucket, row[i].status = row[j].status
      PROVE  row[i] = row[j]
  BY <1>6
<1> HIDE DEF row, ids
<1>7. ASSUME NEW n \in 1 .. N PROVE \E i \in ids : stats[n] = row[i]
  BY <1>1, <1>3
<1>8. ASSUME NEW m \in 1 .. N, NEW n \in 1 .. N, stats[m].bucket = stats[n].bucket,
             stats[m].status = stats[n].status
      PROVE  m = n
  BY <1>3, <1>6, <1>7, <1>8
<1>9. ASSUME NEW i \in ids
      PROVE  \E n \in 1 .. N : stats[n].bucket = Bucket(table, i) /\ stats[n].status = table[i].status
  <2>1. row[i] \in rows
    BY <1>1
  <2>2. PICK n \in 1 .. N : stats[n] = row[i]
    BY <1>3, <2>1
  <2> QED
    BY <1>5, <2>2
<1>10. ASSUME NEW n \in 1 .. N
       PROVE  /\ stats[n].count = Size(stats[n].bucket, stats[n].status)
              /\ \E i \in ids : stats[n].bucket = Bucket(table, i) /\ stats[n].status = table[i].status
  <2>1. PICK i \in ids : stats[n] = row[i]
    BY <1>7
  <2> QED
    BY <1>5, <2>1
<1> QED
  BY <1>2, <1>3, <1>4, <1>8, <1>9, <1>10, Zenon DEF ids, Size

\* The loop of buildChartData appends a label when its minute is new, the latest so
\* far, and writes each count where no other row does.
LEMMA ChartCount ==
  ASSUME NEW table, IsFiniteSet(DOMAIN table), NEW time \in Int,
         \A i \in DOMAIN table : table[i].updated \in Int /\ table[i].updated <= time,
         NEW stats \in GetTimeSeries(table, time)
  PROVE  buildChartData(stats) = ChartOf(table, time)
<1> DEFINE N == Len(stats)
           ids == Recent(table, time)
           b(n) == stats[n].bucket
           B(n) == {b(k) : k \in 1 .. n}
           L(n) == {Label(b(k)) : k \in 1 .. n}
           order(n) == CHOOSE f \in Ascending(B(n)) : TRUE
           Labels(n) == [k \in 1 .. Cardinality(B(n)) |-> Label(order(n)[k])]
           Seen(n, l, s) == \E k \in 1 .. n : Label(b(k)) = l /\ stats[k].status = s
           Count(l, s) == Cardinality({i \in ids : Label(Bucket(table, i)) = l /\ table[i].status = s})
           Point(n, l) == [s \in Plotted |-> IF Seen(n, l, s) THEN Count(l, s) ELSE 0]
           chart == [n \in 0 .. N |-> [labels |-> Labels(n), points |-> [l \in L(n) |-> Point(n, l)]]]
           Body(f) == [n \in 0 .. N |-> IF n = 0 THEN EmptyChart ELSE AddPoint(f[n - 1], stats[n])]
           after == CHOOSE f : f = Body(f)
<1>1. /\ N \in Nat
      /\ \A n \in 1 .. N : stats[n].count = Cardinality(InBucket(table, time, b(n), stats[n].status))
      /\ \A m, n \in 1 .. N : b(m) = b(n) /\ stats[m].status = stats[n].status => m = n
      /\ \A i \in ids : \E n \in 1 .. N : b(n) = Bucket(table, i) /\ stats[n].status = table[i].status
      /\ \A n \in 1 .. N : \E i \in ids : b(n) = Bucket(table, i) /\ stats[n].status = table[i].status
      /\ \A m, n \in 1 .. N : m < n => b(m) <= b(n)
  BY SeriesRows
<1>a. N \in Nat
  BY <1>1
<1>2. ASSUME NEW i \in ids PROVE Bucket(table, i) \in Int
  BY ChartAssumption, SMTT(30) DEF Recent, Bucket
<1>3. ASSUME NEW i \in ids, NEW j \in ids, Label(Bucket(table, i)) = Label(Bucket(table, j))
      PROVE  Bucket(table, i) = Bucket(table, j)
  BY <1>3, NoCollision
<1> HIDE DEF N
<1>4. ASSUME NEW n \in 1 .. N PROVE b(n) \in Int /\ stats[n].status \in Plotted
  BY <1>1, <1>2, SMTT(30) DEF Recent
<1>5. ASSUME NEW m \in 1 .. N, NEW n \in 1 .. N, Label(b(m)) = Label(b(n)) PROVE b(m) = b(n)
  BY <1>1, <1>3, <1>5
<1>6. ASSUME NEW i \in ids, NEW s
      PROVE  Count(Label(Bucket(table, i)), s) = Cardinality(InBucket(table, time, Bucket(table, i), s))
  <2>1. {j \in ids : Label(Bucket(table, j)) = Label(Bucket(table, i)) /\ table[j].status = s}
          = InBucket(table, time, Bucket(table, i), s)
    BY <1>3, Zenon DEF InBucket
  <2> QED
    BY <2>1, Zenon
<1>7. ASSUME NEW n \in 1 .. N PROVE stats[n].count = Count(Label(b(n)), stats[n].status)
  BY <1>1, <1>6, SMTT(30)
<1>8. ASSUME NEW l, NEW s PROVE Count(l, s) \in Nat
  <2>1. IsFiniteSet(ids)
    BY FS_Subset DEF Recent
  <2> QED
    BY <2>1, FS_Subset, FS_CardinalityType
<1>9. ASSUME NEW n \in 1 .. N
      PROVE  /\ n \in 0 .. N /\ n - 1 \in 0 .. N
             /\ B(n) = B(n - 1) \cup {b(n)}
             /\ L(n) = L(n - 1) \cup {Label(b(n))}
             /\ Label(b(n)) \in L(n - 1) <=> b(n) \in B(n - 1)
             /\ \A l, s : Seen(n, l, s) <=> \/ l = Label(b(n)) /\ s = stats[n].status
                                            \/ Seen(n - 1, l, s)
             /\ ~Seen(n - 1, Label(b(n)), stats[n].status)
             /\ \A k \in 1 .. n - 1 : k \in 1 .. N /\ k < n
  <2>1. \A k : k \in 1 .. n <=> k = n \/ k \in 1 .. (n - 1)
    BY <1>a
  <2>2. \A k \in 1 .. n - 1 : k \in 1 .. N /\ k < n
    BY <1>a
  <2>3. n \in 0 .. N /\ n - 1 \in 0 .. N
    BY <1>a
  <2>4. B(n) = B(n - 1) \cup {b(n)} /\ L(n) = L(n - 1) \cup {Label(b(n))}
    BY <2>1
  <2>5. Label(b(n)) \in L(n - 1) <=> b(n) \in B(n - 1)
    BY <1>5, <2>2
  <2>6. \A l, s : Seen(n, l, s) <=> \/ l = Label(b(n)) /\ s = stats[n].status
                                    \/ Seen(n - 1, l, s)
    BY <2>1, Zenon
  <2>7. ~Seen(n - 1, Label(b(n)), stats[n].status)
    BY <1>1, <1>5, <2>2
  <2> QED
    BY <2>2, <2>3, <2>4, <2>5, <2>6, <2>7, SMTT(30)
<1>10. ASSUME NEW n \in 0 .. N
       PROVE  B(n) \subseteq Int /\ IsFiniteSet(B(n)) /\ order(n) \in Ascending(B(n))
  <2> DEFINE P == {m \in 0 .. N : IsFiniteSet(B(m)) /\ Ascending(B(m)) # {}}
  <2>1. ASSUME NEW m \in 0 .. N PROVE B(m) \subseteq Int
    <3>1. \A k \in 1 .. m : k \in 1 .. N
      BY <1>a
    <3> QED
      BY <1>4, <3>1
  <2>2. 0 \in P
    <3>1. B(0) = {}
      OBVIOUS
    <3>2. IsFiniteSet({}) /\ Cardinality({}) = 0
      BY FS_EmptySet
    <3>3. <<>> \in Ascending({})
      BY <3>2 DEF Ascending, InAnyOrder, Bijection, Injection, Surjection, IsInjective
    <3>4. IsFiniteSet(B(0)) /\ Ascending(B(0)) # {}
      BY <3>1, <3>2, <3>3, Zenon
    <3>5. 0 \in 0 .. N
      BY <1>a, SMTT(30)
    <3> HIDE DEF B
    <3> QED
      BY <3>4, <3>5, Zenon
  <2>3. ASSUME NEW m \in 0 .. N - 1, m \in P PROVE m + 1 \in P
    <3> DEFINE n1 == m + 1
    <3>1. n1 \in 1 .. N /\ n1 - 1 = m /\ n1 \in 0 .. N
      BY <1>a
    <3>2. B(n1) = B(m) \cup {b(n1)} /\ b(n1) \in Int
      BY <1>4, <1>9, <3>1, Zenon
    <3>3. IsFiniteSet(B(m)) /\ B(m) \subseteq Int
      BY <2>1, <2>3
    <3>4. PICK f : f \in Ascending(B(m))
      BY <2>3, Zenon
    <3>5. ASSUME NEW y \in B(m) PROVE y <= b(n1)
      <4>1. PICK k \in 1 .. m : y = b(k)
        BY Zenon
      <4>2. k \in 1 .. N /\ k < n1
        BY <1>a
      <4> QED
        BY <1>1, <3>1, <4>1, <4>2
    <3> HIDE DEF n1, b, B
    <3>6. IsFiniteSet(B(n1))
      <4>1. IsFiniteSet(B(m) \cup {b(n1)})
        BY <3>3, FS_AddElement
      <4> QED
        BY <3>2, <4>1, Zenon
    <3>7. CASE b(n1) \in B(m)
      <4>1. B(n1) = B(m)
        BY <3>2, <3>7
      <4> QED
        BY <3>1, <3>4, <3>6, <4>1 DEF n1
    <3>8. CASE b(n1) \notin B(m)
      <4>1. \A y \in B(m) : y < b(n1)
        BY <3>2, <3>3, <3>5, <3>8
      <4>2. Append(f, b(n1)) \in Ascending(B(n1))
        BY <3>2, <3>3, <3>4, <4>1, AscendingGrows, Zenon
      <4> QED
        BY <3>1, <3>6, <4>2 DEF n1
    <3> QED
      BY <3>7, <3>8
  <2> HIDE DEF P
  <2>4. n \in P
    BY <1>a, <2>2, <2>3, EveryTurn, SMTT(30)
  <2>5. IsFiniteSet(B(n)) /\ Ascending(B(n)) # {}
    BY <2>4 DEF P
  <2> HIDE DEF B
  <2> QED
    BY <2>1, <2>5
<1>11. ASSUME NEW n \in 1 .. N
       PROVE  Labels(n) = IF Label(b(n)) \in L(n - 1) THEN Labels(n - 1)
                                                      ELSE Append(Labels(n - 1), Label(b(n)))
  <2>1. /\ n \in 0 .. N /\ n - 1 \in 0 .. N /\ b(n) \in Int
        /\ B(n) = B(n - 1) \cup {b(n)}
        /\ Label(b(n)) \in L(n - 1) <=> b(n) \in B(n - 1)
    BY <1>4, <1>9, Zenon
  <2>2. /\ B(n) \in SUBSET Int /\ IsFiniteSet(B(n)) /\ order(n) \in Ascending(B(n))
        /\ B(n - 1) \in SUBSET Int /\ IsFiniteSet(B(n - 1)) /\ order(n - 1) \in Ascending(B(n - 1))
    BY <1>10, <2>1, Zenon
  <2>3. ASSUME NEW y \in B(n - 1) PROVE y <= b(n)
    BY <1>1, <1>9
  <2> HIDE DEF b, L
  <2>4. CASE b(n) \in B(n - 1)
    <3>1. B(n) = B(n - 1)
      BY <2>1, <2>4
    <3> HIDE DEF B
    <3>2. Labels(n) = Labels(n - 1)
      BY <3>1, SMTT(30)
    <3> QED
      BY <2>1, <2>4, <3>2, Zenon
  <2>5. CASE b(n) \notin B(n - 1)
    <3> DEFINE c == Cardinality(B(n - 1))
               f == order(n - 1)
    <3> HIDE DEF B
    <3>1. \A y \in B(n - 1) : y < b(n)
      BY <2>1, <2>2, <2>3, <2>5
    <3>2. Append(f, b(n)) \in Ascending(B(n)) /\ Cardinality(B(n)) = c + 1
      BY <2>1, <2>2, <3>1, AscendingGrows, Zenon
    <3>3. c \in Nat /\ Cardinality(B(n)) \in Nat
      BY <2>2, FS_CardinalityType
    <3>4. order(n) = Append(f, b(n))
      BY <2>2, <3>2, <3>3, AscendingUnique, SMTT(30)
    <3>5. f \in [1 .. c -> B(n - 1)]
      BY <2>2 DEF Ascending, InAnyOrder, Bijection, Injection
    <3> HIDE DEF f, c, order
    <3>6. f \in Seq(Int) /\ Len(f) = c
      BY <2>2, <3>3, <3>5
    <3>7. Labels(n) = [k \in 1 .. c + 1 |-> Label(Append(f, b(n))[k])]
      BY <3>2, <3>4
    <3>8. Labels(n - 1) = [k \in 1 .. c |-> Label(f[k])]
      BY DEF f, c
    <3> HIDE DEF Labels
    <3>9. /\ \A k \in 1 .. c : Append(f, b(n))[k] = f[k]
          /\ Append(f, b(n))[c + 1] = b(n)
      BY <2>1, <3>3, <3>6
    <3>10. Labels(n) = Append(Labels(n - 1), Label(b(n)))
      <4> DEFINE g == Labels(n - 1)
                 T == {Label(f[k]) : k \in 1 .. c} \cup {Label(b(n))}
      <4>1. g \in Seq(T) /\ Len(g) = c /\ Label(b(n)) \in T
        BY <3>3, <3>8
      <4> HIDE DEF g, T
      <4>2. /\ Append(g, Label(b(n))) \in Seq(T) /\ Len(Append(g, Label(b(n)))) = c + 1
            /\ Append(g, Label(b(n)))[c + 1] = Label(b(n))
            /\ \A k \in 1 .. c : Append(g, Label(b(n)))[k] = g[k]
        BY <3>3, <4>1
      <4>3. \A k \in 1 .. c : g[k] = Label(f[k])
        BY <3>8, Zenon DEF g
      <4>4. Append(g, Label(b(n))) = [k \in 1 .. c + 1 |-> Append(g, Label(b(n)))[k]]
        <5> DEFINE h == Append(g, Label(b(n)))
        <5>1. h \in Seq(T) /\ Len(h) = c + 1
          BY <4>2
        <5> HIDE DEF h
        <5>2. h \in [1 .. c + 1 -> T]
          BY <3>3, <5>1
        <5>3. h = [k \in 1 .. c + 1 |-> h[k]]
          BY <5>2
        <5> QED
          BY <5>3, Zenon DEF h
      <4>5. \A k \in 1 .. c + 1 : Append(g, Label(b(n)))[k] = Label(Append(f, b(n))[k])
        <5>1. \A k \in 1 .. c + 1 : k = c + 1 \/ k \in 1 .. c
          BY <3>3, SMTT(30)
        <5> QED
          BY <3>9, <4>2, <4>3, <5>1, Zenon
      <4> QED
        BY <3>7, <4>4, <4>5, Zenon DEF g
    <3> QED
      BY <2>1, <2>5, <3>10
  <2> QED
    BY <2>4, <2>5
<1>12. ASSUME NEW n \in 1 .. N, NEW l \in L(n)
       PROVE  Point(n, l) = IF l # Label(b(n)) THEN Point(n - 1, l)
                            ELSE [(IF l \in L(n - 1) THEN Point(n - 1, l) ELSE NoPoints)
                                    EXCEPT ![stats[n].status] = @ + stats[n].count]
  <2> DEFINE t == stats[n].status
             old == IF l \in L(n - 1) THEN Point(n - 1, l) ELSE NoPoints
  <2>1. \A s : Seen(n - 1, l, s) => l \in L(n - 1)
    OBVIOUS
  <2> HIDE DEF Count, Seen, L, b
  <2>2. /\ \A s : Seen(n, l, s) <=> (l = Label(b(n)) /\ s = t) \/ Seen(n - 1, l, s)
        /\ ~Seen(n - 1, Label(b(n)), t)
    BY <1>9, Zenon
  <2>3. /\ t \in Plotted
        /\ stats[n].count = Count(Label(b(n)), t)
        /\ Count(Label(b(n)), t) \in Nat
    BY <1>4, <1>7, <1>8, Zenon
  <2>4. CASE l # Label(b(n))
    BY <2>2, <2>4, Zenon
  <2>5. CASE l = Label(b(n))
    <3>1. old = [s \in Plotted |-> IF Seen(n - 1, l, s) THEN Count(l, s) ELSE 0]
      BY <2>1, SMTT(30) DEF NoPoints
    <3>2. [old EXCEPT ![t] = @ + stats[n].count]
            = [s \in Plotted |-> IF s = t THEN old[t] + stats[n].count ELSE old[s]]
      BY <3>1
    <3>3. old[t] = 0
      BY <2>3, <2>2, <2>5, <3>1, SMTT(30)
    <3> HIDE DEF old
    <3>4. old[t] + stats[n].count = Count(l, t)
      BY <2>3, <2>5, <3>3
    <3>5. \A s \in Plotted : (IF s = t THEN old[t] + stats[n].count ELSE old[s])
                               = (IF Seen(n, l, s) THEN Count(l, s) ELSE 0)
      BY <2>2, <2>5, <3>1, <3>4, Zenon
    <3>6. Point(n, l) = [old EXCEPT ![t] = @ + stats[n].count]
      BY <3>2, <3>5
    <3> QED
      BY <2>5, <3>6, Zenon DEF old
  <2> QED
    BY <2>4, <2>5, Zenon
<1>13. ASSUME NEW n \in 1 .. N PROVE chart[n] = AddPoint(chart[n - 1], stats[n])
  <2>1. n \in 0 .. N /\ n - 1 \in 0 .. N /\ L(n) = L(n - 1) \cup {Label(b(n))}
    BY <1>9, SMTT(30)
  <2> HIDE DEF L, Labels, Point
  <2>2. /\ chart[n] = [labels |-> Labels(n), points |-> [l \in L(n) |-> Point(n, l)]]
        /\ chart[n - 1].labels = Labels(n - 1)
        /\ chart[n - 1].points = [l \in L(n - 1) |-> Point(n - 1, l)]
    BY <2>1
  <2> DEFINE old == chart[n - 1]
             label == Label(b(n))
             point == IF label \in L(n - 1) THEN old.points[label] ELSE NoPoints
             points == [l \in DOMAIN old.points \cup {label} |->
                          IF l = label THEN [point EXCEPT ![stats[n].status] = @ + stats[n].count]
                                       ELSE old.points[l]]
  <2>3. DOMAIN old.points = L(n - 1)
    BY <2>2
  <2> HIDE DEF chart
  <2>4. AddPoint(old, stats[n])
          = [labels |-> IF label \in L(n - 1) THEN old.labels ELSE Append(old.labels, label),
             points |-> points]
    BY <2>3, Zenon DEF AddPoint
  <2>5. Labels(n) = IF label \in L(n - 1) THEN old.labels ELSE Append(old.labels, label)
    BY <1>11, <2>2, SMTT(30)
  <2>6. points = [l \in L(n) |-> Point(n, l)]
    <3>1. \A l \in L(n - 1) : old.points[l] = Point(n - 1, l)
      BY <2>2, SMTT(30)
    <3> HIDE DEF old, b
    <3>2. ASSUME NEW l \in L(n)
          PROVE  Point(n, l) = IF l = label THEN [point EXCEPT ![stats[n].status] = @ + stats[n].count]
                                            ELSE old.points[l]
      <4>1. CASE l = label
        <5>1. point = IF l \in L(n - 1) THEN Point(n - 1, l) ELSE NoPoints
          BY <3>1, <4>1
        <5> QED
          BY <1>12, <4>1, <5>1, Zenon
      <4>2. CASE l # label
        <5>1. l \in L(n - 1)
          BY <2>1, <4>2, Zenon
        <5> QED
          BY <1>12, <3>1, <4>2, <5>1, Zenon
      <4> QED
        BY <4>1, <4>2, Zenon
    <3> QED
      BY <2>1, <2>3, <3>2, Zenon
  <2> QED
    BY <2>2, <2>4, <2>5, <2>6, Zenon
<1>14. chart[0] = EmptyChart
  <2>1. B(0) = {} /\ L(0) = {}
    OBVIOUS
  <2>2. Cardinality(B(0)) = 0
    BY <2>1, FS_EmptySet
  <2> HIDE DEF B, L, Point, order
  <2>3. Labels(0) = <<>> /\ [l \in L(0) |-> Point(0, l)] = <<>>
    BY <2>1, <2>2
  <2>4. 0 \in 0 .. N
    BY <1>a
  <2>5. chart[0] = [labels |-> Labels(0), points |-> [l \in L(0) |-> Point(0, l)]]
    BY <2>4, Zenon
  <2> HIDE DEF Labels, chart
  <2> QED
    BY <2>3, <2>5, Zenon DEF EmptyChart
<1>15. after[N] = chart[N]
  <2>1. chart = Body(chart)
    <3>1. \A n \in 0 .. N : n = 0 \/ n \in 1 .. N
      BY <1>a
    <3>2. chart = [n \in 0 .. N |-> chart[n]]
      OBVIOUS
    <3> HIDE DEF chart
    <3>3. \A n \in 0 .. N : chart[n] = IF n = 0 THEN EmptyChart ELSE AddPoint(chart[n - 1], stats[n])
      BY <1>13, <1>14, <3>1, Zenon
    <3> QED
      BY <3>2, <3>3, Zenon
  <2> HIDE DEF chart
  <2>2. after = Body(after)
    BY <2>1, Zenon
  <2> HIDE DEF after
  <2>3. \A n \in 1 .. N : n \in 0 .. N /\ n # 0
    BY <1>a
  <2>4. 0 \in 0 .. N
    BY <1>a
  <2>5. after[0] = EmptyChart
    BY <2>2, <2>4
  <2>6. \A n \in 1 .. N : after[n] = AddPoint(after[n - 1], stats[n])
    BY <2>2, <2>3, Zenon
  <2> HIDE DEF Body
  <2>7. \A n \in 1 .. N : after[n - 1] = chart[n - 1] => after[n] = chart[n]
    BY <1>13, <2>6, Zenon
  <2> QED
    BY <1>a, <1>14, <2>5, <2>7, SameLoop, ZenonT(60)
<1>16. buildChartData(stats) = after[N]
  BY Zenon DEF buildChartData, N
<1> HIDE DEF after
<1> DEFINE minutes == {Bucket(table, i) : i \in ids}
           label == [m \in minutes |-> m % Day]
           choice == CHOOSE f \in Ascending(minutes) : TRUE
<1>17. N \in 0 .. N /\ B(N) = minutes
  BY <1>1
<1>18. Labels(N) = [k \in DOMAIN choice |-> label[choice[k]]]
  <2>1. B(N) \subseteq Int /\ IsFiniteSet(B(N)) /\ order(N) \in Ascending(B(N))
    BY <1>10, <1>17, Zenon
  <2> HIDE DEF B, minutes
  <2>2. order(N) = choice
    BY <1>17
  <2> HIDE DEF order, choice
  <2>3. order(N) \in [1 .. Cardinality(B(N)) -> B(N)]
    BY <2>1, Zenon DEF Ascending, InAnyOrder, Bijection, Injection
  <2>4. DOMAIN choice = 1 .. Cardinality(B(N)) /\ \A k \in DOMAIN choice : choice[k] \in minutes
    BY <1>17, <2>2, <2>3
  <2>5. \A k \in DOMAIN choice : label[choice[k]] = Label(choice[k])
    BY <2>4 DEF Label
  <2> HIDE DEF label
  <2> QED
    BY <2>2, <2>4, <2>5
<1>19. L(N) = {label[m] : m \in minutes}
  <2>1. \A k \in 1 .. N : b(k) \in minutes /\ label[b(k)] = Label(b(k))
    BY <1>17, Zenon DEF Label
  <2>2. \A m \in minutes : \E k \in 1 .. N : m = b(k)
    BY <1>17
  <2> HIDE DEF minutes, label, b
  <2> QED
    BY <2>1, <2>2
<1>20. ASSUME NEW m \in minutes, NEW l, label[m] = l, NEW s \in Plotted
       PROVE  /\ m = CHOOSE x \in minutes : label[x] = l
              /\ Point(N, l)[s] = Cardinality(InBucket(table, time, m, s))
  <2>1. PICK i \in ids : m = Bucket(table, i)
    OBVIOUS
  <2>2. l = Label(m)
    BY <1>20 DEF Label
  <2>3. \A x \in minutes : label[x] = l => x = m
    <3>1. \A x \in minutes : \E j \in ids : x = Bucket(table, j) /\ label[x] = Label(Bucket(table, j))
      BY DEF Label
    <3> HIDE DEF minutes, label
    <3> QED
      BY <1>3, <2>1, <2>2, <3>1
  <2>4. Count(l, s) = Cardinality(InBucket(table, time, m, s))
    BY <1>6, <2>1, <2>2
  <2>5. ASSUME ~Seen(N, l, s) PROVE Count(l, s) = 0
    <3>1. {j \in ids : Label(Bucket(table, j)) = l /\ table[j].status = s} = {}
      BY <1>1, <2>5
    <3> QED
      BY <3>1, FS_EmptySet, ZenonT(60)
  <2> HIDE DEF minutes, label, Count, Seen
  <2>6. m = CHOOSE x \in minutes : label[x] = l
    BY <1>20, <2>3, Zenon
  <2>7. Point(N, l)[s] = Count(l, s)
    BY <2>5, Zenon
  <2> QED
    BY <2>4, <2>6, <2>7
<1>21. [l \in L(N) |-> Point(N, l)]
         = [l \in {label[m] : m \in minutes} |->
              [s \in Plotted |-> Cardinality(InBucket(table, time, CHOOSE m \in minutes : label[m] = l, s))]]
  <2>1. \A l : Point(N, l) = [s \in Plotted |-> Point(N, l)[s]]
    OBVIOUS
  <2> HIDE DEF Point, L, minutes, label
  <2>2. ASSUME NEW l \in {label[m] : m \in minutes}, NEW s \in Plotted
        PROVE  Point(N, l)[s] = Cardinality(InBucket(table, time, CHOOSE m \in minutes : label[m] = l, s))
    <3>1. PICK m \in minutes : label[m] = l
      BY <2>2
    <3> QED
      BY <1>20, <3>1, ZenonT(60)
  <2>3. ASSUME NEW l \in {label[m] : m \in minutes}
        PROVE  Point(N, l) = [s \in Plotted |-> Cardinality(InBucket(table, time,
                                                  CHOOSE m \in minutes : label[m] = l, s))]
    BY <2>1, <2>2
  <2> QED
    BY <1>19, <2>3, Zenon
<1>22. chart[N] = [labels |-> Labels(N), points |-> [l \in L(N) |-> Point(N, l)]]
  BY <1>17, Zenon
<1>23. ChartOf(table, time)
         = [labels |-> [k \in DOMAIN choice |-> label[choice[k]]],
            points |-> [l \in {label[m] : m \in minutes} |->
                          [s \in Plotted |-> Cardinality(InBucket(table, time,
                                               CHOOSE m \in minutes : label[m] = l, s))]]]
  BY Zenon DEF ChartOf
<1> HIDE DEF chart, Labels, L, Point, choice, label, minutes
<1> QED
  BY <1>15, <1>16, <1>18, <1>21, <1>22, <1>23, ZenonT(60)
=============================================================================
