----------------------------- MODULE RedisQueue -----------------------------
(***************************************************************************)
(* The Redis side (internal/queue/redis.go): one list per queue name and   *)
(* the sorted set of deferred jobs.  A list is written in the order it is  *)
(* popped in: Append stands for LPUSH, Head for the right end that BRPOP   *)
(* takes.  A member of the sorted set is kept with the relation of its     *)
(* score to now.                                                           *)
(***************************************************************************)
EXTENDS JobStore, Sequences

CONSTANTS queues,        \* the queues the workers serve, in BRPOP key order
          MaxCopies      \* bound: further copies of an id in a list are absorbed

ASSUME QueueAssumption == /\ queues \in Seq(QueueName)
                          /\ MaxCopies \in Nat \ {0}

VARIABLES lists,         \* queue name -> sequence of ids
          scheduled      \* id -> "absent", "future" or "due"

queueVars == <<lists, scheduled>>

QueueTypeOK ==
  /\ lists \in [QueueName -> Seq(JobId)]
  /\ scheduled \in [JobId -> {"absent", "future", "due"}]

QueueInit ==
  /\ lists = [q \in QueueName |-> <<>>]
  /\ scheduled = [id \in JobId |-> "absent"]

Copies(q, id) == Cardinality({n \in DOMAIN lists[q] : lists[q][n] = id})

Push(q, id) ==
  /\ lists' = IF Copies(q, id) < MaxCopies
                THEN [lists EXCEPT ![q] = Append(@, id)] ELSE lists
  /\ UNCHANGED scheduled

\* BRPOP over several keys serves the first non-empty one.
Pop(q) ==
  /\ \E n \in DOMAIN queues : /\ queues[n] = q
                              /\ \A k \in 1 .. n - 1 : lists[queues[k]] = <<>>
  /\ lists[q] # <<>>
  /\ lists' = [lists EXCEPT ![q] = Tail(@)]
  /\ UNCHANGED scheduled

\* ZADD keeps one entry per member; a later score replaces the earlier one.
Schedule(id, score) ==
  /\ scheduled' = [scheduled EXCEPT ![id] = score]
  /\ UNCHANGED lists

DueJobs == {id \in JobId : scheduled[id] = "due"}

\* Mutant: the due members are read and left in the set.
GetDueJobsKept == UNCHANGED <<lists, scheduled>>

\* The Lua script reads and removes the due members in one atomic step.
GetDueJobs ==
  /\ scheduled' = [id \in JobId |-> IF id \in DueJobs THEN "absent" ELSE scheduled[id]]
  /\ UNCHANGED lists
=============================================================================
