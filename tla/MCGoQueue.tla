----------------------------- MODULE MCGoQueue -----------------------------
(* Values of the constants of GoQueue for model checking. *)
EXTENDS GoQueue, TLC

Req(q, t, m, r) == [queue |-> q, type |-> t, maxRetries |-> m, runAt |-> r]

OneQueue == <<"default">>

\* An immediate and a deferred job with one retry.
BasicRequests == {Req("default", "process", 2, "null"), Req("default", "process", 2, "future")}

DeferredRequests == {Req("default", "process", 2, "future")}

\* A type without a handler, in a queue that is served second.
TwoQueues == <<"default", "email">>
MixedRequests == {Req("default", "process", 2, "future"), Req("email", "unknown", 1, "null")}

\* Immediate jobs: one whose first failure is the last, in the queue served first,
\* one in the queue served second and one in a queue nobody serves.
ImmediateRequests == {Req("default", "process", 1, "null"), Req("email", "unknown", 1, "null"),
                      Req("bulk", "unknown", 1, "null")}

\* The workload of the recovery run has one job that is executed and comes back;
\* what is created next to it is a restriction of the requests, not of the program.
OneExecutable == Cardinality({id \in DOMAIN jobs : jobs[id].type \in Registered}) <= 1

RecoverySpec == Init /\ [][Next /\ OneExecutable']_vars /\ Fairness

\* An immediate job with one retry.
RetriedRequests == {Req("default", "process", 2, "null")}

Symmetry == Permutations(Worker) \cup Permutations(Client) \cup Permutations(Instance)
=============================================================================
