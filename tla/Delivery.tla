----------------------------- MODULE Delivery -----------------------------
(***************************************************************************)
(* What the pipeline promises about handing jobs to workers.  A submitted  *)
(* job waits until one worker takes it, and waits again only when that     *)
(* worker gives it back.  It gets lost only by a fault that names it.  A   *)
(* job that is pushed without a look at where it is loses the promise.     *)
(***************************************************************************)
CONSTANTS Job, Worker, None

VARIABLES waiting,       \* jobs that are on their way to a worker
          holding,       \* worker -> the job it has taken, or None
          lost,          \* jobs that a fault has named
          exempt         \* jobs that have been pushed blindly

vars == <<waiting, holding, lost, exempt>>

Init ==
  /\ waiting = {} /\ lost = {} /\ exempt = {}
  /\ holding = [w \in Worker |-> None]

Submit(k) ==
  /\ k \notin waiting \cup exempt
  /\ \A w \in Worker : holding[w] # k
  /\ waiting' = waiting \cup {k}
  /\ UNCHANGED <<holding, lost, exempt>>

Take(w, k) ==
  /\ holding[w] = None /\ k \in waiting
  /\ waiting' = waiting \ {k}
  /\ holding' = [holding EXCEPT ![w] = k]
  /\ UNCHANGED <<lost, exempt>>

GiveBack(w) ==
  /\ holding[w] # None
  /\ waiting' = waiting \cup {holding[w]}
  /\ holding' = [holding EXCEPT ![w] = None]
  /\ UNCHANGED <<lost, exempt>>

Finish(w) ==
  /\ holding[w] # None
  /\ holding' = [holding EXCEPT ![w] = None]
  /\ UNCHANGED <<waiting, lost, exempt>>

\* What the workers hold when those that hold one of K drop it.
Without(K) == [w \in Worker |-> IF holding[w] \in K THEN None ELSE holding[w]]

\* The fault may or may not have been in the way of the jobs it names.
Lose(K) ==
  /\ lost' = lost \cup K
  /\ waiting' \in {waiting, waiting \ K}
  /\ holding' \in {holding, Without(K)}
  /\ UNCHANGED exempt

PushBlindly(k) ==
  /\ exempt' = exempt \cup {k}
  /\ waiting' = waiting \ {k}
  /\ holding' = Without({k})
  /\ UNCHANGED lost

Next == \/ \E k \in Job : Submit(k) \/ PushBlindly(k) \/ \E w \in Worker : Take(w, k)
        \/ \E w \in Worker : GiveBack(w) \/ Finish(w)
        \/ \E K \in SUBSET Job : Lose(K)

Spec == Init /\ [][Next]_vars
=============================================================================
