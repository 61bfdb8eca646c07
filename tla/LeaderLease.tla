---------------------------- MODULE LeaderLease ----------------------------
(***************************************************************************)
(* What the election promises to the code it calls back: a lease on        *)
(* leading, held by one instance at a time.  An instance is in tenure from *)
(* the grant until it has stepped down, and acts only in tenure.  The      *)
(* lease can lapse under it, so tenures overlap: but every one of them     *)
(* was granted while nobody had the lease, none is renewed before it has   *)
(* ended, and none ends by its own will with the lease kept.               *)
(***************************************************************************)
CONSTANT Instance

VARIABLES holder,        \* an instance, "free", or "detached": not to be granted yet
          tenure,        \* the instances granted the lease and not stepped down
          acting         \* the instances that run the scheduler or say they lead

vars == <<holder, tenure, acting>>

Init == holder = "free" /\ tenure = {} /\ acting = {}

Grant(i) ==
  /\ holder = "free" /\ i \notin tenure
  /\ holder' = i
  /\ tenure' = tenure \cup {i}
  /\ UNCHANGED acting

Act(i) ==
  /\ i \in tenure
  /\ acting' = acting \cup {i}
  /\ UNCHANGED <<holder, tenure>>

\* An instance in tenure may stop acting, and act again.
Pause(i) ==
  /\ acting' = acting \ {i}
  /\ UNCHANGED <<holder, tenure>>

Lapse(i) ==
  /\ holder = i
  /\ holder' = "detached"
  /\ UNCHANGED <<tenure, acting>>

Free ==
  /\ holder = "detached"
  /\ holder' = "free"
  /\ UNCHANGED <<tenure, acting>>

\* Nobody steps down while holding the lease.
StepDown(i) ==
  /\ i \in tenure /\ holder # i
  /\ tenure' = tenure \ {i}
  /\ acting' = acting \ {i}
  /\ UNCHANGED holder

\* Except by ending: then the lease lapses with the instance.
Vanish(i) ==
  /\ holder' = IF holder = i THEN "detached" ELSE holder
  /\ tenure' = tenure \ {i}
  /\ acting' = acting \ {i}

Next == \/ \E i \in Instance : \/ Grant(i) \/ Act(i) \/ Pause(i) \/ Lapse(i)
                               \/ StepDown(i) \/ Vanish(i)
        \/ Free

Spec == Init /\ [][Next]_vars
=============================================================================
