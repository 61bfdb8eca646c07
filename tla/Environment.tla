---------------------------- MODULE Environment ----------------------------
(***************************************************************************)
(* What surrounds the program.  A call to PostgreSQL or Redis can fail, a  *)
(* context can be cancelled under a goroutine, an instance can die: each   *)
(* ends the current piece of work at the point it has reached.  `faults'   *)
(* counts such events and MaxFaults bounds them.                           *)
(*                                                                         *)
(* `hit' and `requeued' are history variables, read by properties only:    *)
(* the jobs whose handling a fault cut short, and the jobs pushed while    *)
(* the program did not know that no other copy of them was under way.      *)
(***************************************************************************)
EXTENDS Naturals

CONSTANTS MaxFaults

ASSUME MaxFaultsAssumption == MaxFaults \in Nat

VARIABLES faults, hit, requeued

envVars == <<faults, hit, requeued>>

Fault(ids) ==
  /\ faults < MaxFaults
  /\ faults' = faults + 1
  /\ hit' = hit \cup ids
  /\ UNCHANGED requeued

Requeue(ids) ==
  /\ requeued' = requeued \cup ids
  /\ UNCHANGED <<faults, hit>>

EnvTypeOK == faults \in 0 .. MaxFaults

EnvInit == faults = 0 /\ hit = {} /\ requeued = {}
=============================================================================
