---------------------------- MODULE JobLifecycle ----------------------------
(***************************************************************************)
(* What the job service promises of every job, without leases, snapshots   *)
(* or tables: a job is accepted once, is held by at most one worker at a   *)
(* time and only while it is active, is settled once per attempt, and is   *)
(* reopened only after a failure or a cancellation, with an attempt number *)
(* within the bound.  Several jobs may move in one step (bulk updates).    *)
(* The number need not grow: two retries that read the same row may write  *)
(* the same one, if the row fails again between their writes.              *)
(***************************************************************************)
EXTENDS Integers

CONSTANTS Jobs, Workers, Nobody, MaxAttempts

VARIABLES phase, attempt, holder

Phases == {"absent", "active", "succeeded", "failed", "canceled"}

LInit ==
  /\ phase = [j \in Jobs |-> "absent"]
  /\ attempt = [j \in Jobs |-> 1]
  /\ holder = [j \in Jobs |-> Nobody]

Keeps(j) == /\ phase'[j] = phase[j]
            /\ attempt'[j] = attempt[j]
            /\ holder'[j] = holder[j]

Accept(j) == /\ phase[j] = "absent" /\ phase'[j] = "active"
             /\ attempt'[j] = 1
             /\ holder'[j] = Nobody

Take(j) == /\ phase[j] = "active" /\ phase'[j] = "active"
           /\ attempt'[j] = attempt[j]
           /\ holder[j] = Nobody /\ holder'[j] \in Workers

Release(j) == /\ phase[j] = "active" /\ phase'[j] = "active"
              /\ attempt'[j] = attempt[j]
              /\ holder'[j] = Nobody

Conclude(j) == /\ phase[j] = "active" /\ phase'[j] \in {"succeeded", "failed", "canceled"}
               /\ attempt'[j] = attempt[j]
               /\ holder'[j] = Nobody

Reopen(j) == /\ phase[j] \in {"failed", "canceled"} /\ phase'[j] = "active"
             /\ attempt'[j] \in 2..MaxAttempts
             /\ holder'[j] = Nobody

LStep == \A j \in Jobs : Keeps(j) \/ Accept(j) \/ Take(j) \/ Release(j) \/ Conclude(j) \/ Reopen(j)

LSpec == LInit /\ [][LStep]_<<phase, attempt, holder>>
=============================================================================
