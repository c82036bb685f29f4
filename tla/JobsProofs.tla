----------------------------- MODULE JobsProofs -----------------------------
(***************************************************************************)
(* Proofs about Jobs.tla, for any number of rows, targets, workers, callers*)
(* and attempts.                                                           *)
(***************************************************************************)
EXTENDS Jobs, FiniteSetTheorems, NaturalsInduction, WellFoundedInduction, TLAPS

AnyRun == Runs \union {NoRun}

\* A step of the service is one of sixteen updates: all the transitions to
\* a terminal status are one update, of one active row or of several.
LEMMA NextCases ==
  ASSUME [JobsNext]_jobVars
  PROVE  \/ UNCHANGED jobVars
         \/ \E j \in JobIds, t \in Targets, r \in AnyRun : CreateNew(j, t, r)
         \/ \E j \in JobIds, t \in Targets, r \in AnyRun : CreateReuse(j, t, r)
         \/ \E j \in JobIds, t \in Tasks : SetWaitingCurrent(j, t)
         \/ \E S \in SUBSET ActiveJobs, s \in Terminal : Settle(S, s)
         \/ \E c \in Callers, j \in JobIds : RetryRead(c, j)
         \/ \E c \in Callers : RetryWrite(c)
         \/ \E r \in Runs : DetachChildren(r)
         \/ \E o \in Owners : ClaimSelect(o)
         \/ \E o \in Owners : ClaimCommit(o)
         \/ \E j \in JobIds, o \in Owners : RenewLease(j, o)
         \/ \E j \in JobIds, o \in Owners : RequeueJob(j, o)
         \/ RecoverExpired
         \/ \E j \in JobIds : LeaseElapses(j)
         \/ \E j \in JobIds : BecomeDue(j)
         \/ NewDay
<1> DEFINE Settles == \E S \in SUBSET ActiveJobs, s \in Terminal : Settle(S, s)
<1>1. ASSUME NEW j \in JobIds, NEW s \in Terminal, Active(j), Settle({j}, s)
      PROVE  Settles
  BY <1>1, {j} \in SUBSET ActiveJobs DEF ActiveJobs
<1>2. \A j \in JobIds, s \in {"succeeded", "failed"} : SetCurrent(j, s) => Settles
  BY <1>1 DEF SetCurrent, Current, Active, Terminal
<1>3. \A t \in Targets, s \in {"succeeded", "failed"} : SetByTarget(t, s) => Settles
  BY <1>1 DEF SetByTarget, Active, Terminal
<1>4. \A j \in JobIds : Cancel(j) => Settles
  BY <1>1 DEF Cancel, Terminal
<1>5. \A j \in JobIds, o \in Owners, s \in {"succeeded", "failed"} : SetOwned(j, o, s) => Settles
  BY <1>1 DEF SetOwned, IsOwned, Active, Terminal
<1>6. \A r \in Runs : CancelActiveChildren(r) => Settles
  BY DEF CancelActiveChildren, Terminal
<1> HIDE DEF Settles
<1>7. QED
  BY <1>2, <1>3, <1>4, <1>5, <1>6
     DEF Settles, JobsNext, CallerStep, WorkerStep, TimeStep, Create, AnyRun

\* The type invariant is inductive with two additions: Retry read a row whose
\* attempts are not used up, so the attempt it writes stays in range; and a
\* row has a target, so the cost it is charged with is defined.
SnapshotsRetryable ==
  \A c \in Callers : retrying[c] # NoSnapshot => retrying[c].attempt < MaxAttempts

RowsHaveTargets == \A j \in JobIds : status[j] # "absent" => target[j] \in Targets

Typed == TypeOK /\ SnapshotsRetryable /\ RowsHaveTargets

\* The empty table is well typed.
LEMMA InitType == JobsInit => Typed
BY BoundsAssumption DEF JobsInit, Typed, TypeOK, SnapshotsRetryable, RowsHaveTargets, NoJob

\* Every update of the service keeps the types.
LEMMA StepType ==
  ASSUME Typed, [JobsNext]_jobVars
  PROVE  Typed'
<1> USE DEF Typed, TypeOK, SnapshotsRetryable, RowsHaveTargets, rowVars, Statuses, Terminal
<1>1. CASE UNCHANGED jobVars
  BY <1>1 DEF jobVars
<1>2. ASSUME NEW j \in JobIds, NEW t \in Targets, NEW r \in AnyRun, CreateNew(j, t, r)
      PROVE  Typed'
  BY <1>2 DEF CreateNew, Insert, AnyRun
<1>3. ASSUME NEW j \in JobIds, NEW t \in Targets, NEW r \in AnyRun, CreateReuse(j, t, r)
      PROVE  Typed'
  BY <1>3 DEF CreateReuse, AttachRun, AnyRun
<1>4. ASSUME NEW j \in JobIds, NEW t \in Tasks, SetWaitingCurrent(j, t)
      PROVE  Typed'
  BY <1>4 DEF SetWaitingCurrent, Current
<1>5. ASSUME NEW S \in SUBSET ActiveJobs, NEW s \in Terminal, Settle(S, s)
      PROVE  Typed'
  <2>1. \A j \in S : status[j] # "absent" /\ Cost[target[j]] \in Nat
    BY CostAssumption DEF ActiveJobs, Active
  <2>2. status' \in [JobIds -> Statuses \union {"absent"}] /\ RowsHaveTargets'
    BY <1>5, <2>1 DEF Settle
  <2>3. owner' \in [JobIds -> Owners \union {NoOwner}]
    BY <1>5 DEF Settle
  <2>4. lease' \in [JobIds -> {"none", "live", "expired"}]
    BY <1>5 DEF Settle
  <2>5. actual' \in [JobIds -> Nat]
    BY <1>5, <2>1 DEF Settle
  <2>6. QED
    BY <1>5, <2>2, <2>3, <2>4, <2>5 DEF Settle
<1>6. ASSUME NEW c \in Callers, NEW j \in JobIds, RetryRead(c, j)
      PROVE  Typed'
  <2> DEFINE seen == [job |-> j, status |-> status[j], attempt |-> attempt[j]]
  <2>1. seen \in Snapshot /\ seen.attempt < MaxAttempts
    BY <1>6 DEF RetryRead, Remember, Snapshot
  <2>2. retrying' = [retrying EXCEPT ![c] = seen]
    BY <1>6 DEF RetryRead, Remember
  <2> HIDE DEF seen
  <2>3. QED
    BY <1>6, <2>1, <2>2 DEF RetryRead, Remember
<1>7. ASSUME NEW c \in Callers, RetryWrite(c)
      PROVE  Typed'
  <2> DEFINE seen == retrying[c]
  <2>1. seen \in Snapshot /\ seen.attempt < MaxAttempts
    BY <1>7 DEF RetryWrite
  <2>2. CASE RetryUpdate(seen.job, seen)
    <3>1. seen.attempt + 1 \in 1..MaxAttempts /\ seen.job \in JobIds
      BY <2>1, BoundsAssumption DEF Snapshot
    <3>2. status[seen.job] # "absent" /\ NextStatus(seen.job) \in {"queued", "running"}
      BY <2>1, <2>2 DEF Snapshot, RetryUpdate, ReopenAs, NextStatus
    <3>3. QED
      BY <1>7, <2>2, <3>1, <3>2 DEF RetryWrite, RetryUpdate, ReopenAs
  <2>3. CASE RetryRefused(seen.job, seen)
    BY <1>7, <2>3 DEF RetryWrite, RetryRefused
  <2>4. QED
    BY <1>7, <2>2, <2>3 DEF RetryWrite
<1>8. ASSUME NEW r \in Runs, DetachChildren(r)
      PROVE  Typed'
  BY <1>8 DEF DetachChildren
<1>9. ASSUME NEW o \in Owners, ClaimSelect(o)
      PROVE  Typed'
  BY <1>9 DEF ClaimSelect
<1>10. ASSUME NEW o \in Owners, ClaimCommit(o)
       PROVE  Typed'
  <2>1. candidate[o] \in JobIds
    BY <1>10 DEF ClaimCommit
  <2>2. CASE ClaimUpdate(candidate[o], o)
    BY <1>10, <2>1, <2>2 DEF ClaimCommit, ClaimUpdate, Claimable
  <2>3. CASE ClaimMiss(candidate[o])
    BY <1>10, <2>3 DEF ClaimCommit, ClaimMiss
  <2>4. QED
    BY <1>10, <2>2, <2>3 DEF ClaimCommit
<1>11. ASSUME NEW j \in JobIds, NEW o \in Owners, RenewLease(j, o)
       PROVE  Typed'
  BY <1>11 DEF RenewLease
<1>12. ASSUME NEW j \in JobIds, NEW o \in Owners, RequeueJob(j, o)
       PROVE  Typed'
  BY <1>12 DEF RequeueJob, IsOwned
<1>13. CASE RecoverExpired
  <2>1. \A j \in JobIds : /\ Reopenable(j) => status[j] # "absent"
                          /\ Recovered(j) \in Statuses \union {"absent"}
    BY DEF Reopenable, Recovered
  <2>2. status' \in [JobIds -> Statuses \union {"absent"}] /\ RowsHaveTargets'
    BY <1>13, <2>1 DEF RecoverExpired
  <2>3. owner' \in [JobIds -> Owners \union {NoOwner}]
    BY <1>13 DEF RecoverExpired
  <2>4. lease' \in [JobIds -> {"none", "live", "expired"}]
    BY <1>13 DEF RecoverExpired
  <2>5. due' \in [JobIds -> BOOLEAN]
    BY <1>13 DEF RecoverExpired
  <2>6. candidate' \in [Owners -> JobIds \union {NoJob}]
    BY <1>13 DEF RecoverExpired
  <2>7. retrying' \in [Callers -> Snapshot \union {NoSnapshot}] /\ SnapshotsRetryable'
    BY <1>13 DEF RecoverExpired
  <2>8. QED
    BY <1>13, <2>2, <2>3, <2>4, <2>5, <2>6, <2>7 DEF RecoverExpired
<1>14. ASSUME NEW j \in JobIds, LeaseElapses(j)
       PROVE  Typed'
  BY <1>14 DEF LeaseElapses
<1>15. ASSUME NEW j \in JobIds, BecomeDue(j)
       PROVE  Typed'
  BY <1>15 DEF BecomeDue
<1>16. CASE NewDay
  BY <1>16 DEF NewDay
<1>17. QED
  BY NextCases, <1>1, <1>2, <1>3, <1>4, <1>5, <1>6, <1>7, <1>8, <1>9, <1>10, <1>11,
     <1>12, <1>13, <1>14, <1>15, <1>16

\* Every row, snapshot and candidate keeps its type whatever the interleaving
\* of requests, workers, webhooks and restarts (services/jobs/service.go).
THEOREM TypeInvariant == JobsSpec => []TypeOK
<1>1. JobsInit => Typed
  BY InitType
<1>2. Typed /\ [JobsNext]_jobVars => Typed'
  BY StepType
<1>3. Typed => TypeOK
  BY DEF Typed
<1>4. QED
  BY <1>1, <1>2, <1>3, PTL DEF JobsSpec
-----------------------------------------------------------------------------
(***************************************************************************)
(* The protocol of a single row.  The four row invariants hold each other  *)
(* up: a claim needs WorkerJobsRunUnderClaim and TaskMatchesPhase to give  *)
(* its row a task, TaskMatchesPhase needs HeldOnlyWhileRunning to know that*)
(* Retry reopens a row without an owner, and what a row that was never     *)
(* inserted holds is needed to know what Insert leaves in it.              *)
(***************************************************************************)
\* The table is empty at first.
LEMMA InitRows == JobsInit => RowProtocol
BY DEF JobsInit, RowProtocol, HeldOnlyWhileRunning, UnleasedOnlyAfterRetry,
       TaskMatchesPhase, WorkerJobsRunUnderClaim, BlankRows

\* Every update of the service keeps every row within its protocol.
LEMMA StepRows ==
  ASSUME Typed, RowProtocol, [JobsNext]_jobVars
  PROVE  RowProtocol'
<1> USE KindsAssumption, NullsAssumption
    DEF Typed, TypeOK, RowsHaveTargets, RowProtocol, HeldOnlyWhileRunning,
        UnleasedOnlyAfterRetry, TaskMatchesPhase, WorkerJobsRunUnderClaim, BlankRows,
        Targets, WorkerTargets, rowVars
<1>1. CASE UNCHANGED jobVars
  BY <1>1 DEF jobVars
<1>2. ASSUME NEW j \in JobIds, NEW t \in Targets, NEW r \in AnyRun, CreateNew(j, t, r)
      PROVE  RowProtocol'
  BY <1>2 DEF CreateNew, Insert, Created
<1>3. ASSUME NEW j \in JobIds, NEW t \in Targets, NEW r \in AnyRun, CreateReuse(j, t, r)
      PROVE  RowProtocol'
  BY <1>3 DEF CreateReuse, AttachRun, Newest, ActiveOf, ActiveJobs, Active
<1>4. ASSUME NEW j \in JobIds, NEW t \in Tasks, SetWaitingCurrent(j, t)
      PROVE  RowProtocol'
  BY <1>4 DEF SetWaitingCurrent, Current
<1>5. ASSUME NEW S \in SUBSET ActiveJobs, NEW s \in Terminal, Settle(S, s)
      PROVE  RowProtocol'
  BY <1>5 DEF Settle, Terminal, ActiveJobs
<1>6. ASSUME NEW c \in Callers, NEW j \in JobIds, RetryRead(c, j)
      PROVE  RowProtocol'
  BY <1>6 DEF RetryRead, Remember
<1>7. ASSUME NEW c \in Callers, RetryWrite(c)
      PROVE  RowProtocol'
  <2> DEFINE seen == retrying[c]
  <2>1. seen.job \in JobIds /\ seen.status \in {"failed", "canceled"} /\ seen.attempt \in Nat \ {0}
    BY <1>7, BoundsAssumption DEF RetryWrite, Snapshot
  <2>2. CASE RetryUpdate(seen.job, seen)
    <3> HIDE DEF seen
    <3>1. owner[seen.job] = NoOwner /\ target[seen.job] \in Targets
      BY <2>1, <2>2 DEF RetryUpdate, ReopenAs
    <3>2. QED
      BY <2>1, <2>2, <3>1 DEF RetryUpdate, ReopenAs, NextStatus
  <2>3. CASE RetryRefused(seen.job, seen)
    BY <2>3 DEF RetryRefused
  <2>4. QED
    BY <1>7, <2>2, <2>3 DEF RetryWrite
<1>8. ASSUME NEW r \in Runs, DetachChildren(r)
      PROVE  RowProtocol'
  BY <1>8 DEF DetachChildren
<1>9. ASSUME NEW o \in Owners, ClaimSelect(o)
      PROVE  RowProtocol'
  BY <1>9 DEF ClaimSelect
<1>10. ASSUME NEW o \in Owners, ClaimCommit(o)
       PROVE  RowProtocol'
  <2>1. candidate[o] \in JobIds
    BY <1>10 DEF ClaimCommit
  <2>2. CASE ClaimUpdate(candidate[o], o)
    BY <2>1, <2>2 DEF ClaimUpdate, Claimable
  <2>3. CASE ClaimMiss(candidate[o])
    BY <2>3 DEF ClaimMiss
  <2>4. QED
    BY <1>10, <2>2, <2>3 DEF ClaimCommit
<1>11. ASSUME NEW j \in JobIds, NEW o \in Owners, RenewLease(j, o)
       PROVE  RowProtocol'
  BY <1>11 DEF RenewLease, IsOwned
<1>12. ASSUME NEW j \in JobIds, NEW o \in Owners, RequeueJob(j, o)
       PROVE  RowProtocol'
  BY <1>12 DEF RequeueJob, IsOwned
<1>13. CASE RecoverExpired
  <2>1. \A j \in JobIds : Reopenable(j) =>
          /\ Recovered(j) \in {"queued", "waiting", "failed"}
          /\ Recovered(j) = "queued" => target[j] \in WorkerTargets
          /\ Recovered(j) = "waiting" => (target[j] \in ProviderTargets /\ task[j] # NoTask)
    BY DEF Reopenable, Recovered
  <2>2. QED
    BY <1>13, <2>1 DEF RecoverExpired, Reopenable
<1>14. ASSUME NEW j \in JobIds, LeaseElapses(j)
       PROVE  RowProtocol'
  BY <1>14 DEF LeaseElapses
<1>15. ASSUME NEW j \in JobIds, BecomeDue(j)
       PROVE  RowProtocol'
  BY <1>15 DEF BecomeDue
<1>16. CASE NewDay
  BY <1>16 DEF NewDay
<1>17. QED
  BY NextCases, <1>1, <1>2, <1>3, <1>4, <1>5, <1>6, <1>7, <1>8, <1>9, <1>10, <1>11,
     <1>12, <1>13, <1>14, <1>15, <1>16

\* A row never leaves its protocol, for any number of rows, workers, callers
\* and attempts (service.go 89-140, 241-449, 533-581, 717-758).
THEOREM RowsKeepProtocol == JobsSpec => []RowProtocol
<1>1. JobsInit => Typed /\ RowProtocol
  BY InitType, InitRows
<1>2. Typed /\ RowProtocol /\ [JobsNext]_jobVars => (Typed /\ RowProtocol)'
  BY StepType, StepRows
<1>3. QED
  BY <1>1, <1>2, PTL DEF JobsSpec

\* The fences of transitionOwnedWith cannot match a row that left running.
THEOREM OwnersHoldRunningRows == JobsSpec => []HeldOnlyWhileRunning
<1>1. RowProtocol => HeldOnlyWhileRunning
  BY DEF RowProtocol
<1>2. QED
  BY <1>1, RowsKeepProtocol, PTL

\* Only rows reopened by Retry are out of RecoverExpired's reach.
THEOREM RunningRowsAreLeased == JobsSpec => []UnleasedOnlyAfterRetry
<1>1. RowProtocol => UnleasedOnlyAfterRetry
  BY DEF RowProtocol
<1>2. QED
  BY <1>1, RowsKeepProtocol, PTL

\* A row that waits or is polled has its provider task, one whose submission
\* is in flight has none.
THEOREM TasksMatchPhases == JobsSpec => []TaskMatchesPhase
<1>1. RowProtocol => TaskMatchesPhase
  BY DEF RowProtocol
<1>2. QED
  BY <1>1, RowsKeepProtocol, PTL

\* Dubbing and composition jobs run only under a claim.
THEOREM WorkersRunWorkerJobs == JobsSpec => []WorkerJobsRunUnderClaim
<1>1. RowProtocol => WorkerJobsRunUnderClaim
  BY DEF RowProtocol
<1>2. QED
  BY <1>1, RowsKeepProtocol, PTL
-----------------------------------------------------------------------------
(***************************************************************************)
(* One active row per target, but for Retry.  Rows are numbered in the     *)
(* order of their inserts, so that a new row has nothing above it.         *)
(***************************************************************************)
InsertsInOrder ==
  \A j, k \in JobIds : (j < k /\ k \in Created) => j \in Created

TableOrder == InsertsInOrder /\ OlderActiveWasRetried

Inv == Typed /\ RowProtocol /\ TableOrder

\* Updates that insert nothing, move no target, reopen nothing at its first
\* attempt and never lower an attempt keep the order of the table.
LEMMA KeepsTableOrder ==
  ASSUME Typed, TableOrder, target' = target, Created' = Created,
         \A j \in JobIds : Active(j)' => (Active(j) /\ attempt'[j] = attempt[j]) \/ attempt'[j] > 1
  PROVE  TableOrder'
BY DEF TableOrder, InsertsInOrder, OlderActiveWasRetried, JobIds

\* Every update of the service keeps the table in order.
LEMMA StepOrder ==
  ASSUME Typed, RowProtocol, TableOrder, [JobsNext]_jobVars
  PROVE  TableOrder'
<1> USE DEF Typed, TypeOK, Created, Active, rowVars
<1>1. CASE UNCHANGED jobVars
  BY <1>1, KeepsTableOrder DEF jobVars
<1>2. ASSUME NEW j \in JobIds, NEW t \in Targets, NEW r \in AnyRun, CreateNew(j, t, r)
      PROVE  TableOrder'
  <2>1. /\ j \notin Created
        /\ \A k \in 1..(j - 1) : k \in Created
        /\ Created' = Created \union {j}
        /\ target' = [target EXCEPT ![j] = t]
        /\ attempt' = attempt
        /\ \A k \in JobIds \ {j} : Active(k)' = Active(k)
    BY <1>2 DEF CreateNew, Insert
  <2>2. \A k \in JobIds : k < j => k \in 1..(j - 1)
    BY DEF JobIds
  <2>3. \A k \in JobIds : j < k => k \notin Created
    BY <2>1 DEF TableOrder, InsertsInOrder
  <2>4. InsertsInOrder'
    BY <2>1, <2>2, <2>3 DEF TableOrder, InsertsInOrder, JobIds
  <2>5. \A k \in JobIds : target[k] = t => ~Active(k)
    BY <1>2 DEF CreateNew, ActiveOf, ActiveJobs
  <2>6. OlderActiveWasRetried'
    <3> SUFFICES ASSUME NEW h \in JobIds, NEW k \in JobIds,
                        h < k, k \in Created', target'[h] = target'[k], Active(h)'
                 PROVE  attempt'[h] > 1
      BY DEF OlderActiveWasRetried
    <3>1. h # j
      BY <2>1, <2>3 DEF JobIds
    <3>2. k # j
      BY <2>1, <2>5, <3>1
    <3>3. QED
      BY <2>1, <3>1, <3>2 DEF TableOrder, OlderActiveWasRetried
  <2>7. QED
    BY <2>4, <2>6 DEF TableOrder
<1>3. ASSUME NEW j \in JobIds, NEW t \in Targets, NEW r \in AnyRun, CreateReuse(j, t, r)
      PROVE  TableOrder'
  BY <1>3, KeepsTableOrder DEF CreateReuse, AttachRun
<1>4. ASSUME NEW j \in JobIds, NEW t \in Tasks, SetWaitingCurrent(j, t)
      PROVE  TableOrder'
  BY <1>4, KeepsTableOrder DEF SetWaitingCurrent, Current
<1>5. ASSUME NEW S \in SUBSET ActiveJobs, NEW s \in Terminal, Settle(S, s)
      PROVE  TableOrder'
  BY <1>5, KeepsTableOrder DEF Settle, ActiveJobs, Terminal
<1>6. ASSUME NEW c \in Callers, NEW j \in JobIds, RetryRead(c, j)
      PROVE  TableOrder'
  BY <1>6, KeepsTableOrder DEF RetryRead, Remember
<1>7. ASSUME NEW c \in Callers, RetryWrite(c)
      PROVE  TableOrder'
  <2> DEFINE seen == retrying[c]
  <2>1. seen.job \in JobIds /\ seen.status \in {"failed", "canceled"} /\ seen.attempt \in Nat \ {0}
    BY <1>7, BoundsAssumption DEF RetryWrite, Snapshot
  <2>2. CASE RetryUpdate(seen.job, seen)
    <3> HIDE DEF seen
    <3>1. QED
      BY <2>1, <2>2, KeepsTableOrder DEF RetryUpdate, ReopenAs, NextStatus
  <2>3. CASE RetryRefused(seen.job, seen)
    BY <2>3, KeepsTableOrder DEF RetryRefused
  <2>4. QED
    BY <1>7, <2>2, <2>3 DEF RetryWrite
<1>8. ASSUME NEW r \in Runs, DetachChildren(r)
      PROVE  TableOrder'
  BY <1>8, KeepsTableOrder DEF DetachChildren
<1>9. ASSUME NEW o \in Owners, ClaimSelect(o)
      PROVE  TableOrder'
  BY <1>9, KeepsTableOrder DEF ClaimSelect
<1>10. ASSUME NEW o \in Owners, ClaimCommit(o)
       PROVE  TableOrder'
  <2>1. candidate[o] \in JobIds
    BY <1>10 DEF ClaimCommit
  <2>2. CASE ClaimUpdate(candidate[o], o)
    BY <2>1, <2>2, KeepsTableOrder DEF ClaimUpdate, Claimable
  <2>3. CASE ClaimMiss(candidate[o])
    BY <2>3, KeepsTableOrder DEF ClaimMiss
  <2>4. QED
    BY <1>10, <2>2, <2>3 DEF ClaimCommit
<1>11. ASSUME NEW j \in JobIds, NEW o \in Owners, RenewLease(j, o)
       PROVE  TableOrder'
  BY <1>11, KeepsTableOrder DEF RenewLease
<1>12. ASSUME NEW j \in JobIds, NEW o \in Owners, RequeueJob(j, o)
       PROVE  TableOrder'
  BY <1>12, KeepsTableOrder DEF RequeueJob, IsOwned
<1>13. CASE RecoverExpired
  <2>1. \A j \in JobIds : Reopenable(j) =>
          Active(j) /\ Recovered(j) \in {"queued", "waiting", "failed"}
    BY DEF Reopenable, Recovered
  <2>2. QED
    BY <1>13, <2>1, KeepsTableOrder DEF RecoverExpired
<1>14. ASSUME NEW j \in JobIds, LeaseElapses(j)
       PROVE  TableOrder'
  BY <1>14, KeepsTableOrder DEF LeaseElapses
<1>15. ASSUME NEW j \in JobIds, BecomeDue(j)
       PROVE  TableOrder'
  BY <1>15, KeepsTableOrder DEF BecomeDue
<1>16. CASE NewDay
  BY <1>16, KeepsTableOrder DEF NewDay
<1>17. QED
  BY NextCases, <1>1, <1>2, <1>3, <1>4, <1>5, <1>6, <1>7, <1>8, <1>9, <1>10, <1>11,
     <1>12, <1>13, <1>14, <1>15, <1>16

\* The inductive invariant of the job service.
THEOREM Invariance == JobsSpec => []Inv
<1>1. JobsInit => TableOrder
  BY DEF JobsInit, TableOrder, InsertsInOrder, OlderActiveWasRetried, Created, Active
<1>2. JobsInit => Inv
  BY <1>1, InitType, InitRows DEF Inv
<1>3. Inv /\ [JobsNext]_jobVars => Inv'
  BY StepType, StepRows, StepOrder DEF Inv
<1>4. QED
  BY <1>2, <1>3, PTL DEF JobsSpec

\* An older row of a target is active next to a newer one only after Retry
\* reopened it: create itself never makes a second active row.
THEOREM OneActiveRowButForRetry == JobsSpec => []OlderActiveWasRetried
<1>1. Inv => OlderActiveWasRetried
  BY DEF Inv, TableOrder
<1>2. QED
  BY <1>1, Invariance, PTL
-----------------------------------------------------------------------------
(***************************************************************************)
(* What no step does, and the refinement of the job lifecycle.             *)
(***************************************************************************)
KeepsTasks ==
  \A j \in JobIds : (task[j] # NoTask /\ task'[j] # task[j]) =>
     (status[j] \in {"failed", "canceled"} /\ status'[j] \in {"queued", "running"})

\* Only SetWaitingCurrent and Retry write provider_task_id; the first finds
\* none there, the second ends the attempt.
LEMMA StepKeepsTasks ==
  ASSUME Typed, RowProtocol, [JobsNext]_jobVars
  PROVE  KeepsTasks
<1> USE DEF KeepsTasks
<1>1. CASE \E j \in JobIds, t \in Tasks : SetWaitingCurrent(j, t)
  BY <1>1 DEF SetWaitingCurrent, Current, Typed, TypeOK, RowProtocol, TaskMatchesPhase
<1>2. CASE \E c \in Callers : RetryWrite(c)
  <2>1. PICK c \in Callers : RetryWrite(c)
    BY <1>2
  <2>2. retrying[c] \in Snapshot
    BY <2>1 DEF Typed, TypeOK, RetryWrite
  <2>3. QED
    BY <2>1, <2>2 DEF RetryWrite, RetryUpdate, RetryRefused, ReopenAs, NextStatus,
                      Snapshot, Typed, TypeOK, rowVars
<1>3. ASSUME task' = task
      PROVE  KeepsTasks
  BY <1>3
<1>4. QED
  BY NextCases, <1>1, <1>2, <1>3
     DEF jobVars, rowVars, CreateNew, Insert, CreateReuse, AttachRun, Settle, RetryRead,
         Remember, DetachChildren, ClaimSelect, ClaimCommit, ClaimUpdate, ClaimMiss,
         RenewLease, RequeueJob, RecoverExpired, LeaseElapses, BecomeDue, NewDay

\* A recorded provider task stays with the attempt that has it.
THEOREM TasksKept == JobsSpec => TaskKeptWithinAttempt
<1>1. Inv /\ [JobsNext]_jobVars => [KeepsTasks]_jobVars
  BY StepKeepsTasks DEF Inv
<1>2. QED
  BY <1>1, Invariance, PTL DEF JobsSpec, TaskKeptWithinAttempt, KeepsTasks

KeepsRuns ==
  \A j \in JobIds : (run[j] # NoRun /\ run'[j] # run[j]) =>
     (run'[j] = NoRun /\ status[j] \in {"failed", "canceled"})

\* Only create, and the retry of a production run, write production_run_id.
LEMMA StepKeepsRuns ==
  ASSUME Typed, RowProtocol, [JobsNext]_jobVars
  PROVE  KeepsRuns
<1> USE DEF KeepsRuns, Typed, TypeOK
<1>1. CASE \E j \in JobIds, t \in Targets, r \in AnyRun : CreateNew(j, t, r)
  BY <1>1 DEF CreateNew, Insert, Created, RowProtocol, BlankRows
<1>2. CASE \E j \in JobIds, t \in Targets, r \in AnyRun : CreateReuse(j, t, r)
  BY <1>2 DEF CreateReuse, AttachRun
<1>3. CASE \E r \in Runs : DetachChildren(r)
  BY <1>3 DEF DetachChildren
<1>4. ASSUME run' = run
      PROVE  KeepsRuns
  BY <1>4
<1>5. QED
  BY NextCases, <1>1, <1>2, <1>3, <1>4
     DEF jobVars, rowVars, SetWaitingCurrent, Settle, RetryRead, Remember, RetryWrite,
         RetryUpdate, RetryRefused, ReopenAs, ClaimSelect, ClaimCommit, ClaimUpdate,
         ClaimMiss, RenewLease, RequeueJob, RecoverExpired, LeaseElapses, BecomeDue, NewDay

\* No production run takes over the job of another one.
THEOREM RunsKept == JobsSpec => RunNeverTakenOver
<1>1. Inv /\ [JobsNext]_jobVars => [KeepsRuns]_jobVars
  BY StepKeepsRuns DEF Inv
<1>2. QED
  BY <1>1, Invariance, PTL DEF JobsSpec, RunNeverTakenOver, KeepsRuns

Moves(j) ==
  \/ Lifecycle!Keeps(j) \/ Lifecycle!Accept(j) \/ Lifecycle!Take(j)
  \/ Lifecycle!Release(j) \/ Lifecycle!Conclude(j) \/ Lifecycle!Reopen(j)

\* Every update moves each row by a step of its lifecycle, or not at all.
LEMMA StepMoves ==
  ASSUME Typed, RowProtocol, [JobsNext]_jobVars, NEW i \in JobIds
  PROVE  Moves(i)
<1> USE NullsAssumption
    DEF Moves, Lifecycle!Keeps, Lifecycle!Accept, Lifecycle!Take, Lifecycle!Release,
        Lifecycle!Conclude, Lifecycle!Reopen, Phase, Active, Typed, TypeOK, rowVars
<1>1. ASSUME status' = status, attempt' = attempt, owner' = owner
      PROVE  Moves(i)
  BY <1>1
<1>2. ASSUME NEW j \in JobIds, NEW t \in Targets, NEW r \in AnyRun, CreateNew(j, t, r)
      PROVE  Moves(i)
  BY <1>2 DEF CreateNew, Insert, Created, RowProtocol, BlankRows
<1>3. ASSUME NEW j \in JobIds, NEW t \in Tasks, SetWaitingCurrent(j, t)
      PROVE  Moves(i)
  BY <1>3 DEF SetWaitingCurrent, Current
<1>4. ASSUME NEW S \in SUBSET ActiveJobs, NEW s \in Terminal, Settle(S, s)
      PROVE  Moves(i)
  BY <1>4 DEF Settle, Terminal, ActiveJobs
<1>5. ASSUME NEW c \in Callers, RetryWrite(c)
      PROVE  Moves(i)
  <2> DEFINE seen == retrying[c]
  <2>1. /\ seen.job \in JobIds /\ seen.status \in {"failed", "canceled"}
        /\ seen.attempt \in 1..MaxAttempts /\ seen.attempt < MaxAttempts
    BY <1>5 DEF RetryWrite, Snapshot, SnapshotsRetryable
  <2>2. CASE RetryUpdate(seen.job, seen)
    <3> HIDE DEF seen
    <3>1. seen.attempt + 1 \in 2..MaxAttempts
      BY <2>1, BoundsAssumption
    <3>2. owner[seen.job] = NoOwner
      BY <2>1, <2>2 DEF RetryUpdate, ReopenAs, RowProtocol, HeldOnlyWhileRunning
    <3>3. QED
      BY <2>1, <2>2, <3>1, <3>2 DEF RetryUpdate, ReopenAs, NextStatus
  <2>3. CASE RetryRefused(seen.job, seen)
    BY <2>3 DEF RetryRefused
  <2>4. QED
    BY <1>5, <2>2, <2>3 DEF RetryWrite
<1>6. ASSUME NEW o \in Owners, ClaimCommit(o)
      PROVE  Moves(i)
  <2>1. candidate[o] \in JobIds
    BY <1>6 DEF ClaimCommit
  <2>2. CASE ClaimUpdate(candidate[o], o)
    BY <2>1, <2>2 DEF ClaimUpdate, Claimable, RowProtocol, HeldOnlyWhileRunning
  <2>3. CASE ClaimMiss(candidate[o])
    BY <2>3 DEF ClaimMiss
  <2>4. QED
    BY <1>6, <2>2, <2>3 DEF ClaimCommit
<1>7. ASSUME NEW j \in JobIds, NEW o \in Owners, RequeueJob(j, o)
      PROVE  Moves(i)
  BY <1>7 DEF RequeueJob, IsOwned
<1>8. CASE RecoverExpired
  <2>1. Reopenable(i) => Active(i) /\ Recovered(i) \in {"queued", "waiting", "failed"}
    BY DEF Reopenable, Recovered
  <2>2. QED
    BY <1>8, <2>1 DEF RecoverExpired
<1>9. QED
  BY NextCases, <1>1, <1>2, <1>3, <1>4, <1>5, <1>6, <1>7, <1>8
     DEF jobVars, CreateReuse, AttachRun, RetryRead, Remember, DetachChildren, ClaimSelect,
         RenewLease, LeaseElapses, BecomeDue, NewDay

\* The job service implements the lifecycle: a job is held by one worker at a
\* time and only while it is active, it is settled once per attempt, and it
\* is reopened only by Retry, with an attempt number within MaxAttempts.
THEOREM Refinement == JobsSpec => ImplementsLifecycle
<1>1. JobsInit => Lifecycle!LInit
  BY DEF JobsInit, Lifecycle!LInit, Phase, Active
<1>2. Typed /\ RowProtocol /\ [JobsNext]_jobVars =>
        [Lifecycle!LStep]_<<[j \in JobIds |-> Phase(j)], attempt, owner>>
  BY StepMoves DEF Lifecycle!LStep, Moves
<1>3. Inv => Typed /\ RowProtocol
  BY DEF Inv
<1>4. QED
  BY <1>1, <1>2, <1>3, Invariance, PTL DEF JobsSpec, ImplementsLifecycle, Lifecycle!LSpec
-----------------------------------------------------------------------------
(***************************************************************************)
(* The active-job limit.  create counts every active row, so it admits a   *)
(* row only while the first attempts, which are some of them, are fewer    *)
(* than the limit; no other update makes an active first attempt.          *)
(***************************************************************************)
\* The table is bounded, so its rows can be counted.
LEMMA JobIdsFinite == IsFiniteSet(JobIds)
BY FS_Interval, BoundsAssumption DEF JobIds

\* Fewer first attempts stay within the limit.
LEMMA FewerFirstAttempts ==
  ASSUME FirstAttemptsWithinLimit, FirstAttempts' \subseteq FirstAttempts
  PROVE  FirstAttemptsWithinLimit'
<1>1. FirstAttempts \subseteq JobIds
  BY DEF FirstAttempts, ActiveJobs
<1>2. IsFiniteSet(FirstAttempts)
  BY <1>1, JobIdsFinite, FS_Subset
<1>3. Cardinality(FirstAttempts') <= Cardinality(FirstAttempts)
  BY <1>2, FS_Subset
<1>4. Cardinality(FirstAttempts') \in Nat /\ Cardinality(FirstAttempts) \in Nat
  BY <1>2, FS_Subset, FS_CardinalityType
<1>5. QED
  BY <1>3, <1>4, BoundsAssumption DEF FirstAttemptsWithinLimit

\* create makes at most one more, of a table that was below the limit.
LEMMA CreateWithinLimit ==
  ASSUME Typed, NEW j \in JobIds, NEW t \in Targets, NEW r \in AnyRun, CreateNew(j, t, r)
  PROVE  FirstAttemptsWithinLimit'
<1> SUFFICES ASSUME MaxActiveJobs > 0
             PROVE  Cardinality(FirstAttempts') <= MaxActiveJobs
  BY DEF FirstAttemptsWithinLimit
<1>1. IsFiniteSet(ActiveJobs) /\ Cardinality(ActiveJobs) \in Nat
  BY JobIdsFinite, FS_Subset, FS_CardinalityType DEF ActiveJobs
<1>2. Cardinality(ActiveJobs) < MaxActiveJobs
  BY DEF CreateNew, QuotaAllows
<1>3. FirstAttempts' \subseteq ActiveJobs \union {j}
  BY DEF CreateNew, Insert, FirstAttempts, ActiveJobs, Active, Typed, TypeOK
<1>4. /\ IsFiniteSet(ActiveJobs \union {j})
      /\ Cardinality(ActiveJobs \union {j}) <= Cardinality(ActiveJobs) + 1
  <2>1. Cardinality(ActiveJobs \union {j}) = IF j \in ActiveJobs THEN Cardinality(ActiveJobs)
                                                                ELSE Cardinality(ActiveJobs) + 1
    BY <1>1, FS_AddElement, Zenon
  <2>2. IsFiniteSet(ActiveJobs \union {j})
    BY <1>1, FS_AddElement, Zenon
  <2>3. QED
    BY <1>1, <2>1, <2>2
<1>5. /\ Cardinality(FirstAttempts') <= Cardinality(ActiveJobs \union {j})
      /\ Cardinality(FirstAttempts') \in Nat
      /\ Cardinality(ActiveJobs \union {j}) \in Nat
  BY <1>3, <1>4, FS_Subset, FS_CardinalityType
<1>6. QED
  BY <1>1, <1>2, <1>4, <1>5, BoundsAssumption

\* No other update makes an active first attempt: Retry's attempts come after.
LEMMA StepWithinLimit ==
  ASSUME Typed, FirstAttemptsWithinLimit, [JobsNext]_jobVars
  PROVE  FirstAttemptsWithinLimit'
<1>1. ASSUME NEW j \in JobIds, NEW t \in Targets, NEW r \in AnyRun, CreateNew(j, t, r)
      PROVE  FirstAttemptsWithinLimit'
  BY <1>1, CreateWithinLimit
<1> USE DEF FirstAttempts, ActiveJobs, Active, Typed, TypeOK, rowVars
<1>2. ASSUME status' = status, attempt' = attempt
      PROVE  FirstAttemptsWithinLimit'
  BY <1>2, FewerFirstAttempts
<1>3. ASSUME NEW j \in JobIds, NEW t \in Tasks, SetWaitingCurrent(j, t)
      PROVE  FirstAttemptsWithinLimit'
  BY <1>3, FewerFirstAttempts DEF SetWaitingCurrent, Current
<1>4. ASSUME NEW S \in SUBSET ActiveJobs, NEW s \in Terminal, Settle(S, s)
      PROVE  FirstAttemptsWithinLimit'
  BY <1>4, FewerFirstAttempts DEF Settle, Terminal
<1>5. ASSUME NEW c \in Callers, RetryWrite(c)
      PROVE  FirstAttemptsWithinLimit'
  <2> DEFINE seen == retrying[c]
  <2>1. seen.job \in JobIds /\ seen.attempt \in Nat \ {0}
    BY <1>5, BoundsAssumption DEF RetryWrite, Snapshot
  <2>2. CASE RetryUpdate(seen.job, seen)
    <3> HIDE DEF seen
    <3>1. attempt'[seen.job] # 1
      BY <2>1, <2>2 DEF RetryUpdate, ReopenAs
    <3>2. QED
      BY <2>1, <2>2, <3>1, FewerFirstAttempts DEF RetryUpdate, ReopenAs
  <2>3. CASE RetryRefused(seen.job, seen)
    BY <2>3, FewerFirstAttempts DEF RetryRefused
  <2>4. QED
    BY <1>5, <2>2, <2>3 DEF RetryWrite
<1>6. ASSUME NEW o \in Owners, ClaimCommit(o)
      PROVE  FirstAttemptsWithinLimit'
  <2>1. CASE ClaimUpdate(candidate[o], o)
    BY <2>1, FewerFirstAttempts DEF ClaimUpdate, Claimable
  <2>2. CASE ClaimMiss(candidate[o])
    BY <2>2, FewerFirstAttempts DEF ClaimMiss
  <2>3. QED
    BY <1>6, <2>1, <2>2 DEF ClaimCommit
<1>7. ASSUME NEW j \in JobIds, NEW o \in Owners, RequeueJob(j, o)
      PROVE  FirstAttemptsWithinLimit'
  BY <1>7, FewerFirstAttempts DEF RequeueJob, IsOwned
<1>8. CASE RecoverExpired
  BY <1>8, FewerFirstAttempts DEF RecoverExpired, Reopenable
<1>9. QED
  BY NextCases, <1>1, <1>2, <1>3, <1>4, <1>5, <1>6, <1>7, <1>8
     DEF jobVars, rowVars, CreateReuse, AttachRun, RetryRead, Remember, DetachChildren,
         ClaimSelect, RenewLease, LeaseElapses, BecomeDue, NewDay

\* The jobs that create admitted never exceed the organization's active-job
\* limit; that all active jobs do not is false, because Retry is not counted.
THEOREM FirstAttemptsStayWithinLimit == JobsSpec => []FirstAttemptsWithinLimit
<1>1. JobsInit => FirstAttemptsWithinLimit
  <2>1. JobsInit => FirstAttempts = {}
    BY DEF JobsInit, FirstAttempts, ActiveJobs, Active
  <2>2. QED
    BY <2>1, FS_EmptySet, BoundsAssumption DEF FirstAttemptsWithinLimit
<1>2. Typed /\ FirstAttemptsWithinLimit /\ [JobsNext]_jobVars => FirstAttemptsWithinLimit'
  BY StepWithinLimit
<1>3. Inv => Typed
  BY DEF Inv
<1>4. QED
  BY <1>1, <1>2, <1>3, Invariance, PTL DEF JobsSpec
-----------------------------------------------------------------------------
(***************************************************************************)
(* Sums.  The library's induction takes a formula as a parameter, which    *)
(* the provers cannot instantiate; a set of numbers that contains 0 and    *)
(* the successor of each of its members serves instead.                    *)
(***************************************************************************)
\* A set of numbers that is not empty has a least one.
LEMMA LeastMember ==
  ASSUME NEW S \in SUBSET Nat, S # {}
  PROVE  \E m \in S : \A n \in S : m <= n
<1> DEFINE Below == {p \in Nat \X Nat : p[1] < p[2]}
<1>1. IsWellFoundedOn(Below, Nat)
  BY NatLessThanWellFounded DEF OpToRel
<1>2. \E x \in S : \A y \in S : <<y, x>> \notin Below
  <2> HIDE DEF Below
  <2>1. QED
    BY <1>1, WFMin
<1>3. PICK x \in S : \A y \in S : <<y, x>> \notin Below
  BY <1>2
<1>4. ASSUME NEW n \in S, n < x PROVE FALSE
  <2>1. <<n, x>> \in Nat \X Nat
    OBVIOUS
  <2>2. QED
    BY <1>3, <1>4, <2>1
<1>5. QED
  BY <1>4

\* A set with 0 and every successor has every number.
LEMMA EveryNumber ==
  ASSUME NEW A \in SUBSET Nat, 0 \in A, \A k \in A : k + 1 \in A
  PROVE  \A k \in Nat : k \in A
<1> SUFFICES ASSUME Nat \ A # {} PROVE FALSE
  OBVIOUS
<1>1. PICK m \in Nat \ A : \A k \in Nat \ A : m <= k
  BY LeastMember
<1>2. m - 1 \in A
  BY <1>1
<1>3. QED
  BY <1>1, <1>2

\* h has the sum of f over each set of numbers up to n.
HasSums(f, n, h) ==
  /\ h \in [SUBSET (1..n) -> Nat] /\ h[{}] = 0
  /\ \A S \in SUBSET (1..n), x \in 1..n : x \notin S => h[S \union {x}] = f[x] + h[S]

\* There is such a function.
LEMMA SumsExist ==
  ASSUME NEW n \in Nat, NEW f, \A i \in 1..n : f[i] \in Nat
  PROVE  \E h : HasSums(f, n, h)
<1> DEFINE A == {k \in Nat : k <= n => \E h : HasSums(f, k, h)}
<1>1. 0 \in A
  <2> DEFINE h == [S \in SUBSET (1..0) |-> 0]
  <2>1. HasSums(f, 0, h)
    BY DEF HasSums
  <2>2. QED
    BY <2>1
<1>2. ASSUME NEW k \in A, k + 1 <= n PROVE \E h : HasSums(f, k + 1, h)
  <2>1. PICK g : HasSums(f, k, g)
    BY <1>2
  <2>2. k \in Nat /\ f[k + 1] \in Nat
    BY <1>2
  <2> DEFINE last(S) == IF k + 1 \in S THEN f[k + 1] ELSE 0
             h == [S \in SUBSET (1..k + 1) |-> g[S \ {k + 1}] + last(S)]
  <2>3. \A S \in SUBSET (1..k + 1) : S \ {k + 1} \in SUBSET (1..k)
    BY <2>2
  <2>4. h \in [SUBSET (1..k + 1) -> Nat]
    BY <2>1, <2>2, <2>3 DEF HasSums
  <2>5. h[{}] = 0
    <3>1. {} \in SUBSET (1..k + 1) /\ {} \ {k + 1} = {} /\ last({}) = 0
      OBVIOUS
    <3>2. QED
      BY <2>1, <3>1 DEF HasSums
  <2>6. ASSUME NEW S \in SUBSET (1..k + 1), NEW x \in 1..k + 1, x \notin S
        PROVE  h[S \union {x}] = f[x] + h[S]
    <3> DEFINE most == S \ {k + 1}
    <3>1. most \in SUBSET (1..k) /\ g[most] \in Nat /\ S \union {x} \in SUBSET (1..k + 1)
      BY <2>1, <2>3 DEF HasSums
    <3>2. h[S] = g[most] + last(S) /\ h[S \union {x}] = g[(S \union {x}) \ {k + 1}] + last(S \union {x})
      BY <3>1
    <3>3. CASE x = k + 1
      <4>1. (S \union {x}) \ {k + 1} = most /\ last(S) = 0 /\ last(S \union {x}) = f[x]
        BY <2>6, <3>3
      <4> HIDE DEF h, most, last
      <4>2. QED
        BY <2>2, <3>1, <3>2, <3>3, <4>1
    <3>4. CASE x # k + 1
      <4>1. x \in 1..k /\ x \notin most /\ (S \union {x}) \ {k + 1} = most \union {x} /\ last(S \union {x}) = last(S)
        BY <2>2, <2>6, <3>4
      <4>2. last(S) \in Nat /\ f[x] \in Nat
        BY <1>2, <2>2, <4>1
      <4> HIDE DEF h, most, last
      <4>3. g[most \union {x}] = f[x] + g[most]
        BY <2>1, <3>1, <4>1 DEF HasSums
      <4>4. h[S \union {x}] = (f[x] + g[most]) + last(S)
        BY <3>2, <4>1, <4>3
      <4>5. QED
        BY <3>1, <3>2, <4>2, <4>4
    <3>5. QED
      BY <3>3, <3>4
  <2> HIDE DEF h
  <2>7. QED
    BY <2>4, <2>5, <2>6 DEF HasSums
<1>3. \A k \in A : k + 1 \in A
  BY <1>2
<1> HIDE DEF A
<1>4. n \in A
  <2>1. A \in SUBSET Nat
    BY DEF A
  <2>2. QED
    BY <1>1, <1>3, <2>1, EveryNumber
<1>5. QED
  BY <1>4 DEF A

\* The fold that defines Sum satisfies its recursion, once some function does.
LEMMA SumUnfolds ==
  ASSUME NEW f, NEW S, NEW h,
         h = [s \in SUBSET S |-> IF s = {} THEN 0
                                 ELSE f[CHOOSE e \in s : TRUE] + h[s \ {CHOOSE e \in s : TRUE}]]
  PROVE  \E g : /\ g = [s \in SUBSET S |-> IF s = {} THEN 0
                                           ELSE f[CHOOSE e \in s : TRUE] + g[s \ {CHOOSE e \in s : TRUE}]]
                /\ Sum(f, S) = g[S]
<1> DEFINE Is(g) == g = [s \in SUBSET S |-> IF s = {} THEN 0
                                            ELSE f[CHOOSE e \in s : TRUE] + g[s \ {CHOOSE e \in s : TRUE}]]
           g == CHOOSE g : Is(g)
<1>1. Is(g)
  <2>1. Is(h)
    OBVIOUS
  <2> HIDE DEF Is
  <2>2. QED
    BY <2>1
<1>2. Sum(f, S) = g[S]
  BY DEF Sum, MapThenSumSet, MapThenFoldSet
<1> HIDE DEF g
<1>3. QED
  BY <1>1, <1>2

\* Whatever order the fold takes its elements in, it computes that function.
LEMMA SumIs ==
  ASSUME NEW n \in Nat, NEW f, NEW h, HasSums(f, n, h), NEW S \in SUBSET (1..n)
  PROVE  Sum(f, S) = h[S]
<1> DEFINE pick(s) == CHOOSE e \in s : TRUE
           r == [s \in SUBSET S |-> h[s]]
<1>1. ASSUME NEW s \in SUBSET S, s # {}
      PROVE  pick(s) \in s /\ s \ {pick(s)} \in SUBSET S /\ h[s] = f[pick(s)] + h[s \ {pick(s)}]
  <2> DEFINE x == pick(s)
  <2>1. x \in s
    BY <1>1
  <2> HIDE DEF x
  <2>2. x \in 1..n /\ s \ {x} \in SUBSET (1..n) /\ x \notin s \ {x} /\ (s \ {x}) \union {x} = s
    BY <2>1
  <2>3. h[s] = f[x] + h[s \ {x}]
    BY <2>2 DEF HasSums
  <2>4. QED
    BY <2>1, <2>3 DEF x
<1>2. r = [s \in SUBSET S |-> IF s = {} THEN 0 ELSE f[pick(s)] + r[s \ {pick(s)}]]
  <2>1. ASSUME NEW s \in SUBSET S
        PROVE  r[s] = IF s = {} THEN 0 ELSE f[pick(s)] + r[s \ {pick(s)}]
    BY <1>1 DEF HasSums
  <2> HIDE DEF pick
  <2>2. QED
    BY <2>1
<1>3. PICK g : /\ g = [s \in SUBSET S |-> IF s = {} THEN 0 ELSE f[pick(s)] + g[s \ {pick(s)}]]
               /\ Sum(f, S) = g[S]
  BY <1>2, SumUnfolds
<1> DEFINE Wrong == {s \in SUBSET S : g[s] # h[s]}
           sizes == {Cardinality(s) : s \in Wrong}
<1> HIDE DEF pick
<1>4. Wrong = {}
  <2> SUFFICES ASSUME Wrong # {} PROVE FALSE
    OBVIOUS
  <2>1. \A s \in SUBSET S : IsFiniteSet(s) /\ Cardinality(s) \in Nat
    <3>1. IsFiniteSet(1..n)
      BY FS_Interval
    <3>2. QED
      BY <3>1, FS_Subset, FS_CardinalityType
  <2>2. sizes \in SUBSET Nat /\ sizes # {}
    BY <2>1
  <2>3. PICK m \in sizes : \A k \in sizes : m <= k
    BY <2>2, LeastMember
  <2>4. PICK s \in Wrong : Cardinality(s) = m
    BY <2>3
  <2>5. s # {}
    BY <1>3 DEF HasSums
  <2> DEFINE rest == s \ {pick(s)}
  <2>6. pick(s) \in s /\ rest \in SUBSET S /\ h[s] = f[pick(s)] + h[rest]
    BY <1>1, <2>5
  <2>7. Cardinality(rest) = Cardinality(s) - 1 /\ Cardinality(rest) \in Nat
    BY <2>1, <2>6, FS_RemoveElement
  <2>8. rest \notin Wrong
    BY <2>2, <2>3, <2>4, <2>7
  <2>9. g[s] = f[pick(s)] + g[rest]
    BY <1>3, <2>5
  <2>10. QED
    BY <2>6, <2>8, <2>9
<1>5. QED
  BY <1>3, <1>4

\* The first n values of f are numbers.
NatValued(f, n) == \A i \in 1..n : f[i] \in Nat

\* What the sum over a set of rows is.
LEMMA SumFacts ==
  ASSUME NEW n \in Nat, NEW f, NatValued(f, n)
  PROVE  /\ Sum(f, {}) = 0
         /\ \A S \in SUBSET (1..n) : Sum(f, S) \in Nat
         /\ \A S \in SUBSET (1..n), x \in 1..n : x \notin S => Sum(f, S \union {x}) = f[x] + Sum(f, S)
<1>1. PICK h : HasSums(f, n, h)
  BY SumsExist DEF NatValued
<1>2. \A S \in SUBSET (1..n) : Sum(f, S) = h[S]
  BY <1>1, SumIs
<1>3. \A S \in SUBSET (1..n), x \in 1..n : S \union {x} \in SUBSET (1..n)
  OBVIOUS
<1>4. QED
  BY <1>1, <1>2, <1>3 DEF HasSums

\* The sum over the rows of a set up to the k-th.
UpTo(f, S, k) == Sum(f, S \intersect (1..k))

\* It is computed one row at a time: nothing at first,
LEMMA UpToNone ==
  ASSUME NEW n \in Nat, NEW f, NatValued(f, n), NEW S
  PROVE  UpTo(f, S, 0) = 0
<1>1. S \intersect (1..0) = {}
  OBVIOUS
<1>2. Sum(f, {}) = 0
  BY SumFacts
<1>3. QED
  BY <1>1, <1>2 DEF UpTo

\* then one row more,
LEMMA UpToNext ==
  ASSUME NEW n \in Nat, NEW f, NatValued(f, n), NEW S, NEW k \in Nat, k + 1 \in 1..n
  PROVE  /\ UpTo(f, S, k) \in Nat /\ f[k + 1] \in Nat
         /\ UpTo(f, S, k + 1) = (IF k + 1 \in S THEN f[k + 1] ELSE 0) + UpTo(f, S, k)
<1> DEFINE T == S \intersect (1..k)
<1>1. T \in SUBSET (1..n) /\ k + 1 \notin T
  OBVIOUS
<1>2. Sum(f, T) \in Nat /\ Sum(f, T \union {k + 1}) = f[k + 1] + Sum(f, T)
  <2> HIDE DEF T
  <2>1. QED
    BY <1>1, SumFacts
<1>3. k + 1 \in S => S \intersect (1..k + 1) = T \union {k + 1}
  OBVIOUS
<1>4. k + 1 \notin S => S \intersect (1..k + 1) = T
  OBVIOUS
<1>5. UpTo(f, S, k) = Sum(f, T) /\ UpTo(f, S, k + 1) = Sum(f, S \intersect (1..k + 1))
  BY DEF UpTo
<1>6. f[k + 1] \in Nat
  BY DEF NatValued
<1> HIDE DEF T
<1>7. QED
  BY <1>2, <1>3, <1>4, <1>5, <1>6

\* up to all of them.
LEMMA UpToAll ==
  ASSUME NEW n \in Nat, NEW f, NEW S \in SUBSET (1..n)
  PROVE  UpTo(f, S, n) = Sum(f, S)
<1>1. S \intersect (1..n) = S
  OBVIOUS
<1>2. QED
  BY <1>1 DEF UpTo

\* What one row of two sums gives to a third.
GivesTogether(a, S, b, T, c, n) ==
  \A i \in 1..n : c[i] = (IF i \in S THEN a[i] ELSE 0) + (IF i \in T THEN b[i] ELSE 0)

\* Two sums over sets of rows are one sum over all rows.
LEMMA SumsTogether ==
  ASSUME NEW n \in Nat, NEW a, NEW b, NEW c, NEW S \in SUBSET (1..n), NEW T \in SUBSET (1..n),
         NatValued(a, n), NatValued(b, n), NatValued(c, n), GivesTogether(a, S, b, T, c, n)
  PROVE  Sum(a, S) + Sum(b, T) = Sum(c, 1..n)
<1> DEFINE Adds(k) == UpTo(a, S, k) + UpTo(b, T, k) = UpTo(c, 1..n, k)
           A == {k \in Nat : k <= n => Adds(k)}
<1>1. UpTo(a, S, 0) = 0 /\ UpTo(b, T, 0) = 0 /\ UpTo(c, 1..n, 0) = 0
  BY UpToNone
<1>2. 0 \in A
  BY <1>1
<1>3. ASSUME NEW k \in Nat, Adds(k), k + 1 <= n PROVE Adds(k + 1)
  <2>1. k + 1 \in 1..n
    BY <1>3
  <2>2. /\ UpTo(a, S, k) \in Nat /\ a[k + 1] \in Nat
        /\ UpTo(a, S, k + 1) = (IF k + 1 \in S THEN a[k + 1] ELSE 0) + UpTo(a, S, k)
    BY <2>1, UpToNext
  <2>3. /\ UpTo(b, T, k) \in Nat /\ b[k + 1] \in Nat
        /\ UpTo(b, T, k + 1) = (IF k + 1 \in T THEN b[k + 1] ELSE 0) + UpTo(b, T, k)
    BY <2>1, UpToNext
  <2>4. /\ UpTo(c, 1..n, k) \in Nat /\ c[k + 1] \in Nat
        /\ UpTo(c, 1..n, k + 1) = (IF k + 1 \in 1..n THEN c[k + 1] ELSE 0) + UpTo(c, 1..n, k)
    BY <2>1, UpToNext
  <2>5. c[k + 1] = (IF k + 1 \in S THEN a[k + 1] ELSE 0) + (IF k + 1 \in T THEN b[k + 1] ELSE 0)
    BY <2>1 DEF GivesTogether
  <2>6. QED
    BY <1>3, <2>1, <2>2, <2>3, <2>4, <2>5
<1> HIDE DEF Adds
<1>4. A \in SUBSET Nat
  OBVIOUS
<1>5. \A k \in A : k + 1 \in A
  BY <1>3
<1> HIDE DEF A
<1>6. n \in A
  BY <1>2, <1>4, <1>5, EveryNumber
<1>7. UpTo(a, S, n) + UpTo(b, T, n) = UpTo(c, 1..n, n)
  BY <1>6 DEF A, Adds
<1>8. UpTo(a, S, n) = Sum(a, S) /\ UpTo(b, T, n) = Sum(b, T) /\ UpTo(c, 1..n, n) = Sum(c, 1..n)
  BY UpToAll
<1>9. QED
  BY <1>7, <1>8

\* What one row takes more than before.
GrowsBy(c, d, j, cost, n) == \A i \in 1..n : d[i] <= c[i] + (IF i = j THEN cost ELSE 0)

\* A sum grows by no more than what the one row that grows takes.
LEMMA SumGrows ==
  ASSUME NEW n \in Nat, NEW c, NEW d, NEW cost \in Nat, NEW j \in 1..n,
         NatValued(c, n), NatValued(d, n), GrowsBy(c, d, j, cost, n)
  PROVE  Sum(d, 1..n) \in Nat /\ Sum(c, 1..n) \in Nat /\ Sum(d, 1..n) <= Sum(c, 1..n) + cost
<1> DEFINE Grows(k) == UpTo(d, 1..n, k) <= UpTo(c, 1..n, k) + (IF j <= k THEN cost ELSE 0)
           A == {k \in Nat : k <= n => Grows(k)}
<1>1. UpTo(d, 1..n, 0) = 0 /\ UpTo(c, 1..n, 0) = 0
  BY UpToNone
<1>2. 0 \in A
  BY <1>1
<1>3. ASSUME NEW k \in Nat, Grows(k), k + 1 <= n PROVE Grows(k + 1)
  <2>1. k + 1 \in 1..n
    BY <1>3
  <2>2. /\ UpTo(c, 1..n, k) \in Nat /\ c[k + 1] \in Nat
        /\ UpTo(c, 1..n, k + 1) = (IF k + 1 \in 1..n THEN c[k + 1] ELSE 0) + UpTo(c, 1..n, k)
    BY <2>1, UpToNext
  <2>3. /\ UpTo(d, 1..n, k) \in Nat /\ d[k + 1] \in Nat
        /\ UpTo(d, 1..n, k + 1) = (IF k + 1 \in 1..n THEN d[k + 1] ELSE 0) + UpTo(d, 1..n, k)
    BY <2>1, UpToNext
  <2>4. d[k + 1] <= c[k + 1] + (IF k + 1 = j THEN cost ELSE 0)
    BY <2>1 DEF GrowsBy
  <2>5. QED
    BY <1>3, <2>1, <2>2, <2>3, <2>4
<1> HIDE DEF Grows
<1>4. A \in SUBSET Nat
  OBVIOUS
<1>5. \A k \in A : k + 1 \in A
  BY <1>3
<1> HIDE DEF A
<1>6. n \in A
  BY <1>2, <1>4, <1>5, EveryNumber
<1>7. UpTo(d, 1..n, n) <= UpTo(c, 1..n, n) + cost
  BY <1>6 DEF A, Grows
<1>8. UpTo(d, 1..n, n) = Sum(d, 1..n) /\ UpTo(c, 1..n, n) = Sum(c, 1..n)
  BY UpToAll
<1>9. Sum(d, 1..n) \in Nat /\ Sum(c, 1..n) \in Nat
  <2>1. 1..n \in SUBSET (1..n)
    OBVIOUS
  <2>2. QED
    BY <2>1, SumFacts
<1>10. QED
  BY <1>7, <1>8, <1>9
-----------------------------------------------------------------------------
(***************************************************************************)
(* The daily budget.  A first attempt of today holds its estimate while it *)
(* is active, and what it was charged; create counts both, and more.       *)
(***************************************************************************)
Charges == [j \in JobIds |->
              IF j \in today /\ attempt[j] = 1
              THEN actual[j] + (IF Active(j) THEN Cost[target[j]] ELSE 0) ELSE 0]
Charged == Sum(Charges, JobIds)

\* A row that is not there yet was charged nothing.
AbsentRowsAreFree == \A j \in JobIds : status[j] = "absent" => actual[j] = 0

WithinBudget == DailyBudget > 0 => Charged <= DailyBudget

\* The property's two sums are the sum of the charges, and create's two sums
\* are no smaller.
LEMMA ChargesAreTheSums ==
  ASSUME Typed
  PROVE  /\ FirstAttemptsWithinBudget <=> WithinBudget
         /\ \A j \in JobIds : Charges[j] \in Nat
         /\ Charged \in Nat /\ Spent \in Nat /\ Reserved \in Nat /\ Charged <= Spent + Reserved
<1> DEFINE firsts == {j \in today : attempt[j] = 1}
           held == firsts \intersect ActiveJobs
           reserving == ActiveJobs \intersect today
           all == [j \in JobIds |-> (IF j \in today THEN actual[j] ELSE 0)
                                      + (IF j \in reserving THEN Estimates[j] ELSE 0)]
<1>1. JobIds = 1..MaxJobs /\ MaxJobs \in Nat /\ 1 \in JobIds
  BY BoundsAssumption DEF JobIds
<1>2. ASSUME NEW j \in JobIds
      PROVE  /\ actual[j] \in Nat /\ Estimates[j] \in Nat
             /\ Active(j) => Estimates[j] = Cost[target[j]] /\ Cost[target[j]] \in Nat
  BY CostAssumption DEF Typed, TypeOK, RowsHaveTargets, Estimates, Created, Active
<1>3. ASSUME NEW j \in JobIds
      PROVE  /\ Charges[j] \in Nat
             /\ Charges[j] = (IF j \in firsts THEN actual[j] ELSE 0) + (IF j \in held THEN Estimates[j] ELSE 0)
  BY <1>2 DEF Charges, ActiveJobs
<1>4. ASSUME NEW j \in JobIds
      PROVE  /\ all[j] \in Nat /\ Charges[j] <= all[j] + (IF j = 1 THEN 0 ELSE 0)
             /\ all[j] = (IF j \in today THEN actual[j] ELSE 0) + (IF j \in reserving THEN Estimates[j] ELSE 0)
  BY <1>2, <1>3
<1>5. /\ firsts \in SUBSET (1..MaxJobs) /\ held \in SUBSET (1..MaxJobs)
      /\ today \in SUBSET (1..MaxJobs) /\ reserving \in SUBSET (1..MaxJobs)
  BY <1>1 DEF Typed, TypeOK, ActiveJobs
<1>6. /\ NatValued(actual, MaxJobs) /\ NatValued(Estimates, MaxJobs)
      /\ NatValued(Charges, MaxJobs) /\ NatValued(all, MaxJobs)
  <2> HIDE DEF all
  <2>1. QED
    BY <1>1, <1>2, <1>3, <1>4 DEF NatValued
<1> HIDE DEF firsts, held, reserving, all
<1>7. Sum(actual, firsts) + Sum(Estimates, held) = Charged
  <2>1. GivesTogether(actual, firsts, Estimates, held, Charges, MaxJobs)
    BY <1>1, <1>3 DEF GivesTogether
  <2>2. QED
    BY <1>1, <1>5, <1>6, <2>1, SumsTogether DEF Charged
<1>8. Spent + Reserved = Sum(all, JobIds)
  <2>1. GivesTogether(actual, today, Estimates, reserving, all, MaxJobs)
    BY <1>1, <1>4 DEF GivesTogether
  <2>2. Sum(actual, today) + Sum(Estimates, reserving) = Sum(all, JobIds)
    BY <1>1, <1>5, <1>6, <2>1, SumsTogether
  <2>3. QED
    BY <2>2 DEF Spent, Reserved, reserving
<1>9. Charged \in Nat /\ Charged <= Sum(all, JobIds)
  <2>1. 0 \in Nat /\ Sum(all, 1..MaxJobs) + 0 = Sum(all, 1..MaxJobs)
    <3>1. Sum(all, 1..MaxJobs) \in Nat
      BY <1>1, <1>6, SumFacts
    <3>2. QED
      BY <3>1
  <2>2. GrowsBy(all, Charges, 1, 0, MaxJobs)
    BY <1>1, <1>4 DEF GrowsBy
  <2>3. /\ Sum(Charges, 1..MaxJobs) \in Nat
        /\ Sum(Charges, 1..MaxJobs) <= Sum(all, 1..MaxJobs) + 0
    BY <1>1, <1>6, <2>2, SumGrows
  <2>4. QED
    BY <1>1, <2>1, <2>3 DEF Charged
<1>10. Spent \in Nat /\ Reserved \in Nat
  <2>1. Sum(actual, today) \in Nat /\ Sum(Estimates, reserving) \in Nat
    BY <1>1, <1>5, <1>6, SumFacts
  <2>2. QED
    BY <2>1 DEF Spent, Reserved, reserving
<1>11. FirstAttemptsWithinBudget <=> WithinBudget
  BY <1>7 DEF FirstAttemptsWithinBudget, WithinBudget, firsts, held
<1>12. QED
  BY <1>3, <1>8, <1>9, <1>10, <1>11

\* No row is charged more than before, but for one that takes cost more.
ChargesGrow(j, cost) == \A k \in JobIds : Charges'[k] <= Charges[k] + (IF k = j THEN cost ELSE 0)

\* Then the sum takes no more than cost more.
LEMMA ChargedGrows ==
  ASSUME Typed, Typed', NEW j \in JobIds, NEW cost \in Nat, ChargesGrow(j, cost)
  PROVE  Charged \in Nat /\ Charged' \in Nat /\ Charged' <= Charged + cost
<1>1. JobIds = 1..MaxJobs /\ MaxJobs \in Nat
  BY BoundsAssumption DEF JobIds
<1>2. NatValued(Charges, MaxJobs)
  BY <1>1, ChargesAreTheSums DEF NatValued
<1>3. \A k \in JobIds : Charges'[k] \in Nat
  BY CostAssumption DEF Typed, TypeOK, RowsHaveTargets, Charges, Active
<1>4. NatValued(Charges', MaxJobs)
  BY <1>1, <1>3 DEF NatValued
<1>5. GrowsBy(Charges, Charges', j, cost, MaxJobs)
  BY <1>1 DEF GrowsBy, ChargesGrow
<1>6. /\ Sum(Charges', 1..MaxJobs) \in Nat /\ Sum(Charges, 1..MaxJobs) \in Nat
      /\ Sum(Charges', 1..MaxJobs) <= Sum(Charges, 1..MaxJobs) + cost
  BY <1>1, <1>2, <1>4, <1>5, SumGrows
<1>7. Charged' = Sum(Charges', 1..MaxJobs) /\ Charged = Sum(Charges, 1..MaxJobs)
  BY <1>1 DEF Charged
<1>8. QED
  BY <1>6, <1>7

\* Charges that do not grow stay within the budget.
LEMMA SmallerCharges ==
  ASSUME Typed, Typed', WithinBudget, \A j \in JobIds : Charges'[j] <= Charges[j]
  PROVE  WithinBudget'
<1>1. 1 \in JobIds
  BY BoundsAssumption DEF JobIds
<1>2. \A j \in JobIds : Charges[j] \in Nat
  BY ChargesAreTheSums
<1>3. \A j \in JobIds : Charges[j] + 0 = Charges[j]
  BY <1>2
<1>4. ChargesGrow(1, 0)
  BY <1>3 DEF ChargesGrow
<1>5. Charged \in Nat /\ Charged' \in Nat /\ Charged' <= Charged + 0
  BY <1>1, <1>4, ChargedGrows
<1>6. QED
  BY <1>5, BoundsAssumption DEF WithinBudget

Budgeted == AbsentRowsAreFree /\ WithinBudget

\* A step by which row j costs no more: it keeps what it costs, it is settled
\* with its estimate at most, or it goes on as a later attempt.
CostsNoMore(j) ==
  /\ j \in today' => j \in today
  /\ status'[j] = "absent" => status[j] = "absent" /\ actual'[j] = actual[j]
  /\ \/ /\ attempt'[j] = attempt[j] /\ target'[j] = target[j] /\ actual'[j] = actual[j]
        /\ Active(j)' => Active(j)
     \/ /\ attempt'[j] = attempt[j] /\ Active(j) /\ ~Active(j)'
        /\ actual'[j] \in {actual[j], Cost[target[j]]}
     \/ attempt'[j] # 1

\* Steps by which no row costs more keep the budget.
LEMMA KeepsBudget ==
  ASSUME Typed, Typed', Budgeted, \A j \in JobIds : CostsNoMore(j)
  PROVE  Budgeted'
<1>1. ASSUME NEW j \in JobIds PROVE Charges'[j] <= Charges[j]
  <2>1. actual[j] \in Nat /\ (Active(j) => Cost[target[j]] \in Nat)
    BY CostAssumption DEF Typed, TypeOK, RowsHaveTargets, Active
  <2>2. Charges[j] = IF j \in today /\ attempt[j] = 1
                     THEN actual[j] + (IF Active(j) THEN Cost[target[j]] ELSE 0) ELSE 0
    BY DEF Charges
  <2>3. Charges'[j] = IF j \in today' /\ attempt'[j] = 1
                      THEN actual'[j] + (IF Active(j)' THEN Cost[target'[j]] ELSE 0) ELSE 0
    BY DEF Charges
  <2>4. CostsNoMore(j)
    OBVIOUS
  <2> HIDE DEF Active
  <2>5. QED
    BY <2>1, <2>2, <2>3, <2>4 DEF CostsNoMore
<1>2. WithinBudget'
  BY <1>1, SmallerCharges DEF Budgeted
<1>3. AbsentRowsAreFree'
  BY DEF Budgeted, AbsentRowsAreFree, CostsNoMore
<1>4. QED
  BY <1>2, <1>3 DEF Budgeted

\* A new row takes its estimate, which enforceQuota found to be left.
LEMMA CreateKeepsBudget ==
  ASSUME Typed, Typed', RowProtocol, Budgeted,
         NEW j \in JobIds, NEW t \in Targets, NEW r \in AnyRun, CreateNew(j, t, r)
  PROVE  Budgeted'
<1> USE DEF Typed, TypeOK
<1>1. Cost[t] \in Nat
  BY CostAssumption
<1>2. status[j] = "absent" /\ actual[j] = 0 /\ Charges[j] = 0 /\ attempt[j] = 1
  BY DEF CreateNew, Insert, Created, Budgeted, AbsentRowsAreFree, RowProtocol, BlankRows,
         Charges, Active
<1>3. /\ status' = [status EXCEPT ![j] = IF t \in ProviderTargets THEN "running" ELSE "queued"]
      /\ target' = [target EXCEPT ![j] = t] /\ today' = today \union {j}
      /\ attempt' = attempt /\ actual' = actual /\ QuotaAllows(Cost[t])
  BY DEF CreateNew, Insert
<1>4. ChargesGrow(j, Cost[t])
  <2>1. ASSUME NEW k \in JobIds, k # j PROVE Charges'[k] = Charges[k]
    BY <1>3, <2>1 DEF Charges, Active
  <2>2. Charges'[j] = Cost[t]
    BY <1>1, <1>2, <1>3 DEF Charges, Active
  <2>3. \A k \in JobIds : Charges[k] \in Nat
    BY ChargesAreTheSums
  <2>4. QED
    BY <1>1, <1>2, <2>1, <2>2, <2>3 DEF ChargesGrow
<1>5. Charged \in Nat /\ Charged' \in Nat /\ Charged' <= Charged + Cost[t]
  BY <1>1, <1>4, ChargedGrows
<1>6. Spent \in Nat /\ Reserved \in Nat /\ Charged <= Spent + Reserved
  BY ChargesAreTheSums
<1>7. WithinBudget'
  <2>1. DailyBudget > 0 => Charged <= DailyBudget
    BY DEF Budgeted, WithinBudget
  <2>2. (DailyBudget > 0 /\ Cost[t] > 0) => Spent + Reserved + Cost[t] <= DailyBudget
    BY <1>3 DEF QuotaAllows
  <2>3. QED
    BY <1>1, <1>5, <1>6, <2>1, <2>2, BoundsAssumption DEF WithinBudget
<1>8. AbsentRowsAreFree'
  BY <1>3 DEF Budgeted, AbsentRowsAreFree
<1>9. QED
  BY <1>7, <1>8 DEF Budgeted

\* No other update makes the day's first attempts cost more: a job is charged
\* what it had reserved, and Retry's attempts come after the first.
LEMMA StepBudget ==
  ASSUME Typed, Typed', RowProtocol, Budgeted, [JobsNext]_jobVars
  PROVE  Budgeted'
<1>1. ASSUME NEW j \in JobIds, NEW t \in Targets, NEW r \in AnyRun, CreateNew(j, t, r)
      PROVE  Budgeted'
  BY <1>1, CreateKeepsBudget
<1> USE DEF Active, Typed, TypeOK, rowVars, CostsNoMore
<1>2. ASSUME status' = status, target' = target, attempt' = attempt, actual' = actual, today' \subseteq today
      PROVE  Budgeted'
  BY <1>2, KeepsBudget
<1>3. ASSUME NEW j \in JobIds, NEW t \in Tasks, SetWaitingCurrent(j, t)
      PROVE  Budgeted'
  BY <1>3, KeepsBudget DEF SetWaitingCurrent, Current
<1>4. ASSUME NEW S \in SUBSET ActiveJobs, NEW s \in Terminal, Settle(S, s)
      PROVE  Budgeted'
  BY <1>4, KeepsBudget DEF Settle, Terminal, ActiveJobs
<1>5. ASSUME NEW c \in Callers, RetryWrite(c)
      PROVE  Budgeted'
  <2> DEFINE seen == retrying[c]
  <2>1. seen.job \in JobIds /\ seen.attempt \in Nat \ {0} /\ seen.status \in {"failed", "canceled"}
    BY <1>5, BoundsAssumption DEF RetryWrite, Snapshot
  <2>2. CASE RetryUpdate(seen.job, seen)
    <3> HIDE DEF seen
    <3>1. attempt'[seen.job] # 1
      BY <2>1, <2>2 DEF RetryUpdate, ReopenAs
    <3>2. QED
      BY <2>1, <2>2, <3>1, KeepsBudget DEF RetryUpdate, ReopenAs, NextStatus
  <2>3. CASE RetryRefused(seen.job, seen)
    BY <1>2, <2>3 DEF RetryRefused
  <2>4. QED
    BY <1>5, <2>2, <2>3 DEF RetryWrite
<1>6. ASSUME NEW o \in Owners, ClaimCommit(o)
      PROVE  Budgeted'
  <2>1. CASE ClaimUpdate(candidate[o], o)
    BY <2>1, KeepsBudget DEF ClaimUpdate, Claimable
  <2>2. CASE ClaimMiss(candidate[o])
    BY <1>2, <2>2 DEF ClaimMiss
  <2>3. QED
    BY <1>6, <2>1, <2>2 DEF ClaimCommit
<1>7. ASSUME NEW j \in JobIds, NEW o \in Owners, RequeueJob(j, o)
      PROVE  Budgeted'
  BY <1>7, KeepsBudget DEF RequeueJob, IsOwned
<1>8. CASE RecoverExpired
  <2>1. \A j \in JobIds : Reopenable(j) => Active(j) /\ Recovered(j) # "absent"
    BY DEF Reopenable, Recovered
  <2>2. QED
    BY <1>8, <2>1, KeepsBudget DEF RecoverExpired
<1>9. QED
  BY NextCases, <1>1, <1>2, <1>3, <1>4, <1>5, <1>6, <1>7, <1>8
     DEF jobVars, rowVars, CreateReuse, AttachRun, RetryRead, Remember, DetachChildren,
         ClaimSelect, RenewLease, LeaseElapses, BecomeDue, NewDay

\* What the day's first attempts spent and hold in reserve stays within the
\* daily budget, for any costs and any number of jobs (enforceQuota 188-239,
\* and the settlements that charge the estimate).
THEOREM FirstAttemptsStayWithinBudget == JobsSpec => []FirstAttemptsWithinBudget
<1>1. JobsInit => Budgeted
  <2> SUFFICES ASSUME JobsInit PROVE Budgeted
    OBVIOUS
  <2>1. Typed
    BY InitType
  <2>2. AbsentRowsAreFree
    BY DEF JobsInit, AbsentRowsAreFree
  <2>3. JobIds = 1..MaxJobs /\ MaxJobs \in Nat /\ {} \in SUBSET (1..MaxJobs)
    BY BoundsAssumption DEF JobIds
  <2>4. NatValued(actual, MaxJobs) /\ NatValued(Estimates, MaxJobs)
    BY <2>3 DEF NatValued, JobsInit, Estimates, Created
  <2>5. Sum(actual, {}) = 0 /\ Sum(Estimates, {}) = 0
    BY <2>3, <2>4, SumFacts
  <2>6. {j \in today : attempt[j] = 1} = {} /\ {} \intersect ActiveJobs = {}
    BY DEF JobsInit
  <2>7. FirstAttemptsWithinBudget
    BY <2>5, <2>6, BoundsAssumption DEF FirstAttemptsWithinBudget
  <2>8. QED
    BY <2>1, <2>2, <2>7, ChargesAreTheSums DEF Budgeted
<1>2. Inv /\ Inv' /\ Budgeted /\ [JobsNext]_jobVars => Budgeted'
  BY StepBudget DEF Inv
<1>3. Inv /\ Budgeted => FirstAttemptsWithinBudget
  BY ChargesAreTheSums DEF Inv, Budgeted
<1>4. QED
  BY <1>1, <1>2, <1>3, Invariance, PTL DEF JobsSpec

=============================================================================
