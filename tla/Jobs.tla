-------------------------------- MODULE Jobs --------------------------------
(***************************************************************************)
(* The generation job service: the rows of generation_jobs and every       *)
(* operation that writes them (services/jobs/service.go, the runner's      *)
(* requeueJob, and the two bulk updates of services/production).  The      *)
(* callers are left open: any operation may be called at any moment in     *)
(* which its caller can exist.  Generation.tla closes the system.          *)
(*                                                                         *)
(* One organization with id > 0 is modelled (organization 0 is exempt from *)
(* quotas), and one process, as ecosystem.config.cjs deploys it: createMu  *)
(* serializes create, and RecoverExpired runs when the process starts.     *)
(***************************************************************************)
EXTENDS Integers, FiniteSets, FiniteSetsExt

CONSTANTS MaxJobs,            \* bound: rows the table can hold
          ProviderTargets,    \* image and video generation records
          TtsTargets,         \* storyboards to dub
          ComposeTargets,     \* storyboard compositions, episode merges
          Cost,               \* EstimateCost of a job of each target, in fen
          Tasks, NoTask,      \* provider_task_id
          Owners, NoOwner,    \* lease_owner
          Runs, NoRun,        \* production_run_id
          Callers,            \* requests that are inside Retry
          MaxAttempts,        \* max_attempts, 3 in create
          MaxActiveJobs, DailyJobLimit, DailyBudget,    \* 0: no limit
          NoTarget            \* the target of a row not inserted yet

JobIds == 1..MaxJobs
NoJob == 0
WorkerTargets == TtsTargets \union ComposeTargets
Targets == ProviderTargets \union WorkerTargets

ASSUME BoundsAssumption ==
  /\ MaxJobs \in Nat \ {0}
  /\ MaxAttempts \in Nat \ {0}
  /\ MaxActiveJobs \in Nat
  /\ DailyJobLimit \in Nat
  /\ DailyBudget \in Nat
ASSUME CostAssumption == Cost \in [Targets -> Nat]
ASSUME KindsAssumption ==
  /\ ProviderTargets \intersect WorkerTargets = {}
  /\ TtsTargets \intersect ComposeTargets = {}
ASSUME NullsAssumption ==
  /\ NoTarget \notin Targets
  /\ NoTask \notin Tasks
  /\ NoOwner \notin Owners
  /\ NoRun \notin Runs

VARIABLES
  status,      \* status of each row, "absent" before its insert
  target,      \* target_type and target_id
  run,         \* production_run_id
  attempt,     \* attempt
  owner,       \* lease_owner
  lease,       \* lease_expires_at: NULL ("none"), ahead of or behind now
  due,         \* available_at <= now
  task,        \* provider_task_id
  actual,      \* actual_cost
  today,       \* rows whose created_at is in the current UTC day
  candidate,   \* row a worker selected in ClaimWaiting and did not update yet
  retrying     \* row a caller read in Retry and did not update yet

rowVars == <<status, target, run, attempt, owner, lease, due, task, actual, today>>
jobVars == <<status, target, run, attempt, owner, lease, due, task, actual,
             today, candidate, retrying>>

Terminal == {"succeeded", "failed", "canceled"}
Statuses == {"queued", "running", "waiting"} \union Terminal

Created == {j \in JobIds : status[j] # "absent"}
Active(j) == status[j] \in {"queued", "running", "waiting"}

Snapshot == [job : JobIds, status : {"failed", "canceled"}, attempt : 1..MaxAttempts]
NoSnapshot == [job |-> NoJob, status |-> "failed", attempt |-> 1]

TypeOK ==
  /\ status \in [JobIds -> Statuses \union {"absent"}]
  /\ target \in [JobIds -> Targets \union {NoTarget}]
  /\ run \in [JobIds -> Runs \union {NoRun}]
  /\ attempt \in [JobIds -> 1..MaxAttempts]
  /\ owner \in [JobIds -> Owners \union {NoOwner}]
  /\ lease \in [JobIds -> {"none", "live", "expired"}]
  /\ due \in [JobIds -> BOOLEAN]
  /\ task \in [JobIds -> Tasks \union {NoTask}]
  /\ actual \in [JobIds -> Nat]
  /\ today \in SUBSET JobIds
  /\ candidate \in [Owners -> JobIds \union {NoJob}]
  /\ retrying \in [Callers -> Snapshot \union {NoSnapshot}]

JobsInit ==
  /\ status = [j \in JobIds |-> "absent"]
  /\ target = [j \in JobIds |-> NoTarget]
  /\ run = [j \in JobIds |-> NoRun]
  /\ attempt = [j \in JobIds |-> 1]
  /\ owner = [j \in JobIds |-> NoOwner]
  /\ lease = [j \in JobIds |-> "none"]
  /\ due = [j \in JobIds |-> FALSE]
  /\ task = [j \in JobIds |-> NoTask]
  /\ actual = [j \in JobIds |-> 0]
  /\ today = {}
  /\ candidate = [o \in Owners |-> NoJob]
  /\ retrying = [c \in Callers |-> NoSnapshot]
-----------------------------------------------------------------------------
(***************************************************************************)
(* Creation.  create reuses the newest active row of the target, and only  *)
(* a new row is checked against the organization's quota.                  *)
(***************************************************************************)
Newest(j, S) == j \in S /\ \A k \in S : k <= j

ActiveJobs == {j \in JobIds : Active(j)}
ActiveOf(t) == {j \in ActiveJobs : target[j] = t}

Sum(f, S) == MapThenSumSet(LAMBDA j : f[j], S)
Estimates == [j \in JobIds |-> IF j \in Created THEN Cost[target[j]] ELSE 0]
Reserved == Sum(Estimates, ActiveJobs \intersect today)
Spent == Sum(actual, today)

\* Seeded faults, one per property of the runs: each mutates the definition
\* after it the way a bug in that code would, and is used by no specification.
QuotaAllows_OneTooMany(cost) == MaxActiveJobs > 0 => Cardinality(ActiveJobs) <= MaxActiveJobs
QuotaAllows_IgnoresReserved(cost) == DailyBudget > 0 => Spent + cost <= DailyBudget

\* enforceQuota
QuotaAllows(cost) ==
  /\ MaxActiveJobs > 0 => Cardinality(ActiveJobs) < MaxActiveJobs
  /\ DailyJobLimit > 0 => Cardinality(today) < DailyJobLimit
  /\ (DailyBudget > 0 /\ cost > 0) => Spent + Reserved + cost <= DailyBudget

\* CreateForTarget... starts a row running, CreateQueued... queued
Insert(j, t, r) ==
  /\ j \notin Created
  /\ \A k \in 1..(j - 1) : k \in Created
  /\ status' = [status EXCEPT ![j] = IF t \in ProviderTargets THEN "running" ELSE "queued"]
  /\ target' = [target EXCEPT ![j] = t]
  /\ run' = [run EXCEPT ![j] = r]
  /\ lease' = [lease EXCEPT ![j] = "live"]
  /\ due' = [due EXCEPT ![j] = TRUE]
  /\ today' = today \union {j}
  /\ UNCHANGED <<attempt, owner, task, actual, candidate, retrying>>

CreateNew_NoReuse(j, t, r) == QuotaAllows(Cost[t]) /\ Insert(j, t, r)

CreateNew(j, t, r) == ActiveOf(t) = {} /\ QuotaAllows(Cost[t]) /\ Insert(j, t, r)

AttachRun(j, r) ==
  /\ run' = [run EXCEPT ![j] = IF r = NoRun THEN @ ELSE r]
  /\ UNCHANGED <<status, target, attempt, owner, lease, due, task, actual,
                 today, candidate, retrying>>

\* the newest active row of the target is returned; a production run that
\* finds it free takes it, one that finds it taken by another run is refused
CreateReuse(j, t, r) ==
  /\ Newest(j, ActiveOf(t))
  /\ r # NoRun => run[j] \in {NoRun, r}
  /\ AttachRun(j, r)

Create(t, r) == \E j \in JobIds : CreateNew(j, t, r) \/ CreateReuse(j, t, r)
-----------------------------------------------------------------------------
(***************************************************************************)
(* Transitions.  A terminal transition clears owner and lease, and charges *)
(* the estimate when the job succeeds.                                     *)
(***************************************************************************)
Settle_KeepsOwner(S, outcome) ==
  /\ status' = [j \in JobIds |-> IF j \in S THEN outcome ELSE status[j]]
  /\ lease' = [j \in JobIds |-> IF j \in S THEN "none" ELSE lease[j]]
  /\ UNCHANGED <<target, run, attempt, owner, due, task, actual, today, candidate, retrying>>

Settle(S, outcome) ==
  /\ status' = [j \in JobIds |-> IF j \in S THEN outcome ELSE status[j]]
  /\ owner' = [j \in JobIds |-> IF j \in S THEN NoOwner ELSE owner[j]]
  /\ lease' = [j \in JobIds |-> IF j \in S THEN "none" ELSE lease[j]]
  /\ actual' = [j \in JobIds |-> IF j \in S /\ outcome = "succeeded"
                                 THEN Cost[target[j]] ELSE actual[j]]
  /\ UNCHANGED <<target, run, attempt, due, task, today, candidate, retrying>>

Current_AnyOwner(j) == status[j] = "running"

\* the condition of transitionCurrentWith: running, and no worker has it
Current(j) == status[j] = "running" /\ owner[j] = NoOwner

SetWaitingCurrent(j, t) ==
  /\ Current(j)
  /\ status' = [status EXCEPT ![j] = "waiting"]
  /\ task' = [task EXCEPT ![j] = t]
  /\ lease' = [lease EXCEPT ![j] = "live"]
  /\ due' = [due EXCEPT ![j] = TRUE]
  /\ UNCHANGED <<target, run, attempt, owner, actual, today, candidate, retrying>>

SetCurrent(j, outcome) == Current(j) /\ Settle({j}, outcome)

\* the condition of transitionOwnedNoTx and IsOwned
IsOwned(j, o) == status[j] = "running" /\ owner[j] = o

SetOwned(j, o, outcome) == IsOwned(j, o) /\ Settle({j}, outcome)

\* the runner gives a polled provider job back until the next poll
RequeueJob(j, o) ==
  /\ IsOwned(j, o)
  /\ target[j] \in ProviderTargets
  /\ status' = [status EXCEPT ![j] = "waiting"]
  /\ owner' = [owner EXCEPT ![j] = NoOwner]
  /\ lease' = [lease EXCEPT ![j] = "none"]
  /\ due' = [due EXCEPT ![j] = FALSE]
  /\ UNCHANGED <<target, run, attempt, task, actual, today, candidate, retrying>>

\* SetSucceededByTarget..., SetFailedByTarget...: the newest row of the
\* target, whatever its owner; allowedTransition refuses a queued row
SetByTarget(t, outcome) ==
  /\ t \in ProviderTargets
  /\ \E j \in JobIds :
       /\ Newest(j, {k \in Created : target[k] = t})
       /\ status[j] \in {"running", "waiting"}
       /\ Settle({j}, outcome)

Cancel(j) == Active(j) /\ Settle({j}, "canceled")
-----------------------------------------------------------------------------
(***************************************************************************)
(* Leases.  ClaimWaiting selects a row and then updates it if it is still  *)
(* claimable; the update does not look at available_at again.              *)
(***************************************************************************)
Claimable(j) == status[j] \in {"queued", "waiting"} /\ (owner[j] = NoOwner \/ lease[j] # "live")

ClaimSelect(o) ==
  /\ candidate[o] = NoJob
  /\ \E j \in JobIds :
       /\ Claimable(j) /\ due[j]
       /\ \A k \in 1..(j - 1) : ~(Claimable(k) /\ due[k])
       /\ candidate' = [candidate EXCEPT ![o] = j]
  /\ UNCHANGED <<rowVars, retrying>>

ClaimUpdate_Unchecked(j, o) ==
  /\ status' = [status EXCEPT ![j] = "running"]
  /\ owner' = [owner EXCEPT ![j] = o]
  /\ UNCHANGED <<target, run, attempt, lease, due, task, actual, today, retrying>>

ClaimUpdate(j, o) ==
  /\ Claimable(j)
  /\ status' = [status EXCEPT ![j] = "running"]
  /\ owner' = [owner EXCEPT ![j] = o]
  /\ lease' = [lease EXCEPT ![j] = "live"]
  /\ UNCHANGED <<target, run, attempt, due, task, actual, today, retrying>>

ClaimMiss(j) == ~Claimable(j) /\ UNCHANGED <<rowVars, retrying>>

ClaimCommit(o) ==
  /\ candidate[o] # NoJob
  /\ candidate' = [candidate EXCEPT ![o] = NoJob]
  /\ ClaimUpdate(candidate[o], o) \/ ClaimMiss(candidate[o])

RenewLease(j, o) ==
  /\ IsOwned(j, o)
  /\ lease' = [lease EXCEPT ![j] = "live"]
  /\ UNCHANGED <<status, target, run, attempt, owner, due, task, actual,
                 today, candidate, retrying>>

Expired(j) == lease[j] = "expired"

\* what each of RecoverExpired's updates leaves in an expired row
Recovered(j) ==
  CASE status[j] = "running" /\ target[j] \in WorkerTargets -> "queued"
    [] status[j] = "waiting" /\ target[j] \in ComposeTargets -> "queued"
    [] status[j] \in {"running", "waiting"} /\ task[j] # NoTask -> "waiting"
    [] status[j] = "running" -> "failed"
    [] OTHER -> status[j]

Reopenable_NeedsTask(j) == Expired(j) /\ task[j] # NoTask

Reopenable(j) ==
  /\ Expired(j)
  /\ \/ status[j] = "running"
     \/ status[j] = "waiting" /\ (task[j] # NoTask \/ target[j] \in ComposeTargets)

\* the process starts: the claims and retries of the one before are gone
RecoverExpired ==
  /\ status' = [j \in JobIds |-> IF Reopenable(j) THEN Recovered(j) ELSE status[j]]
  /\ owner' = [j \in JobIds |-> IF Reopenable(j) THEN NoOwner ELSE owner[j]]
  /\ lease' = [j \in JobIds |-> IF Reopenable(j) THEN "none" ELSE lease[j]]
  /\ due' = [j \in JobIds |-> due[j] \/ (Reopenable(j) /\ Recovered(j) # "failed")]
  /\ candidate' = [o \in Owners |-> NoJob]
  /\ retrying' = [c \in Callers |-> NoSnapshot]
  /\ UNCHANGED <<target, run, attempt, task, actual, today>>
-----------------------------------------------------------------------------
(***************************************************************************)
(* Retry reads the row, without a lock, and then updates it on condition   *)
(* that its status is still the one read (PostgreSQL at READ COMMITTED     *)
(* lets other transactions commit in between).  The lease stays NULL.      *)
(***************************************************************************)
Remember(c, j) ==
  /\ retrying[c] = NoSnapshot
  /\ status[j] \in {"failed", "canceled"}
  /\ retrying' = [retrying EXCEPT ![c] =
                    [job |-> j, status |-> status[j], attempt |-> attempt[j]]]
  /\ UNCHANGED <<rowVars, candidate>>

RetryRead_NoLimit(c, j) == Remember(c, j)

RetryRead(c, j) == attempt[j] < MaxAttempts /\ Remember(c, j)

ReopenAs(j, seen, s, t) ==
  /\ status[j] = seen.status
  /\ status' = [status EXCEPT ![j] = s]
  /\ attempt' = [attempt EXCEPT ![j] = seen.attempt + 1]
  /\ task' = [task EXCEPT ![j] = t]
  /\ due' = [due EXCEPT ![j] = FALSE]
  /\ UNCHANGED <<target, run, owner, lease, actual, today, candidate>>

NextStatus(j) == IF target[j] \in WorkerTargets THEN "queued" ELSE "running"

RetryUpdate_KeepsTask(j, seen) == ReopenAs(j, seen, NextStatus(j), task[j])

RetryUpdate(j, seen) == ReopenAs(j, seen, NextStatus(j), NoTask)

\* "job changed concurrently"
RetryRefused(j, seen) == status[j] # seen.status /\ UNCHANGED <<rowVars, candidate>>

RetryWrite(c) ==
  /\ retrying[c] # NoSnapshot
  /\ retrying' = [retrying EXCEPT ![c] = NoSnapshot]
  /\ \/ RetryUpdate(retrying[c].job, retrying[c])
     \/ RetryRefused(retrying[c].job, retrying[c])
-----------------------------------------------------------------------------
(***************************************************************************)
(* What services/production writes in bulk: cancelActiveChildren, and the  *)
(* release of the failed children when a run is retried.                   *)
(***************************************************************************)
CancelActiveChildren(r) == Settle({j \in ActiveJobs : run[j] = r}, "canceled")

DetachChildren(r) ==
  /\ run' = [j \in JobIds |-> IF run[j] = r /\ status[j] \in {"failed", "canceled"}
                              THEN NoRun ELSE run[j]]
  /\ UNCHANGED <<status, target, attempt, owner, lease, due, task, actual,
                 today, candidate, retrying>>

\* The passage of time
LeaseElapses(j) ==
  /\ lease[j] = "live"
  /\ lease' = [lease EXCEPT ![j] = "expired"]
  /\ UNCHANGED <<status, target, run, attempt, owner, due, task, actual,
                 today, candidate, retrying>>

BecomeDue(j) ==
  /\ Active(j) /\ ~due[j]
  /\ due' = [due EXCEPT ![j] = TRUE]
  /\ UNCHANGED <<status, target, run, attempt, owner, lease, task, actual,
                 today, candidate, retrying>>

NewDay ==
  /\ today # {}
  /\ today' = {}
  /\ UNCHANGED <<status, target, run, attempt, owner, lease, due, task, actual,
                 candidate, retrying>>

WorkerStep(o) ==
  \/ ClaimSelect(o)
  \/ ClaimCommit(o)
  \/ \E j \in JobIds : \/ RenewLease(j, o)
                       \/ RequeueJob(j, o)
                       \/ \E s \in {"succeeded", "failed"} : SetOwned(j, o, s)

CallerStep ==
  \/ \E t \in Targets, r \in Runs \union {NoRun} : Create(t, r)
  \/ \E j \in JobIds, t \in Tasks : SetWaitingCurrent(j, t)
  \/ \E j \in JobIds, s \in {"succeeded", "failed"} : SetCurrent(j, s)
  \/ \E t \in Targets, s \in {"succeeded", "failed"} : SetByTarget(t, s)
  \/ \E j \in JobIds : Cancel(j)
  \/ \E c \in Callers, j \in JobIds : RetryRead(c, j)
  \/ \E c \in Callers : RetryWrite(c)
  \/ \E r \in Runs : CancelActiveChildren(r) \/ DetachChildren(r)

TimeStep == NewDay \/ \E j \in JobIds : LeaseElapses(j) \/ BecomeDue(j)

JobsNext == CallerStep \/ (\E o \in Owners : WorkerStep(o)) \/ RecoverExpired \/ TimeStep

JobsSpec == JobsInit /\ [][JobsNext]_jobVars
-----------------------------------------------------------------------------
(***************************************************************************)
(* Correctness.                                                            *)
(***************************************************************************)
\* A worker's name is on a row only while the row is running: every way out
\* of running (requeue, cancel, settle, recovery, bulk cancel) clears
\* lease_owner, so the fences of transitionOwnedWith cannot match later.
HeldOnlyWhileRunning == \A j \in JobIds : owner[j] # NoOwner => status[j] = "running"

\* RecoverExpired passes over rows whose lease is NULL.  The only running
\* rows it can never see are those that Retry put there, before any worker.
UnleasedOnlyAfterRetry ==
  \A j \in JobIds : (status[j] = "running" /\ lease[j] = "none")
                       => (owner[j] = NoOwner /\ attempt[j] > 1)

\* Recovery and polling rely on provider_task_id: a row that waits for a
\* provider, or that a worker polls, has one, and a row whose submission is
\* still in flight has none.
TaskMatchesPhase ==
  \A j \in JobIds :
    /\ status[j] = "waiting" => (target[j] \in ProviderTargets /\ task[j] # NoTask)
    /\ (owner[j] # NoOwner /\ target[j] \in ProviderTargets) => task[j] # NoTask
    /\ (status[j] = "running" /\ owner[j] = NoOwner) => task[j] = NoTask

\* A dubbing or composition job runs only under a worker's claim, and only
\* such jobs are queued: a ...Current transition never applies to them.
WorkerJobsRunUnderClaim ==
  \A j \in JobIds :
    /\ status[j] = "queued" => target[j] \in WorkerTargets
    /\ (status[j] = "running" /\ target[j] \in WorkerTargets) => owner[j] # NoOwner

BlankRows ==
  \A j \in JobIds : status[j] = "absent" =>
    owner[j] = NoOwner /\ task[j] = NoTask /\ run[j] = NoRun /\ attempt[j] = 1

\* What the columns of a row say of each other, so that the fences, recovery
\* and the pollers may each rely on one of them (transitionOwnedWith,
\* RecoverExpired, pollClaimed).  None of the parts is inductive alone.
RowProtocol ==
  /\ HeldOnlyWhileRunning
  /\ UnleasedOnlyAfterRetry
  /\ TaskMatchesPhase
  /\ WorkerJobsRunUnderClaim
  /\ BlankRows

\* create hands out the active row of a target instead of a second one, so
\* an older row of the target can be active next to a newer one only when
\* Retry reopened it.
OlderActiveWasRetried ==
  \A j, k \in JobIds :
    (j < k /\ k \in Created /\ target[j] = target[k] /\ Active(j)) => attempt[j] > 1

FirstAttempts == {j \in ActiveJobs : attempt[j] = 1}

\* The active-job limit of enforceQuota holds for the jobs that create
\* admitted; the ones that Retry reopened are not counted against it.
FirstAttemptsWithinLimit ==
  MaxActiveJobs > 0 => Cardinality(FirstAttempts) <= MaxActiveJobs

\* What the day's first attempts spent, and hold in reserve, stays within
\* the daily budget, however reservations and charges interleave.
FirstAttemptsWithinBudget ==
  DailyBudget > 0 =>
    LET firsts == {j \in today : attempt[j] = 1}
    IN Sum(actual, firsts) + Sum(Estimates, firsts \intersect ActiveJobs) <= DailyBudget

\* A provider task that was recorded stays the job's task until the attempt
\* ends: no later submission, claim, requeue or recovery replaces it.
TaskKeptWithinAttempt ==
  [][\A j \in JobIds : (task[j] # NoTask /\ task'[j] # task[j]) =>
        (status[j] \in {"failed", "canceled"} /\ status'[j] \in {"queued", "running"})]_jobVars

\* A job that belongs to a production run is never taken over by another
\* run; it only leaves its run when it failed or was canceled.
RunNeverTakenOver ==
  [][\A j \in JobIds : (run[j] # NoRun /\ run'[j] # run[j]) =>
        (run'[j] = NoRun /\ status[j] \in {"failed", "canceled"})]_jobVars

\* The rows implement the lifecycle of JobLifecycle.tla: claims are
\* exclusive, settling is final but for Retry, attempts are bounded.
Phase(j) == IF Active(j) THEN "active" ELSE status[j]

Lifecycle == INSTANCE JobLifecycle WITH
  Jobs <- JobIds, Workers <- Owners, Nobody <- NoOwner,
  phase <- [j \in JobIds |-> Phase(j)], holder <- owner

ImplementsLifecycle == Lifecycle!LSpec

\* docs/FUNCTIONAL_PARITY.md says that the one job entry checks the active
\* job limit atomically; it does not hold once Retry is used.
ActiveWithinLimit == MaxActiveJobs > 0 => Cardinality(ActiveJobs) <= MaxActiveJobs
=============================================================================
