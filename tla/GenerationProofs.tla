-------------------------- MODULE GenerationProofs --------------------------
(***************************************************************************)
(* Proofs about Generation.tla: requests, runner, webhooks and process use *)
(* the job table only through the job service, so what JobsProofs.tla      *)
(* proves of the service holds of the whole path; and without webhooks a   *)
(* record shows a result only if one of its jobs succeeded.                *)
(***************************************************************************)
EXTENDS Generation, JobsProofs

\* What the threads have in memory points at rows that exist, of the record
\* or target they work on.
Memory ==
  /\ \A c \in Callers :
       /\ call[c].pc # "idle" => call[c].target \in ProviderTargets
       /\ call[c].pc = "submitted" => /\ call[c].job \in Created
                                      /\ target[call[c].job] = call[c].target
  /\ runner.pc # "idle" => /\ runner.job \in Created
                           /\ target[runner.job] = runner.target
  /\ runner.pc = "polling" => runner.target \in ProviderTargets
  /\ hook.pc # "idle" => hook.target \in ProviderTargets

RowsStay == \A j \in Created : j \in Created' /\ target'[j] = target[j]

\* Every update keeps the rows there are, and the target of each.
LEMMA StepRowsStay ==
  ASSUME Typed, [JobsNext]_jobVars
  PROVE  RowsStay
<1> USE DEF RowsStay, Created, Typed, TypeOK, Statuses, Terminal, rowVars
<1>1. ASSUME NEW j \in JobIds, NEW t \in Targets, NEW r \in AnyRun, CreateNew(j, t, r)
      PROVE  RowsStay
  BY <1>1 DEF CreateNew, Insert
<1>2. ASSUME NEW j \in JobIds, NEW t \in Tasks, SetWaitingCurrent(j, t)
      PROVE  RowsStay
  BY <1>2 DEF SetWaitingCurrent
<1>3. ASSUME NEW S \in SUBSET ActiveJobs, NEW s \in Terminal, Settle(S, s)
      PROVE  RowsStay
  BY <1>3 DEF Settle
<1>4. ASSUME NEW c \in Callers, RetryWrite(c)
      PROVE  RowsStay
  BY <1>4 DEF RetryWrite, RetryUpdate, RetryRefused, ReopenAs, NextStatus
<1>5. ASSUME NEW o \in Owners, ClaimCommit(o)
      PROVE  RowsStay
  BY <1>5 DEF ClaimCommit, ClaimUpdate, ClaimMiss
<1>6. ASSUME NEW j \in JobIds, NEW o \in Owners, RequeueJob(j, o)
      PROVE  RowsStay
  BY <1>6 DEF RequeueJob
<1>7. CASE RecoverExpired
  <2>1. \A j \in JobIds : Reopenable(j) => Recovered(j) # "absent"
    BY DEF Reopenable, Recovered
  <2>2. QED
    BY <1>7, <2>1 DEF RecoverExpired
<1>8. ASSUME status' = status, target' = target
      PROVE  RowsStay
  BY <1>8
<1>9. QED
  BY NextCases, <1>1, <1>2, <1>3, <1>4, <1>5, <1>6, <1>7, <1>8
     DEF jobVars, CreateReuse, AttachRun, RetryRead, Remember, DetachChildren, ClaimSelect,
         RenewLease, LeaseElapses, BecomeDue, NewDay
-----------------------------------------------------------------------------
(***************************************************************************)
(* Every write of the job table is an operation of the job service.        *)
(***************************************************************************)
\* A step of the generation path is a step of the job service, or leaves the
\* job table alone.
LEMMA StepUsesJobs ==
  ASSUME Memory, Next
  PROVE  [JobsNext]_jobVars
<1> USE RunnerAssumption
    DEF Memory, JobsNext, CallerStep, WorkerStep, TimeStep, Created, RunnerHolds, Targets,
        WorkerTargets
<1>1. ASSUME NEW c \in Callers, CallStep(c)
      PROVE  [JobsNext]_jobVars
  <2>1. CASE CallCreate(c)
    BY <2>1 DEF CallCreate, Create
  <2>2. CASE CallWaiting(c)
    BY <2>2 DEF CallWaiting
  <2>3. ASSUME NEW s \in {"succeeded", "failed"}, CallFinish(c, s)
        PROVE  [JobsNext]_jobVars
    BY <2>3 DEF CallFinish
  <2>4. CASE CallRetryWrite(c)
    BY <2>4 DEF CallRetryWrite
  <2>5. CASE CallLoad(c) \/ CallSave(c) \/ CallConfigFails(c) \/ CallAbandons(c)
    BY <2>5 DEF CallLoad, CallSave, CallConfigFails, CallAbandons
  <2>6. QED
    BY <1>1, <2>1, <2>2, <2>3, <2>4, <2>5 DEF CallStep
<1>2. CASE UserStep
  BY <1>2 DEF UserStep, Generate, CallRetryRead, Enqueue, CancelJob, Create
<1>3. CASE RunnerStep
  <2>1. Runner \in Owners
    OBVIOUS
  <2>2. CASE RunnerSelect \/ RunnerClaim \/ RunnerLoad
    BY <2>1, <2>2 DEF RunnerSelect, RunnerClaim, RunnerLoad
  <2>3. CASE RunnerGivesUp \/ RunnerRequeue \/ RunnerLost
    BY <2>1, <2>3 DEF RunnerGivesUp, RunnerRequeue, RunnerLost
  <2>4. CASE \E s \in {"succeeded", "failed"} : RunnerFinish(s)
    BY <2>1, <2>4 DEF RunnerFinish
  <2>5. QED
    BY <1>3, <2>2, <2>3, <2>4 DEF RunnerStep
<1>4. CASE HookStep
  BY <1>4 DEF HookStep, HookLoad, HookState, HookResult, HookSettle
<1>5. CASE ProcessStep
  BY <1>5 DEF ProcessStep, Stop, Exit, Crash, Vanish, Boot
<1>6. CASE Time
  BY <1>6 DEF Time
<1>7. QED
  BY <1>1, <1>2, <1>3, <1>4, <1>5, <1>6 DEF Next

Loaded == GenTypeOK /\ Memory

\* Nothing runs at first.
LEMMA InitLoaded == Init => Loaded
<1> SUFFICES ASSUME Init PROVE Loaded
  OBVIOUS
<1>1. /\ Idle.pc = "idle"
      /\ Idle \in Threads({"idle", "reopened", "loaded", "saved", "submitted"})
      /\ Idle \in Threads({"idle", "claimed", "polling"})
      /\ Idle \in Threads({"idle", "loaded", "completed", "failed"})
  BY BoundsAssumption DEF Idle, Threads, TaskIds
<1>2. rec \in [ProviderTargets -> Records]
  BY DEF Init, Records, NoRecord, TaskIds
<1>3. QED
  BY <1>1, <1>2, FaultsAssumption DEF Init, Loaded, GenTypeOK, Memory

\* Threads that a step leaves alone still point at rows that exist.
LEMMA KeepsLoaded ==
  ASSUME Loaded, RowsStay, UNCHANGED <<call, runner, hook>>,
         rec' \in [ProviderTargets -> Records], issued' \in SUBSET Tasks,
         up' \in {"up", "stopping", "down"}, crashes' \in 0..MaxCrashes,
         abandoned' \in SUBSET JobIds
  PROVE  Loaded'
BY DEF Loaded, GenTypeOK, Memory, RowsStay

\* What a write leaves in a record.
LEMMA WriteRecords ==
  ASSUME GenTypeOK, NEW x \in ProviderTargets, NEW t \in TaskIds,
         NEW s \in {"none", "pending", "processing", "completed", "failed", "canceled"}, Write(x, s, t)
  PROVE  rec' \in [ProviderTargets -> Records]
BY DEF GenTypeOK, Write, Records, FinalRecord

\* Only a request that leaves its job to itself, and a start, change the set of
\* abandoned jobs.
LEMMA StepAbandoned ==
  ASSUME Loaded, [Next]_vars
  PROVE  abandoned' \in SUBSET JobIds
<1>1. abandoned \in SUBSET JobIds
  BY DEF Loaded, GenTypeOK
<1>2. ASSUME NEW c \in Callers, CallAbandons(c)
      PROVE  abandoned' \in SUBSET JobIds
  BY <1>1, <1>2 DEF Loaded, Memory, Created, CallAbandons
<1>3. CASE Boot
  BY <1>3 DEF Boot
<1>4. CASE UNCHANGED abandoned
  BY <1>1, <1>4
<1>5. CASE Next
  <2>1. ASSUME NEW c \in Callers, CallStep(c)
        PROVE  abandoned' \in SUBSET JobIds
    BY <1>2, <1>4, <2>1 DEF CallStep, CallCreate, CallWaiting, CallFinish, CallRetryWrite,
                            CallLoad, CallSave, CallConfigFails
  <2>2. CASE UserStep
    BY <1>4, <2>2 DEF UserStep, Generate, CallRetryRead, Enqueue, CancelJob, genVars
  <2>3. CASE RunnerStep
    BY <1>4, <2>3 DEF RunnerStep, RunnerSelect, RunnerClaim, RunnerLoad, RunnerGivesUp,
                      RunnerRequeue, RunnerLost, RunnerFinish, RunnerDone, genVars
  <2>4. CASE HookStep
    BY <1>4, <2>4 DEF HookStep, HookLoad, HookState, HookResult, HookSettle
  <2>5. CASE ProcessStep
    BY <1>3, <1>4, <2>5 DEF ProcessStep, Stop, Exit, Crash, Vanish
  <2>6. CASE Time
    BY <1>4, <2>6 DEF Time, genVars
  <2>7. QED
    BY <1>5, <2>1, <2>2, <2>3, <2>4, <2>5, <2>6 DEF Next
<1>6. QED
  BY <1>4, <1>5 DEF vars, genVars

\* Every step of the path keeps the threads' memory in order.
LEMMA StepLoaded ==
  ASSUME Typed, Loaded, RowsStay, [Next]_vars
  PROVE  Loaded'
<1>0. abandoned' \in SUBSET JobIds
  BY StepAbandoned
<1> USE <1>0 DEF Loaded
<1>1. CASE UNCHANGED vars
  BY <1>1, KeepsLoaded DEF vars, genVars, GenTypeOK
<1>2. ASSUME NEW c \in Callers, NEW state \in Threads({"idle", "reopened", "loaded", "saved", "submitted"}),
             Goto(c, state),
             state.pc # "idle" => state.target \in ProviderTargets,
             state.pc = "submitted" => state.job \in Created' /\ target'[state.job] = state.target,
             rec' \in [ProviderTargets -> Records], issued' \in SUBSET Tasks,
             UNCHANGED <<runner, hook, up, crashes>>
      PROVE  Loaded'
  BY <1>2 DEF Goto, GenTypeOK, Memory, RowsStay
<1>3. ASSUME NEW c \in Callers, NEW x \in ProviderTargets, Generate(c, x)
      PROVE  Loaded'
  <2>1. At("saved", x, NoJob, NoTask, 0) \in Threads({"idle", "reopened", "loaded", "saved", "submitted"})
    BY BoundsAssumption DEF At, Threads, Targets, TaskIds
  <2>2. rec' \in [ProviderTargets -> Records]
    BY <1>3, WriteRecords DEF Generate, TaskIds
  <2>3. QED
    BY <1>2, <1>3, <2>1, <2>2 DEF Generate, At, GenTypeOK
<1>4. ASSUME NEW c \in Callers, CallStep(c)
      PROVE  Loaded'
  <2> DEFINE x == call[c].target
             Pcs == {"idle", "reopened", "loaded", "saved", "submitted"}
  <2>1. call[c] \in Threads(Pcs) /\ Idle \in Threads(Pcs) /\ Idle.pc = "idle"
    BY BoundsAssumption DEF GenTypeOK, Idle, Threads, TaskIds
  <2>2. call[c].pc # "idle" => x \in ProviderTargets /\ x \in Targets /\ call[c].task \in TaskIds
    BY <2>1 DEF Memory, Targets, Threads
  <2>3. CASE CallCreate(c)
    <3>1. ASSUME NEW j \in JobIds, CreateNew(j, x, NoRun) \/ CreateReuse(j, x, NoRun)
          PROVE  /\ j \in Created' /\ target'[j] = x
                 /\ At("submitted", x, j, call[c].task, attempt[j]) \in Threads(Pcs)
      <4>1. j \in Created' /\ target'[j] = x
        BY <3>1 DEF CreateNew, Insert, CreateReuse, AttachRun, Newest, ActiveOf, ActiveJobs,
                    Active, Created, Typed, TypeOK
      <4>2. attempt[j] \in 0..MaxAttempts
        BY BoundsAssumption DEF Typed, TypeOK
      <4>3. QED
        BY <2>1, <4>1, <4>2 DEF At, Threads
    <3>2. QED
      BY <1>2, <2>1, <2>2, <2>3, <3>1 DEF CallCreate, At, GenTypeOK
  <2>4. CASE CallWaiting(c)
    <3>1. rec' \in [ProviderTargets -> Records]
      BY <2>2, <2>4, WriteRecords DEF CallWaiting, GenTypeOK, TaskIds
    <3>2. issued' \in SUBSET Tasks
      BY <2>4 DEF CallWaiting, GenTypeOK
    <3>3. QED
      BY <1>2, <2>1, <2>4, <3>1, <3>2 DEF CallWaiting
  <2>5. ASSUME NEW s \in {"succeeded", "failed"}, CallFinish(c, s)
        PROVE  Loaded'
    <3>1. rec' \in [ProviderTargets -> Records]
      BY <2>2, <2>5, WriteRecords DEF CallFinish, GenTypeOK
    <3>2. QED
      BY <1>2, <2>1, <2>5, <3>1 DEF CallFinish, GenTypeOK
  <2>6. CASE CallRetryWrite(c)
    <3> DEFINE y == target[retrying[c].job]
    <3>1. CASE y \in ProviderTargets /\ Write(y, "pending", NoTask)
               /\ Goto(c, At("reopened", y, NoJob, NoTask, 0))
      <4>1. rec' \in [ProviderTargets -> Records]
        BY <3>1, WriteRecords DEF TaskIds
      <4>2. At("reopened", y, NoJob, NoTask, 0) \in Threads(Pcs)
        BY <3>1, BoundsAssumption DEF At, Threads, Targets, TaskIds
      <4>3. QED
        BY <1>2, <2>6, <3>1, <4>1, <4>2 DEF CallRetryWrite, At, GenTypeOK
    <3>2. CASE UNCHANGED <<rec, call>>
      BY <2>6, <3>2, KeepsLoaded DEF CallRetryWrite, GenTypeOK
    <3>3. QED
      BY <2>6, <3>1, <3>2 DEF CallRetryWrite
  <2>7. CASE CallLoad(c)
    <3> DEFINE state == [call[c] EXCEPT !.pc = "loaded", !.task = rec[x].task]
    <3>1. rec[x].task \in TaskIds
      BY <2>2, <2>7 DEF CallLoad, GenTypeOK, Records
    <3>2. state \in Threads(Pcs) /\ state.target = x /\ state.pc = "loaded"
      BY <2>1, <3>1 DEF Threads
    <3> HIDE DEF state
    <3>3. Goto(c, state)
      BY <2>7 DEF CallLoad, state
    <3>4. QED
      BY <1>2, <2>2, <2>7, <3>2, <3>3 DEF CallLoad, GenTypeOK
  <2>8. CASE CallSave(c)
    <3> DEFINE state == [call[c] EXCEPT !.pc = "saved"]
    <3>1. rec' \in [ProviderTargets -> Records]
      BY <2>2, <2>8, WriteRecords DEF CallSave
    <3>2. state \in Threads(Pcs) /\ state.target = x /\ state.pc = "saved"
      BY <2>1 DEF Threads
    <3> HIDE DEF state
    <3>3. Goto(c, state)
      BY <2>8 DEF CallSave, state
    <3>4. QED
      BY <1>2, <2>2, <2>8, <3>1, <3>2, <3>3 DEF CallSave, GenTypeOK
  <2>9. CASE CallConfigFails(c) \/ CallAbandons(c)
    BY <1>2, <2>1, <2>9 DEF CallConfigFails, CallAbandons, GenTypeOK
  <2>10. QED
    BY <1>4, <2>3, <2>4, <2>5, <2>6, <2>7, <2>8, <2>9 DEF CallStep
<1>5. CASE UserStep
  <2>1. ASSUME NEW c \in Callers, NEW j \in JobIds, CallRetryRead(c, j)
        PROVE  Loaded'
    BY <2>1, KeepsLoaded DEF CallRetryRead, genVars, GenTypeOK
  <2>2. ASSUME NEW t \in WorkerTargets, Enqueue(t)
        PROVE  Loaded'
    BY <2>2, KeepsLoaded DEF Enqueue, genVars, GenTypeOK
  <2>3. ASSUME NEW j \in JobIds, CancelJob(j)
        PROVE  Loaded'
    <3>1. \A x \in ProviderTargets : rec[x].task \in TaskIds
      BY DEF GenTypeOK, Records
    <3>2. rec' \in [ProviderTargets -> Records]
      BY <2>3, <3>1, WriteRecords DEF CancelJob, GenTypeOK
    <3>3. QED
      BY <2>3, <3>2, KeepsLoaded DEF CancelJob, GenTypeOK
  <2>4. QED
    BY <1>3, <1>5, <2>1, <2>2, <2>3 DEF UserStep
<1>6. CASE RunnerStep
  <2> DEFINE Pcs == {"idle", "claimed", "polling"}
  <2>1. runner \in Threads(Pcs) /\ Idle \in Threads(Pcs) /\ Idle.pc = "idle"
    BY BoundsAssumption DEF GenTypeOK, Idle, Threads, TaskIds
  <2>2. ASSUME RunnerDone, rec' \in [ProviderTargets -> Records]
        PROVE  Loaded'
    BY <2>1, <2>2 DEF RunnerDone, GenTypeOK, Memory, RowsStay
  <2>3. CASE RunnerSelect
    BY <2>3, KeepsLoaded DEF RunnerSelect, genVars, GenTypeOK
  <2>4. CASE RunnerClaim
    <3> DEFINE j == candidate[Runner]
    <3>1. j \in JobIds /\ target[j] \in Targets \union {NoTarget} /\ attempt[j] \in 0..MaxAttempts
      BY <2>4, RunnerAssumption, BoundsAssumption DEF RunnerClaim, ClaimCommit, Typed, TypeOK
    <3>2. At("claimed", target[j], j, NoTask, attempt[j]) \in Threads(Pcs)
      BY <3>1 DEF At, Threads, TaskIds
    <3>3. Claimable(j) => j \in Created
      BY <3>1 DEF Claimable, Created
    <3>4. QED
      BY <2>1, <2>4, <3>1, <3>2, <3>3 DEF RunnerClaim, GenTypeOK, Memory, RowsStay, At
  <2>5. CASE RunnerLoad
    <3> DEFINE state == [runner EXCEPT !.pc = "polling", !.task = rec[runner.target].task]
    <3>1. /\ state \in Threads(Pcs) /\ state.pc = "polling"
          /\ state.target = runner.target /\ state.job = runner.job
      BY <2>1, <2>5 DEF RunnerLoad, GenTypeOK, Records, Threads
    <3> HIDE DEF state
    <3>2. runner' = state
      BY <2>5 DEF RunnerLoad, state
    <3>3. QED
      BY <2>5, <3>1, <3>2 DEF RunnerLoad, GenTypeOK, Memory, RowsStay
  <2>6. CASE RunnerGivesUp \/ RunnerRequeue \/ RunnerLost
    BY <2>2, <2>6 DEF RunnerGivesUp, RunnerRequeue, RunnerLost, GenTypeOK
  <2>7. ASSUME NEW s \in {"succeeded", "failed"}, RunnerFinish(s)
        PROVE  Loaded'
    <3>1. runner.task \in TaskIds
      BY <2>1 DEF Threads
    <3>2. rec' \in [ProviderTargets -> Records]
      BY <2>7, <3>1, WriteRecords DEF RunnerFinish, Memory, GenTypeOK
    <3>3. QED
      BY <2>2, <2>7, <3>2 DEF RunnerFinish
  <2>8. QED
    BY <1>6, <2>3, <2>4, <2>5, <2>6, <2>7 DEF RunnerStep
<1>7. CASE HookStep
  <2> DEFINE Pcs == {"idle", "loaded", "completed", "failed"}
  <2>1. hook \in Threads(Pcs) /\ Idle \in Threads(Pcs) /\ Idle.pc = "idle"
    BY BoundsAssumption DEF GenTypeOK, Idle, Threads, TaskIds
  <2>2. ASSUME NEW state \in Threads(Pcs), hook' = state,
               state.pc # "idle" => state.target \in ProviderTargets,
               rec' \in [ProviderTargets -> Records], UNCHANGED <<call, runner, issued, up, crashes>>
        PROVE  Loaded'
    BY <2>2 DEF GenTypeOK, Memory, RowsStay
  <2>3. hook.pc # "idle" => hook.target \in ProviderTargets /\ hook.task \in TaskIds
    BY <2>1 DEF Memory, Threads
  <2>4. ASSUME NEW x \in ProviderTargets, HookLoad(x)
        PROVE  Loaded'
    <3>1. At("loaded", x, NoJob, rec[x].task, 0) \in Threads(Pcs)
      BY BoundsAssumption DEF GenTypeOK, Records, At, Threads, Targets
    <3>2. QED
      BY <2>2, <2>4, <3>1 DEF HookLoad, At, GenTypeOK
  <2>5. ASSUME NEW s \in {"failed", "processing"}, HookState(s)
        PROVE  Loaded'
    <3>1. rec' \in [ProviderTargets -> Records]
      BY <2>3, <2>5, WriteRecords DEF HookState
    <3>2. QED
      BY <2>1, <2>2, <2>5, <3>1 DEF HookState
  <2>6. ASSUME NEW s \in {"completed", "failed"}, HookResult(s)
        PROVE  Loaded'
    <3> DEFINE state == [hook EXCEPT !.pc = s]
    <3>1. rec' \in [ProviderTargets -> Records]
      BY <2>3, <2>6, WriteRecords DEF HookResult, GenTypeOK
    <3>2. state \in Threads(Pcs) /\ state.target = hook.target
      BY <2>1 DEF Threads
    <3> HIDE DEF state
    <3>3. hook' = state
      BY <2>6 DEF HookResult, state
    <3>4. QED
      BY <2>2, <2>3, <2>6, <3>1, <3>2, <3>3 DEF HookResult
  <2>7. CASE HookSettle
    BY <2>1, <2>2, <2>7 DEF HookSettle, GenTypeOK
  <2>8. QED
    BY <1>7, <2>4, <2>5, <2>6, <2>7 DEF HookStep
<1>8. CASE ProcessStep
  <2>1. /\ Idle.pc = "idle"
        /\ Idle \in Threads({"idle", "reopened", "loaded", "saved", "submitted"})
        /\ Idle \in Threads({"idle", "claimed", "polling"})
        /\ Idle \in Threads({"idle", "loaded", "completed", "failed"})
    BY BoundsAssumption DEF Idle, Threads, TaskIds
  <2>2. ASSUME Vanish, crashes' \in 0..MaxCrashes
        PROVE  Loaded'
    BY <2>1, <2>2 DEF Vanish, GenTypeOK, Memory
  <2>3. crashes < MaxCrashes => crashes + 1 \in 0..MaxCrashes
    BY FaultsAssumption DEF GenTypeOK
  <2>4. CASE Stop
    BY <2>3, <2>4, KeepsLoaded DEF Stop, GenTypeOK
  <2>5. CASE Exit \/ Crash
    BY <2>2, <2>3, <2>5 DEF Exit, Crash, GenTypeOK
  <2>6. CASE Boot
    BY <2>6, KeepsLoaded DEF Boot, GenTypeOK
  <2>7. QED
    BY <1>8, <2>4, <2>5, <2>6 DEF ProcessStep
<1>9. CASE Time
  BY <1>9, KeepsLoaded DEF Time, genVars, GenTypeOK
<1>10. QED
  BY <1>1, <1>4, <1>5, <1>6, <1>7, <1>8, <1>9 DEF Next

\* The invariant of the path that the refinement rests on.
PathInv == Inv /\ Loaded

\* A step of the path is a step of the service and keeps the invariant.
LEMMA StepPath ==
  ASSUME PathInv, [Next]_vars
  PROVE  [JobsNext]_jobVars /\ RowsStay /\ PathInv'
<1>1. [JobsNext]_jobVars
  <2>1. CASE UNCHANGED vars
    BY <2>1 DEF vars, jobVars
  <2>2. CASE Next
    BY <2>2, StepUsesJobs DEF PathInv, Loaded
  <2>3. QED
    BY <2>1, <2>2
<1>2. RowsStay
  BY <1>1, StepRowsStay DEF PathInv, Inv
<1>3. Inv'
  BY <1>1, StepType, StepRows, StepOrder DEF PathInv, Inv
<1>4. Loaded'
  BY <1>2, StepLoaded DEF PathInv, Inv
<1>5. QED
  BY <1>1, <1>2, <1>3, <1>4 DEF PathInv

\* The path starts in it.
LEMMA InitPath == Init => PathInv
<1>1. JobsInit => Inv
  BY InitType, InitRows DEF Inv, JobsInit, TableOrder, InsertsInOrder, OlderActiveWasRetried,
                            Created, Active
<1>2. QED
  BY <1>1, InitLoaded DEF Init, PathInv

\* Types and memory stay in order on the whole path.
THEOREM PathInvariance == Spec => []PathInv
<1>1. Init => PathInv
  BY InitPath
<1>2. PathInv /\ [Next]_vars => PathInv'
  BY StepPath
<1>3. QED
  BY <1>1, <1>2, PTL DEF Spec

\* Every record, request, poll and webhook in flight keeps its type.
THEOREM PathTypeInvariant == Spec => []GenTypeOK
<1>1. PathInv => GenTypeOK
  BY DEF PathInv, Loaded
<1>2. QED
  BY <1>1, PathInvariance, PTL

\* The requests, the runner, the webhooks and the process write the job table
\* only by operations of the job service.
THEOREM PathUsesJobService == Spec => UsesJobService
<1>1. Init => JobsInit
  BY DEF Init
<1>2. PathInv /\ [Next]_vars => [JobsNext]_jobVars
  BY StepPath
<1>3. QED
  BY <1>1, <1>2, PathInvariance, PTL DEF Spec, UsesJobService

\* So what is proved of the service holds of the path, its lifecycle first.
THEOREM PathImplementsLifecycle == Spec => ImplementsLifecycle
BY PathUsesJobService, Refinement, PTL DEF UsesJobService, JobsSpec

\* The jobs that create admitted stay within the active-job limit.
THEOREM PathWithinLimit == Spec => []FirstAttemptsWithinLimit
BY PathUsesJobService, FirstAttemptsStayWithinLimit, PTL DEF UsesJobService, JobsSpec

\* What the day's first attempts cost stays within the daily budget.
THEOREM PathWithinBudget == Spec => []FirstAttemptsWithinBudget
BY PathUsesJobService, FirstAttemptsStayWithinBudget, PTL DEF UsesJobService, JobsSpec
-----------------------------------------------------------------------------
(***************************************************************************)
(* The runner's claim.  Only the claim puts a name on a row, and only Retry *)
(* changes an attempt, of a row that has no name.                          *)
(***************************************************************************)
\* A step that is no claim leaves a row that is held as it was.
LEMMA HeldRowsStay ==
  ASSUME Typed, RowProtocol, [JobsNext]_jobVars, \A o \in Owners : ~ClaimCommit(o),
         NEW j \in JobIds, owner'[j] # NoOwner
  PROVE  owner'[j] = owner[j] /\ attempt'[j] = attempt[j]
<1> USE DEF Typed, TypeOK, rowVars
<1>1. ASSUME NEW i \in JobIds, NEW t \in Targets, NEW r \in AnyRun, CreateNew(i, t, r)
      PROVE  owner'[j] = owner[j] /\ attempt'[j] = attempt[j]
  BY <1>1 DEF CreateNew, Insert
<1>2. ASSUME NEW i \in JobIds, NEW t \in Tasks, SetWaitingCurrent(i, t)
      PROVE  owner'[j] = owner[j] /\ attempt'[j] = attempt[j]
  BY <1>2 DEF SetWaitingCurrent
<1>3. ASSUME NEW S \in SUBSET ActiveJobs, NEW s \in Terminal, Settle(S, s)
      PROVE  owner'[j] = owner[j] /\ attempt'[j] = attempt[j]
  BY <1>3 DEF Settle
<1>4. ASSUME NEW c \in Callers, RetryWrite(c)
      PROVE  owner'[j] = owner[j] /\ attempt'[j] = attempt[j]
  <2>1. retrying[c] \in Snapshot
    BY <1>4 DEF RetryWrite
  <2>2. status[j] = "running"
    BY <1>4 DEF RetryWrite, RetryUpdate, RetryRefused, ReopenAs, RowProtocol, HeldOnlyWhileRunning
  <2>3. QED
    BY <1>4, <2>1, <2>2 DEF RetryWrite, RetryUpdate, RetryRefused, ReopenAs, Snapshot
<1>5. ASSUME NEW i \in JobIds, NEW o \in Owners, RequeueJob(i, o)
      PROVE  owner'[j] = owner[j] /\ attempt'[j] = attempt[j]
  BY <1>5 DEF RequeueJob
<1>6. CASE RecoverExpired
  BY <1>6 DEF RecoverExpired
<1>7. ASSUME owner' = owner, attempt' = attempt
      PROVE  owner'[j] = owner[j] /\ attempt'[j] = attempt[j]
  BY <1>7
<1>8. QED
  BY NextCases, <1>1, <1>2, <1>3, <1>4, <1>5, <1>6, <1>7
     DEF jobVars, CreateReuse, AttachRun, RetryRead, Remember, DetachChildren, ClaimSelect,
         RenewLease, LeaseElapses, BecomeDue, NewDay

\* Every other step of the path either lets the claim go or keeps it.
KeepsClaim ==
  \/ runner'.pc = "idle"
  \/ runner.pc # "idle" /\ runner'.job = runner.job /\ runner'.attempt = runner.attempt

\* What the runner claimed is the attempt it holds.
LEMMA StepClaim ==
  ASSUME PathInv, ClaimCoversAttempt, [Next]_vars
  PROVE  ClaimCoversAttempt'
<1> USE RunnerAssumption DEF PathInv, Inv, Loaded
<1>1. [JobsNext]_jobVars
  BY StepPath
<1>2. CASE RunnerClaim
  <2> DEFINE j == candidate[Runner]
  <2>1. j \in JobIds
    BY <1>2 DEF RunnerClaim, ClaimCommit, Typed, TypeOK
  <2>2. CASE Claimable(j)
    BY <1>2, <2>1, <2>2 DEF RunnerClaim, ClaimCommit, ClaimUpdate, ClaimMiss, At, ClaimCoversAttempt
  <2>3. CASE ~Claimable(j)
    BY <1>2, <2>3 DEF RunnerClaim, ClaimCoversAttempt, Idle
  <2>4. QED
    BY <2>2, <2>3
<1>3. ASSUME KeepsClaim, candidate' = candidate \/ RecoverExpired \/ UNCHANGED rowVars
      PROVE  ClaimCoversAttempt'
  <2> SUFFICES ASSUME runner'.pc # "idle", RunnerHolds'
               PROVE  attempt'[runner'.job] = runner'.attempt
    BY DEF ClaimCoversAttempt
  <2>1. runner.pc # "idle" /\ runner'.job = runner.job /\ runner'.attempt = runner.attempt
    BY <1>3 DEF KeepsClaim
  <2>2. runner.job \in JobIds
    BY <2>1 DEF Memory, Created
  <2>3. owner'[runner.job] = Runner /\ Runner # NoOwner
    BY <2>1, NullsAssumption DEF RunnerHolds, IsOwned
  <2>4. owner'[runner.job] = owner[runner.job] /\ attempt'[runner.job] = attempt[runner.job]
    <3>1. CASE candidate' = candidate
      <4>1. \A o \in Owners : ~ClaimCommit(o)
        BY <3>1 DEF ClaimCommit, Typed, TypeOK
      <4>2. QED
        BY <1>1, <2>2, <2>3, <4>1, HeldRowsStay
    <3>2. CASE RecoverExpired
      BY <2>2, <2>3, <3>2 DEF RecoverExpired, Typed, TypeOK
    <3>3. CASE UNCHANGED rowVars
      BY <3>3 DEF rowVars
    <3>4. QED
      BY <1>3, <3>1, <3>2, <3>3
  <2>5. RunnerHolds
    BY <2>2, <2>3, <2>4 DEF RunnerHolds, IsOwned, RowProtocol, HeldOnlyWhileRunning
  <2>6. QED
    BY <2>1, <2>4, <2>5 DEF ClaimCoversAttempt
<1>4. runner' = runner => KeepsClaim
  BY DEF KeepsClaim
<1>5. Idle.pc = "idle"
  BY DEF Idle
<1>6. CASE UNCHANGED vars
  BY <1>3, <1>4, <1>6 DEF vars, jobVars, genVars
<1>7. ASSUME NEW c \in Callers, CallStep(c)
      PROVE  ClaimCoversAttempt'
  <2>1. runner' = runner
    BY <1>7 DEF CallStep, CallCreate, CallWaiting, CallFinish, CallRetryWrite, CallLoad, CallSave,
                CallConfigFails, CallAbandons
  <2>2. candidate' = candidate
    BY <1>7 DEF CallStep, CallCreate, CallWaiting, CallFinish, CallRetryWrite, CallLoad, CallSave,
                CallConfigFails, CallAbandons, CreateNew, Insert, CreateReuse, AttachRun, SetWaitingCurrent,
                SetCurrent, Settle, RetryWrite, RetryUpdate, RetryRefused, ReopenAs, jobVars
  <2>3. QED
    BY <1>3, <1>4, <2>1, <2>2
<1>8. CASE UserStep
  <2>1. runner' = runner /\ candidate' = candidate
    BY <1>8 DEF UserStep, Generate, CallRetryRead, RetryRead, Remember, Enqueue, CreateNew, Insert,
                CancelJob, Cancel, Settle, jobVars, genVars
  <2>2. QED
    BY <1>3, <1>4, <2>1
<1>9. CASE RunnerStep
  <2>1. CASE RunnerSelect
    BY <1>3, <1>4, <2>1 DEF RunnerSelect, ClaimSelect, genVars
  <2>2. CASE RunnerLoad
    <3> DEFINE state == [runner EXCEPT !.pc = "polling", !.task = rec[runner.target].task]
    <3>1. state.job = runner.job /\ state.attempt = runner.attempt /\ runner.pc # "idle"
      BY <2>2 DEF RunnerLoad, GenTypeOK, Threads
    <3> HIDE DEF state
    <3>2. runner' = state /\ candidate' = candidate
      BY <2>2 DEF RunnerLoad, state, jobVars
    <3>3. QED
      BY <1>3, <3>1, <3>2 DEF KeepsClaim
  <2>3. ASSUME runner' = Idle, candidate' = candidate
        PROVE  ClaimCoversAttempt'
    BY <1>3, <1>5, <2>3 DEF KeepsClaim
  <2>4. QED
    BY <1>2, <1>9, <2>1, <2>2, <2>3
       DEF RunnerStep, RunnerGivesUp, RunnerRequeue, RunnerFinish, RunnerLost, RunnerDone, SetOwned,
           Settle, RequeueJob, jobVars
<1>10. CASE HookStep
  <2>1. runner' = runner /\ candidate' = candidate
    BY <1>10 DEF HookStep, HookLoad, HookState, HookResult, HookSettle, SetByTarget, Settle, jobVars
  <2>2. QED
    BY <1>3, <1>4, <2>1
<1>11. CASE ProcessStep
  <2>1. CASE Stop
    BY <1>3, <1>4, <2>1 DEF Stop, jobVars
  <2>2. CASE Exit \/ Crash
    BY <1>3, <1>5, <2>2 DEF Exit, Crash, Vanish, KeepsClaim, jobVars
  <2>3. CASE Boot
    BY <1>3, <1>4, <2>3 DEF Boot
  <2>4. QED
    BY <1>11, <2>1, <2>2, <2>3 DEF ProcessStep
<1>12. CASE Time
  BY <1>3, <1>4, <1>12 DEF Time, LeaseElapses, BecomeDue, genVars
<1>13. QED
  BY <1>6, <1>7, <1>8, <1>9, <1>10, <1>11, <1>12 DEF Next

\* While the runner's name is on a row the row is in the attempt the runner
\* claimed, however requests, retries, webhooks and restarts interleave with
\* the poll, so its result cannot land in a later attempt (async.go 97-222).
THEOREM ClaimsCoverTheirAttempt == Spec => []ClaimCoversAttempt
<1>1. Init => ClaimCoversAttempt
  BY DEF Init, ClaimCoversAttempt, Idle
<1>2. PathInv /\ ClaimCoversAttempt /\ [Next]_vars => ClaimCoversAttempt'
  BY StepClaim
<1>3. QED
  BY <1>1, <1>2, PathInvariance, PTL DEF Spec
-----------------------------------------------------------------------------
(***************************************************************************)
(* What can be polled.  As long as no job of a record was retried, the     *)
(* record has one request at most, which submits its one job, so nothing   *)
(* puts back the empty task the record had before.                         *)
(***************************************************************************)
\* The request c works on record x.
OnRecord(c, x) == call[c].pc # "idle" /\ call[c].target = x

NeverRetried(x) == \A j \in JobsOf(x) : attempt[j] = 1

Submissions(x) ==
  /\ rec[x] = NoRecord => JobsOf(x) = {}
  /\ \A c \in Callers : OnRecord(c, x) =>
       /\ rec[x] # NoRecord
       /\ \/ call[c].pc = "saved" /\ JobsOf(x) = {}
          \/ call[c].pc = "submitted" /\ \A j \in JobsOf(x) : j = call[c].job
       /\ \A d \in Callers : OnRecord(d, x) => d = c
  /\ \A j \in JobsOf(x) : task[j] # NoTask => rec[x].task # NoTask

SubmitOnce == \A x \in ProviderTargets : NeverRetried(x) => Submissions(x)

ThreadsHaveTasks ==
  /\ hook.pc # "idle" => hook.task # NoTask
  /\ runner.pc = "polling" => runner.task # NoTask

\* A record stays as it is, or it is written with its task or another one, or
\* no job of it has a task.
KeepsRecord(x) ==
  \/ rec'[x] = rec[x]
  \/ /\ rec'[x] # NoRecord
     /\ rec'[x].task # NoTask \/ rec'[x].task = rec[x].task \/ \A j \in JobsOf(x) : task[j] = NoTask

\* A request that is on the record now was on it, and is where it was.
KeepsCalls(x) == \A c \in Callers : OnRecord(c, x)' => call'[c] = call[c]

\* The rows of x are the ones there were, with the tasks they had, or the
\* record has a task.
KeepsJobs(x) ==
  /\ JobsOf(x)' = JobsOf(x)
  /\ rec'[x].task # NoTask \/ \A j \in JobsOf(x) : task'[j] = task[j]

\* Then its submissions stay in order.
LEMMA KeepsSubmissions ==
  ASSUME NEW x \in ProviderTargets, Submissions(x), KeepsRecord(x), KeepsCalls(x), KeepsJobs(x)
  PROVE  Submissions(x)'
<1>1. rec[x] = NoRecord => (rec'[x] = NoRecord \/ rec'[x] # NoRecord)
  OBVIOUS
<1>2. rec'[x] = NoRecord => rec[x] = NoRecord
  BY DEF KeepsRecord
<1>3. \A c \in Callers : OnRecord(c, x)' => OnRecord(c, x) /\ call'[c] = call[c]
  BY DEF KeepsCalls, OnRecord
<1>4. \A j \in JobsOf(x) : task'[j] # NoTask => rec'[x].task # NoTask
  BY DEF KeepsJobs, KeepsRecord, Submissions
<1>5. JobsOf(x)' = JobsOf(x)
  BY DEF KeepsJobs
<1> HIDE DEF OnRecord, JobsOf
<1>6. ASSUME NEW c \in Callers, OnRecord(c, x)'
      PROVE  /\ rec'[x] # NoRecord
             /\ \/ call'[c].pc = "saved" /\ JobsOf(x)' = {}
                \/ call'[c].pc = "submitted" /\ \A j \in JobsOf(x)' : j = call'[c].job
             /\ \A d \in Callers : OnRecord(d, x)' => d = c
  BY <1>2, <1>3, <1>5, <1>6 DEF Submissions
<1>7. QED
  BY <1>2, <1>4, <1>5, <1>6 DEF Submissions

\* A row in its first attempt was in its first attempt before.
LEMMA FirstAttemptsWereFirst ==
  ASSUME Typed, [JobsNext]_jobVars, NEW j \in JobIds, attempt'[j] = 1
  PROVE  attempt[j] = 1
<1> USE DEF Typed, TypeOK, rowVars
<1>1. ASSUME NEW c \in Callers, RetryWrite(c)
      PROVE  attempt[j] = 1
  <2>1. retrying[c] \in Snapshot
    BY <1>1 DEF RetryWrite
  <2>2. retrying[c].job \in JobIds /\ retrying[c].attempt \in 1..MaxAttempts
    BY <2>1 DEF Snapshot
  <2>3. QED
    BY <1>1, <2>2, BoundsAssumption DEF RetryWrite, RetryUpdate, RetryRefused, ReopenAs
<1>2. ASSUME attempt' = attempt
      PROVE  attempt[j] = 1
  BY <1>2
<1>3. QED
  BY NextCases, <1>1, <1>2
     DEF jobVars, CreateNew, Insert, CreateReuse, AttachRun, SetWaitingCurrent, Settle, RetryRead,
         Remember, DetachChildren, ClaimSelect, ClaimCommit, ClaimUpdate, ClaimMiss, RenewLease,
         RequeueJob, RecoverExpired, LeaseElapses, BecomeDue, NewDay

\* A record without a retried job had none before.
LEMMA NeverRetriedBefore ==
  ASSUME Typed, [JobsNext]_jobVars, NEW x, NeverRetried(x)'
  PROVE  NeverRetried(x)
<1>1. RowsStay
  BY StepRowsStay
<1>2. ASSUME NEW j \in JobsOf(x) PROVE attempt[j] = 1
  <2>1. j \in JobIds /\ j \in JobsOf(x)'
    BY <1>1, <1>2 DEF JobsOf, RowsStay, Created
  <2>2. attempt'[j] = 1
    BY <2>1 DEF NeverRetried
  <2>3. QED
    BY <2>1, <2>2, FirstAttemptsWereFirst
<1>3. QED
  BY <1>2 DEF NeverRetried

PollInv == PathInv /\ SubmitOnce /\ ThreadsHaveTasks

\* What a write leaves of a record that is no longer NoRecord.
LEMMA WriteKeepsRecord ==
  ASSUME GenTypeOK, NEW x \in ProviderTargets, NEW y, NEW s, NEW t, Write(y, s, t), s # "none",
         y = x => t # NoTask \/ t = rec[x].task \/ \A j \in JobsOf(x) : task[j] = NoTask
  PROVE  KeepsRecord(x)
<1>1. CASE y = x
  BY <1>1 DEF Write, GenTypeOK, KeepsRecord, NoRecord
<1>2. CASE y # x
  BY <1>2 DEF Write, GenTypeOK, KeepsRecord
<1>3. QED
  BY <1>1, <1>2

\* Operations that insert nothing and give no task keep the rows of a record.
LEMMA SameRowsKeepJobs ==
  ASSUME NEW x, RowsStay, Created' = Created, task' = task
  PROVE  KeepsJobs(x)
BY DEF KeepsJobs, JobsOf, RowsStay

\* Settling rows is such an operation.
LEMMA SettleKeepsJobs ==
  ASSUME Typed, RowsStay, NEW S, NEW s \in Terminal, Settle(S, s), S \subseteq Created, NEW x
  PROVE  KeepsJobs(x)
<1>1. Created' = Created
  BY DEF Settle, Created, Typed, TypeOK, Terminal
<1>2. QED
  BY <1>1, SameRowsKeepJobs DEF Settle

\* Every step of the path keeps the submissions of a record none of whose jobs
\* was retried.
LEMMA StepSubmissions ==
  ASSUME PollInv, [Next]_vars, NEW x \in ProviderTargets, NeverRetried(x)'
  PROVE  Submissions(x)'
<1> USE DEF PollInv, PathInv, Inv, Loaded
<1>1. [JobsNext]_jobVars /\ RowsStay
  BY StepPath
<1>2. Submissions(x)
  BY <1>1, NeverRetriedBefore DEF SubmitOnce
<1>3. ASSUME KeepsRecord(x), KeepsCalls(x), KeepsJobs(x)
      PROVE  Submissions(x)'
  BY <1>2, <1>3, KeepsSubmissions
<1>4. (rec' = rec \/ rec'[x] = rec[x]) => KeepsRecord(x)
  BY DEF KeepsRecord
<1>5. call' = call => KeepsCalls(x)
  BY DEF KeepsCalls
<1>6. (Created' = Created /\ task' = task) => KeepsJobs(x)
  BY <1>1, SameRowsKeepJobs
<1>7. UNCHANGED jobVars => KeepsJobs(x)
  BY <1>6 DEF jobVars, Created
<1>8. ASSUME NEW c \in Callers, NEW state, Goto(c, state), state.pc = "idle" \/ state.target # x
      PROVE  KeepsCalls(x)
  BY <1>8 DEF Goto, KeepsCalls, OnRecord, GenTypeOK
<1>9. ASSUME NEW S \in SUBSET Created, NEW s \in {"succeeded", "failed", "canceled"}, Settle(S, s)
      PROVE  KeepsJobs(x)
  BY <1>1, <1>9, SettleKeepsJobs DEF Terminal
<1>10. Idle.pc = "idle"
  BY DEF Idle
<1>11. ASSUME NEW c \in Callers, NEW y \in ProviderTargets, Generate(c, y)
       PROVE  Submissions(x)'
  <2> DEFINE state == At("saved", y, NoJob, NoTask, 0)
  <2>1. Goto(c, state) /\ Write(y, "processing", NoTask) /\ rec[y] = NoRecord /\ UNCHANGED jobVars
    BY <1>11 DEF Generate
  <2>2. state.pc = "saved" /\ state.target = y
    BY DEF At
  <2> HIDE DEF state
  <2>3. CASE y # x
    <3>1. KeepsRecord(x)
      BY <2>1, <2>3, WriteKeepsRecord
    <3>2. KeepsCalls(x)
      BY <1>8, <2>1, <2>2, <2>3
    <3>3. QED
      BY <1>3, <1>7, <2>1, <3>1, <3>2
  <2>4. CASE y = x
    <3>1. JobsOf(x) = {} /\ \A d \in Callers : ~OnRecord(d, x)
      BY <1>2, <2>1, <2>4 DEF Submissions
    <3>2. JobsOf(x)' = {}
      BY <1>7, <2>1, <3>1 DEF KeepsJobs
    <3>3. rec'[x] # NoRecord
      BY <2>1, <2>4 DEF Write, NoRecord, GenTypeOK
    <3>4. \A d \in Callers : OnRecord(d, x)' => d = c
      BY <2>1, <3>1 DEF Goto, OnRecord, GenTypeOK
    <3>5. call'[c].pc = "saved"
      BY <2>1, <2>2 DEF Goto, GenTypeOK
    <3>6. QED
      BY <3>2, <3>3, <3>4, <3>5 DEF Submissions
  <2>5. QED
    BY <2>3, <2>4
<1>12. ASSUME NEW c \in Callers, CallCreate(c)
       PROVE  Submissions(x)'
  <2> DEFINE y == call[c].target
  <2>1. y \in ProviderTargets /\ OnRecord(c, y) /\ call[c].pc = "saved" /\ rec' = rec
    BY <1>12 DEF CallCreate, Memory, OnRecord
  <2>2. CASE Goto(c, Idle) /\ UNCHANGED jobVars
    BY <1>3, <1>4, <1>7, <1>8, <1>10, <2>1, <2>2
  <2>3. ASSUME NEW j \in JobIds, CreateNew(j, y, NoRun) \/ CreateReuse(j, y, NoRun),
               Goto(c, At("submitted", y, j, call[c].task, attempt[j]))
        PROVE  Submissions(x)'
    <3> DEFINE state == At("submitted", y, j, call[c].task, attempt[j])
    <3>1. state.pc = "submitted" /\ state.target = y /\ state.job = j
      BY DEF At
    <3>2. Goto(c, state)
      BY <2>3
    <3> HIDE DEF state
    <3>3. CASE CreateNew(j, y, NoRun)
      <4>1. /\ j \notin Created /\ Created' = Created \union {j} /\ target'[j] = y /\ task' = task
            /\ \A k \in JobIds \ {j} : target'[k] = target[k]
        BY <3>3 DEF CreateNew, Insert, Created, Typed, TypeOK
      <4>2. CASE y # x
        <5>1. JobsOf(x)' = JobsOf(x)
          BY <4>1, <4>2 DEF JobsOf, Created
        <5>2. KeepsJobs(x)
          BY <4>1, <5>1 DEF KeepsJobs
        <5>3. KeepsCalls(x)
          BY <1>8, <3>1, <3>2, <4>2
        <5>4. QED
          BY <1>3, <1>4, <2>1, <5>2, <5>3
      <4>3. CASE y = x
        <5>1. rec[x] # NoRecord /\ JobsOf(x) = {} /\ \A d \in Callers : OnRecord(d, x) => d = c
          BY <1>2, <2>1, <4>3 DEF Submissions
        <5>2. JobsOf(x)' = {j}
          BY <4>1, <4>3, <5>1 DEF JobsOf, Created
        <5>3. task'[j] = NoTask
          BY <4>1 DEF Created, RowProtocol, BlankRows
        <5>4. \A d \in Callers : OnRecord(d, x)' => d = c
          BY <3>2, <5>1 DEF Goto, OnRecord, GenTypeOK
        <5>5. call'[c].pc = "submitted" /\ call'[c].job = j
          BY <3>1, <3>2 DEF Goto, GenTypeOK
        <5> HIDE DEF OnRecord, JobsOf
        <5>6. QED
          BY <2>1, <5>1, <5>2, <5>3, <5>4, <5>5 DEF Submissions
      <4>4. QED
        BY <4>2, <4>3
    <3>4. CASE CreateReuse(j, y, NoRun)
      <4>1. j \in Created /\ target[j] = y /\ Created' = Created /\ task' = task
        BY <3>4 DEF CreateReuse, AttachRun, Newest, ActiveOf, ActiveJobs, Active, Created
      <4>2. y # x
        BY <1>2, <2>1, <4>1 DEF Submissions, JobsOf
      <4>3. KeepsCalls(x)
        BY <1>8, <3>1, <3>2, <4>2
      <4>4. QED
        BY <1>3, <1>4, <1>6, <2>1, <4>1, <4>3
    <3>5. QED
      BY <2>3, <3>3, <3>4
  <2>4. QED
    BY <1>12, <2>2, <2>3 DEF CallCreate
<1>13. ASSUME NEW c \in Callers, CallWaiting(c)
       PROVE  Submissions(x)'
  <2> DEFINE y == call[c].target
             j == call[c].job
  <2>1. y \in ProviderTargets /\ j \in Created /\ target[j] = y
    BY <1>13 DEF CallWaiting, Memory
  <2>2. KeepsCalls(x)
    BY <1>8, <1>10, <1>13 DEF CallWaiting
  <2>3. CASE UNCHANGED <<jobVars, rec>>
    BY <1>3, <1>4, <1>7, <2>2, <2>3
  <2>4. ASSUME NEW t \in Tasks, SetWaitingCurrent(j, t), Write(y, "processing", t)
        PROVE  Submissions(x)'
    <3>1. t # NoTask
      BY NullsAssumption
    <3>2. KeepsRecord(x)
      BY <2>4, <3>1, WriteKeepsRecord
    <3>3. Created' = Created /\ \A k \in JobIds \ {j} : task'[k] = task[k]
      BY <2>1, <2>4 DEF SetWaitingCurrent, Created, Typed, TypeOK
    <3>4. JobsOf(x)' = JobsOf(x)
      BY <1>1, <3>3 DEF JobsOf, RowsStay
    <3>5. y = x => rec'[x].task # NoTask
      BY <2>4, <3>1 DEF Write, GenTypeOK
    <3>6. KeepsJobs(x)
      BY <2>1, <3>3, <3>4, <3>5 DEF KeepsJobs, JobsOf, Created
    <3>7. QED
      BY <1>3, <2>2, <3>2, <3>6
  <2>5. QED
    BY <1>13, <2>3, <2>4 DEF CallWaiting
<1>14. ASSUME NEW c \in Callers, NEW s \in {"succeeded", "failed"}, CallFinish(c, s)
       PROVE  Submissions(x)'
  <2> DEFINE y == call[c].target
             j == call[c].job
             ends == IF s = "succeeded" THEN "completed" ELSE "failed"
  <2>1. y \in ProviderTargets /\ j \in Created /\ call[c].pc = "submitted"
    BY <1>14 DEF CallFinish, Memory
  <2>2. KeepsCalls(x)
    BY <1>8, <1>10, <1>14 DEF CallFinish
  <2>3. CASE UNCHANGED <<jobVars, rec>>
    BY <1>3, <1>4, <1>7, <2>2, <2>3
  <2>4. CASE SetCurrent(j, s) /\ Write(y, ends, call[c].task)
    <3>1. task[j] = NoTask
      BY <2>1, <2>4 DEF SetCurrent, Current, RowProtocol, TaskMatchesPhase, Created
    <3>2. y = x => \A k \in JobsOf(x) : task[k] = NoTask
      BY <1>2, <2>1, <3>1 DEF Submissions, OnRecord
    <3>3. ends # "none"
      OBVIOUS
    <3> HIDE DEF ends, y
    <3>4. KeepsRecord(x)
      BY <2>4, <3>2, <3>3, WriteKeepsRecord
    <3>5. KeepsJobs(x)
      BY <1>9, <2>1, <2>4 DEF SetCurrent
    <3>6. QED
      BY <1>3, <2>2, <3>4, <3>5
  <2>5. QED
    BY <1>14, <2>3, <2>4 DEF CallFinish
<1>15. ASSUME NEW c \in Callers, CallRetryWrite(c)
       PROVE  Submissions(x)'
  <2> DEFINE seen == retrying[c]
             j == seen.job
  <2>1. seen \in Snapshot /\ j \in JobIds /\ seen.attempt \in Nat \ {0} /\ seen.status \in {"failed", "canceled"}
    BY <1>15, BoundsAssumption DEF CallRetryWrite, RetryWrite, Snapshot, Typed, TypeOK
  <2>2. CASE RetryRefused(j, seen)
    <3>1. rec' = rec /\ call' = call
      BY <1>15, <2>2 DEF CallRetryWrite, RetryRefused
    <3>2. KeepsJobs(x)
      BY <1>6, <2>2 DEF RetryRefused, rowVars, Created
    <3>3. QED
      BY <1>3, <1>4, <1>5, <3>1, <3>2
  <2>3. CASE RetryUpdate(j, seen)
    <3> HIDE DEF seen
    <3>1. /\ status[j] = seen.status /\ attempt'[j] = seen.attempt + 1 /\ target' = target
          /\ Created' = Created /\ \A k \in JobIds \ {j} : task'[k] = task[k]
      BY <2>1, <2>3 DEF RetryUpdate, ReopenAs, NextStatus, Created, Typed, TypeOK
    <3>2. target[j] # x
      <4>1. j \in Created'
        BY <2>1, <3>1 DEF Created
      <4>2. attempt'[j] # 1
        BY <2>1, <3>1
      <4>3. QED
        BY <3>1, <4>1, <4>2 DEF NeverRetried, JobsOf
    <3>3. KeepsJobs(x)
      BY <3>1, <3>2 DEF KeepsJobs, JobsOf, Created
    <3>4. CASE target[j] \in ProviderTargets
      <4> DEFINE state == At("reopened", target[j], NoJob, NoTask, 0)
      <4>1. Write(target[j], "pending", NoTask) /\ Goto(c, state)
        BY <1>15, <3>1, <3>4 DEF CallRetryWrite, seen
      <4>2. state.target = target[j]
        BY DEF At
      <4> HIDE DEF state
      <4>3. KeepsRecord(x)
        BY <3>2, <4>1, WriteKeepsRecord
      <4>4. KeepsCalls(x)
        BY <1>8, <3>2, <4>1, <4>2
      <4>5. QED
        BY <1>3, <3>3, <4>3, <4>4
    <3>5. CASE target[j] \notin ProviderTargets
      <4>1. rec' = rec /\ call' = call
        BY <1>15, <3>5 DEF CallRetryWrite, seen
      <4>2. QED
        BY <1>3, <1>4, <1>5, <3>3, <4>1
    <3>6. QED
      BY <3>4, <3>5
  <2>4. QED
    BY <1>15, <2>2, <2>3 DEF CallRetryWrite, RetryWrite
<1>16. ASSUME NEW c \in Callers, CallLoad(c)
       PROVE  Submissions(x)'
  <2> DEFINE state == [call[c] EXCEPT !.pc = "loaded", !.task = rec[call[c].target].task]
  <2>1. call[c].target # x
    BY <1>2, <1>16 DEF CallLoad, Submissions, OnRecord
  <2>2. state.target = call[c].target
    BY DEF GenTypeOK, Threads
  <2> HIDE DEF state
  <2>3. Goto(c, state) /\ UNCHANGED <<jobVars, rec>>
    BY <1>16 DEF CallLoad, state
  <2>4. KeepsCalls(x)
    BY <1>8, <2>1, <2>2, <2>3
  <2>5. QED
    BY <1>3, <1>4, <1>7, <2>3, <2>4
<1>17. ASSUME NEW c \in Callers, CallSave(c)
       PROVE  Submissions(x)'
  <2> DEFINE state == [call[c] EXCEPT !.pc = "saved"]
  <2>1. call[c].target # x
    BY <1>2, <1>17 DEF CallSave, Submissions, OnRecord
  <2>2. state.target = call[c].target
    BY DEF GenTypeOK, Threads
  <2> HIDE DEF state
  <2>3. Goto(c, state) /\ UNCHANGED jobVars /\ Write(call[c].target, "processing", call[c].task)
    BY <1>17 DEF CallSave, state
  <2>4. KeepsCalls(x)
    BY <1>8, <2>1, <2>2, <2>3
  <2>5. KeepsRecord(x)
    BY <2>1, <2>3, WriteKeepsRecord
  <2>6. QED
    BY <1>3, <1>7, <2>3, <2>4, <2>5
<1>18. ASSUME NEW c \in Callers, CallConfigFails(c) \/ CallAbandons(c)
       PROVE  Submissions(x)'
  BY <1>3, <1>4, <1>7, <1>8, <1>10, <1>18 DEF CallConfigFails, CallAbandons
<1>19. ASSUME NEW c \in Callers, NEW j \in JobIds, CallRetryRead(c, j)
       PROVE  Submissions(x)'
  BY <1>3, <1>4, <1>5, <1>6, <1>19 DEF CallRetryRead, RetryRead, Remember, rowVars, genVars, Created
<1>20. ASSUME NEW t \in WorkerTargets, Enqueue(t)
       PROVE  Submissions(x)'
  <2>1. PICK j \in JobIds : CreateNew(j, t, NoRun)
    BY <1>20 DEF Enqueue
  <2>2. /\ j \notin Created /\ Created' = Created \union {j} /\ target'[j] = t /\ task' = task
        /\ \A k \in JobIds \ {j} : target'[k] = target[k]
    BY <2>1 DEF CreateNew, Insert, Created, Typed, TypeOK
  <2>3. t # x
    BY KindsAssumption
  <2>4. JobsOf(x)' = JobsOf(x)
    BY <2>2, <2>3 DEF JobsOf, Created
  <2>5. KeepsJobs(x)
    BY <2>2, <2>4 DEF KeepsJobs
  <2>6. QED
    BY <1>3, <1>4, <1>5, <1>20, <2>5 DEF Enqueue, genVars
<1>21. ASSUME NEW j \in JobIds, CancelJob(j)
       PROVE  Submissions(x)'
  <2>1. KeepsJobs(x)
    BY <1>9, <1>21 DEF CancelJob, Cancel, Active, Created
  <2>2. KeepsRecord(x)
    BY <1>4, <1>21, WriteKeepsRecord DEF CancelJob
  <2>3. QED
    BY <1>3, <1>5, <1>21, <2>1, <2>2 DEF CancelJob
<1>22. CASE RunnerStep
  <2>1. runner.pc # "idle" => runner.job \in Created
    BY DEF Memory
  <2>2. KeepsCalls(x)
    BY <1>5, <1>22 DEF RunnerStep, RunnerSelect, RunnerClaim, RunnerLoad, RunnerGivesUp, RunnerRequeue,
                       RunnerFinish, RunnerLost, RunnerDone, genVars
  <2>3. KeepsJobs(x)
    <3>1. CASE RunnerSelect \/ RunnerLoad
      BY <1>6, <1>7, <3>1 DEF RunnerSelect, RunnerLoad, ClaimSelect, rowVars, Created
    <3>2. CASE RunnerClaim
      BY <1>6, <3>2, RunnerAssumption
         DEF RunnerClaim, ClaimCommit, ClaimUpdate, ClaimMiss, Claimable, rowVars, Created, Typed, TypeOK
    <3>3. CASE RunnerRequeue
      BY <1>6, <3>3 DEF RunnerRequeue, RequeueJob, IsOwned, Created, Typed, TypeOK
    <3>4. CASE RunnerGivesUp \/ RunnerLost
      BY <1>7, <1>9, <2>1, <3>4 DEF RunnerGivesUp, RunnerLost, SetOwned
    <3>5. ASSUME NEW s \in {"succeeded", "failed"}, RunnerFinish(s)
          PROVE  KeepsJobs(x)
      BY <1>9, <2>1, <3>5 DEF RunnerFinish, SetOwned
    <3>6. QED
      BY <1>22, <3>1, <3>2, <3>3, <3>4, <3>5 DEF RunnerStep
  <2>4. KeepsRecord(x)
    <3>1. ASSUME NEW s \in {"succeeded", "failed"}, RunnerFinish(s)
          PROVE  KeepsRecord(x)
      BY <1>4, <3>1, WriteKeepsRecord DEF RunnerFinish, ThreadsHaveTasks
    <3>2. QED
      BY <1>4, <1>22, <3>1 DEF RunnerStep, RunnerSelect, RunnerClaim, RunnerLoad, RunnerGivesUp,
                               RunnerRequeue, RunnerLost, genVars
  <2>5. QED
    BY <1>3, <2>2, <2>3, <2>4
<1>23. CASE HookStep
  <2>1. KeepsCalls(x)
    BY <1>5, <1>23 DEF HookStep, HookLoad, HookState, HookResult, HookSettle
  <2>2. KeepsRecord(x)
    <3>1. ASSUME NEW s \in {"failed", "processing"}, HookState(s)
          PROVE  KeepsRecord(x)
      BY <3>1, WriteKeepsRecord DEF HookState, ThreadsHaveTasks
    <3>2. ASSUME NEW s \in {"completed", "failed"}, HookResult(s)
          PROVE  KeepsRecord(x)
      BY <1>4, <3>2, WriteKeepsRecord DEF HookResult, ThreadsHaveTasks
    <3>3. QED
      BY <1>4, <1>23, <3>1, <3>2 DEF HookStep, HookLoad, HookSettle
  <2>3. KeepsJobs(x)
    <3>1. CASE HookSettle
      <4>1. ASSUME NEW y, NEW s \in {"succeeded", "failed"}, SetByTarget(y, s)
            PROVE  KeepsJobs(x)
        BY <1>9, <4>1 DEF SetByTarget, Newest
      <4>2. QED
        BY <1>7, <3>1, <4>1 DEF HookSettle
    <3>2. QED
      BY <1>7, <1>23, <3>1 DEF HookStep, HookLoad, HookState, HookResult
  <2>4. QED
    BY <1>3, <2>1, <2>2, <2>3
<1>24. CASE ProcessStep
  <2>1. rec' = rec
    BY <1>24 DEF ProcessStep, Stop, Exit, Crash, Vanish, Boot
  <2>2. KeepsCalls(x)
    BY <1>5, <1>10, <1>24 DEF ProcessStep, Stop, Exit, Crash, Vanish, Boot, KeepsCalls, OnRecord
  <2>3. KeepsJobs(x)
    <3>1. CASE RecoverExpired
      <4>1. \A j \in JobIds : Reopenable(j) => j \in Created /\ Recovered(j) # "absent"
        BY DEF Reopenable, Recovered, Created
      <4>2. Created' = Created
        BY <3>1, <4>1 DEF RecoverExpired, Created
      <4>3. QED
        BY <1>6, <3>1, <4>2 DEF RecoverExpired
    <3>2. QED
      BY <1>7, <1>24, <3>1 DEF ProcessStep, Stop, Exit, Crash, Vanish, Boot
  <2>4. QED
    BY <1>3, <1>4, <2>1, <2>2, <2>3
<1>25. CASE Time
  <2>1. KeepsJobs(x)
    BY <1>6, <1>25 DEF Time, LeaseElapses, BecomeDue, Created
  <2>2. QED
    BY <1>3, <1>4, <1>5, <1>25, <2>1 DEF Time, genVars
<1>26. CASE UNCHANGED vars
  BY <1>3, <1>4, <1>5, <1>7, <1>26 DEF vars, genVars, jobVars
<1>27. QED
  BY <1>11, <1>12, <1>13, <1>14, <1>15, <1>16, <1>17, <1>18, <1>19, <1>20, <1>21, <1>22, <1>23,
     <1>24, <1>25, <1>26 DEF Next, CallStep, UserStep

\* What the runner and the webhook handler read has a task.
LEMMA StepThreads ==
  ASSUME PollInv, [Next]_vars
  PROVE  ThreadsHaveTasks'
<1> USE DEF PollInv, PathInv, Loaded, ThreadsHaveTasks
<1>1. Idle.pc = "idle"
  BY DEF Idle
<1>2. (hook' = hook \/ hook' = Idle) => (hook'.pc # "idle" => hook'.task # NoTask)
  BY <1>1
<1>3. (runner' = runner \/ runner' = Idle) => (runner'.pc = "polling" => runner'.task # NoTask)
  BY <1>1
<1>4. CASE HookStep
  <2>1. runner' = runner
    BY <1>4 DEF HookStep, HookLoad, HookState, HookResult, HookSettle
  <2>2. CASE hook' = Idle
    BY <1>2, <1>3, <2>1, <2>2
  <2>3. ASSUME NEW y \in ProviderTargets, HookLoad(y)
        PROVE  ThreadsHaveTasks'
    BY <1>3, <2>1, <2>3 DEF HookLoad, At
  <2>4. ASSUME NEW s \in {"completed", "failed"}, HookResult(s)
        PROVE  ThreadsHaveTasks'
    BY <1>3, <2>1, <2>4 DEF HookResult, GenTypeOK, Threads
  <2>5. QED
    BY <1>4, <2>2, <2>3, <2>4 DEF HookStep, HookState, HookSettle
<1>5. CASE RunnerStep
  <2>1. hook' = hook
    BY <1>5 DEF RunnerStep, RunnerSelect, RunnerClaim, RunnerLoad, RunnerGivesUp, RunnerRequeue,
                RunnerFinish, RunnerLost, RunnerDone, genVars
  <2>2. CASE runner' = runner \/ runner' = Idle
    BY <1>2, <1>3, <2>1, <2>2
  <2>3. CASE RunnerClaim
    BY <1>2, <1>1, <2>1, <2>3 DEF RunnerClaim, At
  <2>4. CASE RunnerLoad
    BY <1>2, <2>1, <2>4 DEF RunnerLoad, GenTypeOK, Threads
  <2>5. QED
    BY <1>5, <2>2, <2>3, <2>4 DEF RunnerStep, RunnerSelect, RunnerGivesUp, RunnerRequeue,
                                  RunnerFinish, RunnerLost, RunnerDone, genVars
<1>6. CASE ProcessStep
  BY <1>2, <1>3, <1>6 DEF ProcessStep, Stop, Exit, Crash, Vanish, Boot
<1>7. ASSUME NEW c \in Callers, CallStep(c)
      PROVE  ThreadsHaveTasks'
  BY <1>2, <1>3, <1>7 DEF CallStep, CallCreate, CallWaiting, CallFinish, CallRetryWrite, CallLoad,
                          CallSave, CallConfigFails, CallAbandons
<1>8. CASE UserStep \/ Time \/ UNCHANGED vars
  BY <1>2, <1>3, <1>8 DEF UserStep, Generate, CallRetryRead, Enqueue, CancelJob, Time, vars, genVars
<1>9. QED
  BY <1>4, <1>5, <1>6, <1>7, <1>8 DEF Next

\* A job that waits for its provider can be polled, whatever webhooks, polls,
\* cancellations, stops and crashes do, until one of the jobs of its record is
\* retried (async.go 490-512, pipeline.go 480-560).
THEOREM WaitingJobsCanBePolled == Spec => []PollableUntilRetried
<1>1. Init => PollInv
  <2> SUFFICES ASSUME Init PROVE PollInv
    OBVIOUS
  <2>1. PathInv
    BY InitPath
  <2>2. Created = {} /\ Idle.pc = "idle"
    BY DEF Init, JobsInit, Created, Idle
  <2>3. SubmitOnce
    BY <2>2 DEF Init, SubmitOnce, Submissions, OnRecord, JobsOf
  <2>4. QED
    BY <2>1, <2>2, <2>3 DEF Init, PollInv, ThreadsHaveTasks
<1>2. PollInv /\ [Next]_vars => PollInv'
  BY StepPath, StepSubmissions, StepThreads DEF PollInv, SubmitOnce
<1>3. PollInv => PollableUntilRetried
  <2> SUFFICES ASSUME PollInv, NEW j \in JobIds, status[j] = "waiting", NeverRetried(target[j])
               PROVE  rec[target[j]].task # NoTask
    BY DEF PollableUntilRetried, NeverRetried
  <2>1. target[j] \in ProviderTargets /\ task[j] # NoTask /\ j \in JobsOf(target[j])
    BY DEF PollInv, PathInv, Inv, RowProtocol, TaskMatchesPhase, JobsOf, Created
  <2>2. QED
    BY <2>1 DEF PollInv, SubmitOnce, Submissions
<1>4. QED
  BY <1>1, <1>2, <1>3, PTL DEF Spec
-----------------------------------------------------------------------------
(***************************************************************************)
(* Results.  A record is completed in the transaction that settles its     *)
(* job, and a succeeded job is never reopened.  Webhooks are left out: they*)
(* save the record on their own.                                           *)
(***************************************************************************)
\* A job that succeeded stays so.
LEMMA SuccessIsFinal ==
  ASSUME Typed, [JobsNext]_jobVars, NEW j \in JobIds, status[j] = "succeeded"
  PROVE  status'[j] = "succeeded"
<1> USE DEF Typed, TypeOK, rowVars
<1>1. ASSUME NEW i \in JobIds, NEW t \in Targets, NEW r \in AnyRun, CreateNew(i, t, r)
      PROVE  status'[j] = "succeeded"
  BY <1>1 DEF CreateNew, Insert, Created
<1>2. ASSUME NEW i \in JobIds, NEW t \in Tasks, SetWaitingCurrent(i, t)
      PROVE  status'[j] = "succeeded"
  BY <1>2 DEF SetWaitingCurrent, Current
<1>3. ASSUME NEW S \in SUBSET ActiveJobs, NEW s \in Terminal, Settle(S, s)
      PROVE  status'[j] = "succeeded"
  BY <1>3 DEF Settle, ActiveJobs, Active
<1>4. ASSUME NEW c \in Callers, RetryWrite(c)
      PROVE  status'[j] = "succeeded"
  <2>1. retrying[c] \in Snapshot
    BY <1>4 DEF RetryWrite
  <2>2. QED
    BY <1>4, <2>1 DEF RetryWrite, RetryUpdate, RetryRefused, ReopenAs, Snapshot
<1>5. ASSUME NEW o \in Owners, ClaimCommit(o)
      PROVE  status'[j] = "succeeded"
  BY <1>5 DEF ClaimCommit, ClaimUpdate, ClaimMiss, Claimable
<1>6. ASSUME NEW i \in JobIds, NEW o \in Owners, RequeueJob(i, o)
      PROVE  status'[j] = "succeeded"
  BY <1>6 DEF RequeueJob, IsOwned
<1>7. CASE RecoverExpired
  BY <1>7 DEF RecoverExpired, Reopenable
<1>8. ASSUME status' = status
      PROVE  status'[j] = "succeeded"
  BY <1>8
<1>9. QED
  BY NextCases, <1>1, <1>2, <1>3, <1>4, <1>5, <1>6, <1>7, <1>8
     DEF jobVars, CreateReuse, AttachRun, RetryRead, Remember, DetachChildren, ClaimSelect,
         RenewLease, LeaseElapses, BecomeDue, NewDay

Completed(x) == rec[x].status = "completed"

\* Without webhooks, a step that completes a record settles one of its jobs.
LEMMA CompletedBySuccess ==
  ASSUME ~Webhooks, PathInv, [Next]_vars, hook = Idle,
         NEW x \in ProviderTargets, Completed(x)', ~Completed(x)
  PROVE  \E j \in Created : target[j] = x /\ status'[j] = "succeeded"
<1> USE DEF PathInv, Inv, Loaded
<1>1. ASSUME NEW j \in Created, Settle({j}, "succeeded"), target[j] = x
      PROVE  \E i \in Created : target[i] = x /\ status'[i] = "succeeded"
  BY <1>1 DEF Settle, Created
<1>2. ASSUME NEW y, NEW s, NEW t, s # "completed", Write(y, s, t)
      PROVE  FALSE
  BY <1>2 DEF Write, Completed, GenTypeOK
<1>3. ASSUME NEW y, NEW t, Write(y, "completed", t)
      PROVE  y = x
  BY <1>3 DEF Write, Completed, GenTypeOK
<1>4. ASSUME rec' = rec
      PROVE  FALSE
  BY <1>4 DEF Completed
<1>5. ASSUME NEW c \in Callers, NEW s \in {"succeeded", "failed"}, CallFinish(c, s)
      PROVE  \E j \in Created : target[j] = x /\ status'[j] = "succeeded"
  <2>1. SetCurrent(call[c].job, s)
    BY <1>4, <1>5 DEF CallFinish
  <2>2. s = "succeeded"
    BY <1>2, <1>4, <1>5 DEF CallFinish
  <2>3. call[c].target = x
    BY <1>3, <1>4, <1>5, <2>2 DEF CallFinish
  <2>4. call[c].job \in Created /\ target[call[c].job] = x
    BY <1>5, <2>3 DEF CallFinish, Memory
  <2>5. QED
    BY <1>1, <2>1, <2>2, <2>4 DEF SetCurrent
<1>6. ASSUME NEW c \in Callers, CallStep(c)
      PROVE  \E j \in Created : target[j] = x /\ status'[j] = "succeeded"
  <2>1. ~CallCreate(c) /\ ~CallLoad(c) /\ ~CallConfigFails(c) /\ ~CallAbandons(c)
    BY <1>4 DEF CallCreate, CallLoad, CallConfigFails, CallAbandons
  <2>2. ~CallWaiting(c)
    BY <1>2, <1>4 DEF CallWaiting
  <2>3. ~CallSave(c)
    BY <1>2 DEF CallSave
  <2>4. ~CallRetryWrite(c)
    BY <1>2, <1>4 DEF CallRetryWrite
  <2>5. QED
    BY <1>5, <1>6, <2>1, <2>2, <2>3, <2>4 DEF CallStep
<1>7. ~UserStep
  <2>1. \A c \in Callers, y \in ProviderTargets : ~Generate(c, y)
    BY <1>2 DEF Generate
  <2>2. \A c \in Callers, j \in JobIds : ~CallRetryRead(c, j)
    BY <1>4 DEF CallRetryRead, genVars
  <2>3. \A t \in WorkerTargets : ~Enqueue(t)
    BY <1>4 DEF Enqueue, genVars
  <2>4. \A j \in JobIds : ~CancelJob(j)
    BY <1>2, <1>4 DEF CancelJob
  <2>5. QED
    BY <2>1, <2>2, <2>3, <2>4 DEF UserStep
<1>8. ASSUME NEW s \in {"succeeded", "failed"}, RunnerFinish(s)
      PROVE  \E j \in Created : target[j] = x /\ status'[j] = "succeeded"
  <2>1. s = "succeeded"
    BY <1>2, <1>4, <1>8 DEF RunnerFinish
  <2>2. runner.target = x
    BY <1>3, <1>4, <1>8, <2>1 DEF RunnerFinish
  <2>3. runner.job \in Created /\ target[runner.job] = x
    BY <1>8, <2>2 DEF RunnerFinish, Memory
  <2>4. QED
    BY <1>1, <1>8, <2>1, <2>3 DEF RunnerFinish, SetOwned
<1>9. CASE RunnerStep
  BY <1>4, <1>8, <1>9 DEF RunnerStep, RunnerSelect, RunnerClaim, RunnerLoad, RunnerGivesUp,
                          RunnerRequeue, RunnerLost, genVars
<1>10. ~HookStep
  BY DEF HookStep, HookLoad, HookState, HookResult, HookSettle, Idle
<1>11. ~ProcessStep /\ ~Time /\ ~UNCHANGED vars
  BY <1>4 DEF ProcessStep, Stop, Exit, Crash, Boot, Vanish, Time, vars, genVars
<1>12. QED
  BY <1>6, <1>7, <1>9, <1>10, <1>11 DEF Next

ResultInv == PathInv /\ ResultNeedsSuccess /\ hook = Idle

\* A canceled or failed job leaves no result: without webhooks a record is
\* completed only if one of its jobs succeeded (image.go 41-98, 129-234).
THEOREM ResultsNeedSuccess == ASSUME ~Webhooks PROVE Spec => []ResultNeedsSuccess
<1>1. Init => ResultInv
  BY InitPath DEF Init, ResultInv, ResultNeedsSuccess, NoRecord
<1>2. ResultInv /\ [Next]_vars => ResultInv'
  <2> SUFFICES ASSUME ResultInv, [Next]_vars
               PROVE  ResultInv'
    OBVIOUS
  <2>1. PathInv' /\ [JobsNext]_jobVars /\ RowsStay
    BY StepPath DEF ResultInv
  <2>2. hook' = Idle
    BY DEF ResultInv, Next, CallStep, UserStep, RunnerStep, HookStep, ProcessStep, Time, vars,
           genVars, CallCreate, CallWaiting, CallFinish, CallRetryWrite, CallLoad, CallSave,
           CallConfigFails, CallAbandons, Generate, CallRetryRead, Enqueue, CancelJob, RunnerSelect,
           RunnerClaim, RunnerLoad, RunnerGivesUp, RunnerRequeue, RunnerFinish, RunnerLost,
           RunnerDone, HookLoad, HookState, HookResult, HookSettle, Stop, Exit, Crash, Vanish,
           Boot, Idle
  <2>3. ASSUME NEW x \in ProviderTargets, Completed(x)'
        PROVE  \E j \in Created' : target'[j] = x /\ status'[j] = "succeeded"
    <3>1. CASE Completed(x)
      <4>1. PICK j \in Created : target[j] = x /\ status[j] = "succeeded"
        BY <3>1 DEF ResultInv, ResultNeedsSuccess, JobsOf, Completed
      <4>2. j \in JobIds /\ j \in Created' /\ target'[j] = x
        BY <2>1, <4>1 DEF RowsStay, Created
      <4>3. status'[j] = "succeeded"
        BY <2>1, <4>1, <4>2, SuccessIsFinal DEF ResultInv, PathInv, Inv
      <4>4. QED
        BY <4>2, <4>3
    <3>2. CASE ~Completed(x)
      <4>1. PICK j \in Created : target[j] = x /\ status'[j] = "succeeded"
        BY <2>3, <3>2, CompletedBySuccess DEF ResultInv
      <4>2. QED
        BY <2>1, <4>1 DEF RowsStay
    <3>3. QED
      BY <3>1, <3>2
  <2>4. QED
    BY <2>1, <2>2, <2>3 DEF ResultInv, ResultNeedsSuccess, JobsOf, Completed
<1>3. ResultInv => ResultNeedsSuccess
  BY DEF ResultInv
<1>4. QED
  BY <1>1, <1>2, <1>3, PTL DEF Spec
=============================================================================
