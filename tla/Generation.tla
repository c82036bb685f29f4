----------------------------- MODULE Generation -----------------------------
(***************************************************************************)
(* The generation path around the job service: requests that generate or   *)
(* retry (httpapi/jobs.go retryJob, ImageService.generate and              *)
(* VideoService.generate), the background runner (generation/async.go),    *)
(* provider webhooks (httpapi/pipeline.go), the generation records they    *)
(* all write, and the process that is stopped, dies and boots.             *)
(*                                                                         *)
(* image_generations and video_generations rows behave alike but for one   *)
(* thing, the request that leaves its job to itself (CallAbandons), so a   *)
(* record is a member of ProviderTargets.                                  *)
(***************************************************************************)
EXTENDS Jobs

CONSTANTS Runner,        \* lease_owner of the runner's ticks
          MaxCrashes,    \* bound: times the process stops or dies
          QuickRestart,  \* TRUE: it may boot before the leases elapsed
          Webhooks,      \* TRUE: providers call the webhooks too
          Faults         \* TRUE: the heartbeat's or a config's query may fail

ASSUME RunnerAssumption == Owners = {Runner}
ASSUME FaultsAssumption ==
  /\ MaxCrashes \in Nat
  /\ QuickRestart \in BOOLEAN
  /\ Webhooks \in BOOLEAN
  /\ Faults \in BOOLEAN

VARIABLES
  rec,       \* image_generations / video_generations: status and task_id
  call,      \* what each request has in memory
  runner,    \* what the runner's loop has in memory
  hook,      \* what the webhook handler has in memory
  issued,    \* tasks the provider accepted so far
  up,        \* the process
  crashes,   \* times it stopped or died
  abandoned  \* (history) jobs that a request left to themselves, since the last start

genVars == <<rec, call, runner, hook, issued, up, crashes, abandoned>>
vars == <<jobVars, genVars>>

TaskIds == Tasks \union {NoTask}
FinalRecord == {"completed", "failed", "canceled"}   \* terminalResourceStatuses
Records == [status : {"none", "pending", "processing"} \union FinalRecord, task : TaskIds]
NoRecord == [status |-> "none", task |-> NoTask]

Idle == [pc |-> "idle", target |-> NoTarget, job |-> NoJob, task |-> NoTask, attempt |-> 0]
At(pc, x, j, t, n) == [pc |-> pc, target |-> x, job |-> j, task |-> t, attempt |-> n]
Threads(pcs) == [pc : pcs, target : Targets \union {NoTarget}, job : JobIds \union {NoJob},
                 task : TaskIds, attempt : 0..MaxAttempts]

GenTypeOK ==
  /\ rec \in [ProviderTargets -> Records]
  /\ call \in [Callers -> Threads({"idle", "reopened", "loaded", "saved", "submitted"})]
  /\ runner \in Threads({"idle", "claimed", "polling"})
  /\ hook \in Threads({"idle", "loaded", "completed", "failed"})
  /\ issued \in SUBSET Tasks
  /\ up \in {"up", "stopping", "down"}
  /\ crashes \in 0..MaxCrashes
  /\ abandoned \in SUBSET JobIds

Init ==
  /\ JobsInit
  /\ rec = [x \in ProviderTargets |-> NoRecord]
  /\ call = [c \in Callers |-> Idle]
  /\ runner = Idle
  /\ hook = Idle
  /\ issued = {}
  /\ up = "up"
  /\ crashes = 0
  /\ abandoned = {}

Alive == up # "down"
Write(x, s, t) == rec' = [rec EXCEPT ![x] = [status |-> s, task |-> t]]
Goto(c, state) == call' = [call EXCEPT ![c] = state]
-----------------------------------------------------------------------------
(***************************************************************************)
(* A generate request.  The record is saved before the job exists, the     *)
(* provider is called between create and the final transition, and that    *)
(* transition is fenced only by "running and not owned".                   *)
(***************************************************************************)
Generate(c, x) ==
  /\ Alive /\ call[c] = Idle /\ retrying[c] = NoSnapshot
  /\ rec[x] = NoRecord
  /\ Write(x, "processing", NoTask)
  /\ Goto(c, At("saved", x, NoJob, NoTask, 0))
  /\ UNCHANGED <<jobVars, runner, hook, issued, up, crashes, abandoned>>

\* a quota or budget error leaves the record as it was saved
CreateRefused(x) == ActiveOf(x) = {} /\ ~QuotaAllows(Cost[x])

CallCreate(c) ==
  LET x == call[c].target IN
  /\ Alive /\ call[c].pc = "saved"
  /\ \/ \E j \in JobIds :
          /\ CreateNew(j, x, NoRun) \/ CreateReuse(j, x, NoRun)
          /\ Goto(c, At("submitted", x, j, call[c].task, attempt[j]))
     \/ CreateRefused(x) /\ Goto(c, Idle) /\ UNCHANGED jobVars
  /\ UNCHANGED <<rec, runner, hook, issued, up, crashes, abandoned>>

\* the provider answered with a task to poll; ErrTerminalJob is only logged
CallWaiting(c) ==
  LET x == call[c].target
      j == call[c].job IN
  /\ Alive /\ call[c].pc = "submitted"
  /\ \E t \in Tasks \ issued :
       /\ t = CHOOSE u \in Tasks \ issued : TRUE
       /\ issued' = issued \union {t}
       /\ \/ SetWaitingCurrent(j, t) /\ Write(x, "processing", t)
          \/ ~Current(j) /\ UNCHANGED <<jobVars, rec>>
  /\ Goto(c, Idle)
  /\ UNCHANGED <<runner, hook, up, crashes, abandoned>>

\* the record is written even when the job refuses the transition
CallFinish_Unfenced(c, outcome) ==
  LET x == call[c].target
      j == call[c].job IN
  /\ Alive /\ call[c].pc = "submitted"
  /\ Write(x, IF outcome = "succeeded" THEN "completed" ELSE "failed", call[c].task)
  /\ SetCurrent(j, outcome) \/ (~Current(j) /\ UNCHANGED jobVars)
  /\ Goto(c, Idle)
  /\ UNCHANGED <<runner, hook, issued, up, crashes, abandoned>>

\* the provider answered with a result, or with an error
CallFinish(c, outcome) ==
  LET x == call[c].target
      j == call[c].job IN
  /\ Alive /\ call[c].pc = "submitted"
  /\ \/ /\ SetCurrent(j, outcome)
        /\ Write(x, IF outcome = "succeeded" THEN "completed" ELSE "failed", call[c].task)
     \/ ~Current(j) /\ UNCHANGED <<jobVars, rec>>
  /\ Goto(c, Idle)
  /\ UNCHANGED <<runner, hook, issued, up, crashes, abandoned>>

\* Nothing is settled: the client went away while a video that the provider gave at
\* once was finalized (requireOwned returns the error of the request's context), or
\* the id of the job could not be saved with the record.
CallAbandons(c) ==
  /\ Alive /\ call[c].pc = "submitted"
  /\ abandoned' = abandoned \union {call[c].job}
  /\ Goto(c, Idle)
  /\ UNCHANGED <<jobVars, rec, runner, hook, issued, up, crashes>>
-----------------------------------------------------------------------------
(***************************************************************************)
(* A retry request: Jobs.Retry, then the record is loaded and generated    *)
(* again.  Retry also resets the record, in its own transaction.           *)
(***************************************************************************)
CallRetryRead(c, j) ==
  /\ Alive /\ call[c] = Idle
  /\ RetryRead(c, j)
  /\ UNCHANGED genVars

CallRetryWrite(c) ==
  LET j == retrying[c].job IN
  /\ Alive
  /\ RetryWrite(c)
  /\ IF status[j] = retrying[c].status /\ target[j] \in ProviderTargets
     THEN /\ Write(target[j], "pending", NoTask)
          /\ Goto(c, At("reopened", target[j], NoJob, NoTask, 0))
     ELSE UNCHANGED <<rec, call>>
  /\ UNCHANGED <<runner, hook, issued, up, crashes, abandoned>>

CallLoad(c) ==
  /\ Alive /\ call[c].pc = "reopened"
  /\ Goto(c, [call[c] EXCEPT !.pc = "loaded", !.task = rec[call[c].target].task])
  /\ UNCHANGED <<jobVars, rec, runner, hook, issued, up, crashes, abandoned>>

CallSave(c) ==
  /\ Alive /\ call[c].pc = "loaded"
  /\ Write(call[c].target, "processing", call[c].task)
  /\ Goto(c, [call[c] EXCEPT !.pc = "saved"])
  /\ UNCHANGED <<jobVars, runner, hook, issued, up, crashes, abandoned>>

\* GetTaskConfigOrganization fails: the reopened job is left running
CallConfigFails(c) ==
  /\ Faults
  /\ Alive /\ call[c].pc = "loaded"
  /\ Goto(c, Idle)
  /\ UNCHANGED <<jobVars, rec, runner, hook, issued, up, crashes, abandoned>>

Enqueue(t) ==
  /\ Alive
  /\ \E j \in JobIds : CreateNew(j, t, NoRun)
  /\ UNCHANGED genVars

CancelJob(j) ==
  /\ Alive
  /\ Cancel(j)
  /\ LET x == target[j] IN
     IF x \in ProviderTargets /\ rec[x].status \notin FinalRecord
     THEN Write(x, "canceled", rec[x].task)
     ELSE UNCHANGED rec
  /\ UNCHANGED <<call, runner, hook, issued, up, crashes, abandoned>>
-----------------------------------------------------------------------------
(***************************************************************************)
(* The runner: one sequential loop (pollClaimed).  RunnerLost is a claim   *)
(* whose context ended: the heartbeat saw the row change hands, one of the *)
(* heartbeat's own queries failed, or the process is stopping.  A compose  *)
(* job is then failed, unless only its commit was left to do.              *)
(***************************************************************************)
RunnerSelect ==
  /\ Alive /\ runner = Idle
  /\ ClaimSelect(Runner)
  /\ UNCHANGED genVars

RunnerClaim ==
  LET j == candidate[Runner] IN
  /\ Alive
  /\ ClaimCommit(Runner)
  /\ runner' = IF Claimable(j) THEN At("claimed", target[j], j, NoTask, attempt[j]) ELSE Idle
  /\ UNCHANGED <<rec, call, hook, issued, up, crashes, abandoned>>

RunnerHolds == IsOwned(runner.job, Runner)
RunnerDone == runner' = Idle /\ UNCHANGED <<call, hook, issued, up, crashes, abandoned>>

\* pollImageJob, pollVideoJob: the record read here is the one saved later
RunnerLoad ==
  /\ Alive /\ runner.pc = "claimed" /\ runner.target \in ProviderTargets
  /\ rec[runner.target].task # NoTask
  /\ runner' = [runner EXCEPT !.pc = "polling", !.task = rec[runner.target].task]
  /\ UNCHANGED <<jobVars, rec, call, hook, issued, up, crashes, abandoned>>

\* failClaimedJob fails the job and leaves the record
RunnerGivesUp ==
  /\ Alive /\ runner.pc = "claimed" /\ runner.target \in ProviderTargets
  /\ rec[runner.target].task = NoTask \/ Faults
  /\ SetOwned(runner.job, Runner, "failed")
  /\ RunnerDone /\ UNCHANGED rec

RunnerRequeue ==
  /\ Alive /\ runner.pc = "polling"
  /\ RequeueJob(runner.job, Runner)
  /\ RunnerDone /\ UNCHANGED rec

RunnerFinish(outcome) ==
  /\ Alive /\ runner.pc # "idle"
  /\ SetOwned(runner.job, Runner, outcome)
  /\ \/ /\ runner.pc = "polling"
        /\ Write(runner.target, IF outcome = "succeeded" THEN "completed" ELSE "failed", runner.task)
     \/ /\ runner.pc = "claimed" /\ runner.target \in WorkerTargets
        /\ UNCHANGED rec
  /\ RunnerDone

RunnerLost ==
  /\ Alive /\ runner.pc # "idle"
  /\ ~RunnerHolds \/ Faults \/ up = "stopping"
  /\ \/ runner.target \in ComposeTargets /\ SetOwned(runner.job, Runner, "failed")
     \/ UNCHANGED jobVars
  /\ RunnerDone /\ UNCHANGED rec
-----------------------------------------------------------------------------
(***************************************************************************)
(* Webhooks.  The record is found by its task id and saved whole; a result *)
(* is saved first and the job settled after it, in a write of its own.     *)
(***************************************************************************)
\* an empty task id matches the records that have none
HookLoad_EmptyTask(x) ==
  /\ Webhooks /\ Alive /\ hook = Idle
  /\ hook' = At("loaded", x, NoJob, rec[x].task, 0)
  /\ UNCHANGED <<jobVars, rec, call, runner, issued, up, crashes, abandoned>>

HookLoad(x) ==
  /\ Webhooks /\ Alive /\ hook = Idle
  /\ rec[x].task # NoTask
  /\ hook' = At("loaded", x, NoJob, rec[x].task, 0)
  /\ UNCHANGED <<jobVars, rec, call, runner, issued, up, crashes, abandoned>>

\* a "failed" or an intermediate state only saves the record
HookState(s) ==
  /\ Alive /\ hook.pc = "loaded"
  /\ s \in {"failed", "processing"}
  /\ Write(hook.target, s, hook.task)
  /\ hook' = Idle
  /\ UNCHANGED <<jobVars, call, runner, issued, up, crashes, abandoned>>

\* Finalize: "completed" once downloaded; "failed" is saved when the download
\* fails, and not saved when caching the file fails
HookResult(s) ==
  /\ Alive /\ hook.pc = "loaded"
  /\ Write(hook.target, s, hook.task) \/ (s = "failed" /\ UNCHANGED rec)
  /\ hook' = [hook EXCEPT !.pc = s]
  /\ UNCHANGED <<jobVars, call, runner, issued, up, crashes, abandoned>>

\* the job's status is overwritten, whatever it is
HookSettle_Overwrites ==
  /\ Alive /\ hook.pc \in {"completed", "failed"}
  /\ \E j \in JobIds : /\ Newest(j, {k \in Created : target[k] = hook.target})
                       /\ Settle({j}, IF hook.pc = "completed" THEN "succeeded" ELSE "failed")
  /\ hook' = Idle
  /\ UNCHANGED <<rec, call, runner, issued, up, crashes, abandoned>>

HookSettle ==
  LET outcome == IF hook.pc = "completed" THEN "succeeded" ELSE "failed"
      newest == {j \in JobIds : Newest(j, {k \in Created : target[k] = hook.target})} IN
  /\ Alive /\ hook.pc \in {"completed", "failed"}
  /\ \/ SetByTarget(hook.target, outcome)
     \/ (\A j \in newest : status[j] \notin {"running", "waiting"}) /\ UNCHANGED jobVars
  /\ hook' = Idle
  /\ UNCHANGED <<rec, call, runner, issued, up, crashes, abandoned>>
-----------------------------------------------------------------------------
(***************************************************************************)
(* The process.  Stop cancels the runner's context and waits for it; what  *)
(* the process had in memory is gone when it is down.                      *)
(***************************************************************************)
Stop ==
  /\ up = "up" /\ crashes < MaxCrashes
  /\ up' = "stopping" /\ crashes' = crashes + 1
  /\ UNCHANGED <<jobVars, rec, call, runner, hook, issued, abandoned>>

Vanish ==
  /\ up' = "down"
  /\ call' = [c \in Callers |-> Idle]
  /\ runner' = Idle
  /\ hook' = Idle
  /\ UNCHANGED <<jobVars, rec, issued, abandoned>>

Exit == up = "stopping" /\ runner = Idle /\ Vanish /\ UNCHANGED crashes
Crash == Alive /\ crashes < MaxCrashes /\ Vanish /\ crashes' = crashes + 1

Boot ==
  /\ up = "down"
  /\ QuickRestart \/ \A j \in JobIds : lease[j] # "live"
  /\ up' = "up"
  /\ RecoverExpired
  /\ abandoned' = {}
  /\ UNCHANGED <<rec, call, runner, hook, issued, crashes>>

\* the heartbeat renews the lease of the job the runner holds
Renewed(j) == Alive /\ runner.job = j /\ RunnerHolds

Time ==
  /\ \E j \in JobIds : (LeaseElapses(j) /\ ~Renewed(j)) \/ BecomeDue(j)
  /\ UNCHANGED genVars
-----------------------------------------------------------------------------
CallStep(c) ==
  \/ CallCreate(c) \/ CallWaiting(c)
  \/ \E s \in {"succeeded", "failed"} : CallFinish(c, s)
  \/ CallAbandons(c)
  \/ CallRetryWrite(c) \/ CallLoad(c) \/ CallSave(c) \/ CallConfigFails(c)

UserStep ==
  \/ \E c \in Callers, x \in ProviderTargets : Generate(c, x)
  \/ \E c \in Callers, j \in JobIds : CallRetryRead(c, j)
  \/ \E t \in WorkerTargets : Enqueue(t)
  \/ \E j \in JobIds : CancelJob(j)

RunnerStep ==
  \/ RunnerSelect \/ RunnerClaim \/ RunnerLoad \/ RunnerGivesUp \/ RunnerRequeue
  \/ (\E s \in {"succeeded", "failed"} : RunnerFinish(s)) \/ RunnerLost

HookStep ==
  \/ \E x \in ProviderTargets : HookLoad(x)
  \/ \E s \in {"failed", "processing"} : HookState(s)
  \/ \E s \in {"completed", "failed"} : HookResult(s)
  \/ HookSettle

ProcessStep == Stop \/ Exit \/ Crash \/ Boot

Next == (\E c \in Callers : CallStep(c)) \/ UserStep \/ RunnerStep \/ HookStep \/ ProcessStep \/ Time

Spec == Init /\ [][Next]_vars

\* A provider call returns (its HTTP client has a timeout), the loop keeps
\* ticking, time passes, the service manager boots the process again, and a
\* provider that is polled often enough gives a final answer.  A process that is
\* stopping ends, although the pass under way may claim jobs until it has seen that
\* its context ended: a pass claims forty at most.
FairSpec ==
  /\ Spec
  /\ \A c \in Callers : WF_vars(CallStep(c))
  /\ WF_vars(RunnerStep)
  /\ \A j \in JobIds : SF_vars(\E s \in {"succeeded", "failed"} : runner.job = j /\ RunnerFinish(s))
  /\ WF_vars(HookStep)
  /\ SF_vars(Exit) /\ WF_vars(Boot)
  /\ \A j \in JobIds : /\ WF_vars(BecomeDue(j) /\ UNCHANGED genVars)
                       /\ WF_vars(LeaseElapses(j) /\ ~Renewed(j) /\ UNCHANGED genVars)
-----------------------------------------------------------------------------
(***************************************************************************)
(* Correctness.                                                            *)
(***************************************************************************)
JobsOf(x) == {j \in Created : target[j] = x}

\* A record shows a result only if one of its jobs succeeded: the fenced
\* transactions write both, so a canceled or failed job leaves no result.
ResultNeedsSuccess ==
  \A x \in ProviderTargets :
    rec[x].status = "completed" => \E j \in JobsOf(x) : status[j] = "succeeded"

\* As long as the runner's lease name is on the row, the row is still in the
\* attempt the runner claimed, so its result cannot land in a later attempt.
ClaimCoversAttempt ==
  (runner.pc # "idle" /\ RunnerHolds) => attempt[runner.job] = runner.attempt

\* A webhook saves the whole record it loaded, and a request the whole record
\* it read; still, a job that waits for its provider can be polled, because its
\* record keeps some task (pollImageJob fails a job whose record has none).
\* Only the retry of one of the record's jobs puts that in danger.
PollableUntilRetried ==
  \A j \in JobIds :
    (status[j] = "waiting" /\ \A k \in JobsOf(target[j]) : attempt[k] = 1)
       => rec[target[j]].task # NoTask

\* The task recorded for an attempt was submitted by that attempt ("The next
\* generation call submits a fresh provider task", services/jobs/service.go).
FreshTaskPerAttempt ==
  [][\A j \in JobIds : (task[j] = NoTask /\ task'[j] # NoTask) =>
       \E c \in Callers : /\ call[c].pc = "submitted" /\ call'[c] = Idle
                          /\ call[c].job = j /\ call[c].attempt = attempt[j]]_vars

\* Every write that the requests, the runner, the webhooks and the process
\* make to the job table is an operation of the job service.
UsesJobService == JobsInit /\ [][JobsNext]_jobVars

\* A job in its first attempt is settled, whatever crashes, unless its request leaves
\* it to itself; and then the next start settles it.
FirstAttemptSettles ==
  \A j \in JobIds : (Active(j) /\ attempt[j] = 1)
                     ~> (~(Active(j) /\ attempt[j] = 1) \/ j \in abandoned)

\* ... and without the exception of abandoned jobs.
NoJobIsAbandoned ==
  \A j \in JobIds : (Active(j) /\ attempt[j] = 1) ~> ~(Active(j) /\ attempt[j] = 1)

\* The same for every attempt, retried ones included.
EveryAttemptSettles == \A j \in JobIds : Active(j) ~> (~Active(j) \/ j \in abandoned)

\* "Cancel and a late result never both succeed" (docs/FUNCTIONAL_PARITY.md):
\* a record with a result does not belong to jobs that were all canceled.
CancelExcludesResult ==
  \A x \in ProviderTargets :
    ~(rec[x].status = "completed" /\ \A j \in JobsOf(x) : status[j] = "canceled")

\* The poller takes it that a claimed job's record has a task ("image task id
\* missing", async.go).  Retry clears the record of the target even while a
\* later job of it waits for the provider.
PollableWhileWaiting ==
  \A j \in JobIds : status[j] = "waiting" => rec[target[j]].task # NoTask
=============================================================================
