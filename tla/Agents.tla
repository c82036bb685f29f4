------------------------------- MODULE Agents -------------------------------
(***************************************************************************)
(* Agent runs (httpapi/agent_runs.go, settings_agent.go, services/agents,  *)
(* and recordAgentRun of the production service).  A run is a row and a    *)
(* log of events; what executes it is a request (a chat), a goroutine of   *)
(* its own (a retry) or a production worker.  The language model is any    *)
(* answer, a tool any outcome, and the skill text a member of a set.       *)
(***************************************************************************)
EXTENDS Integers, Sequences, FiniteSets, SequencesExt

CONSTANTS MaxRuns,         \* bound: agent runs, ids in order
          MaxStarts,       \* bound: runs that are not retries
          Ways,            \* bound: the ways a run is begun
          Skills, NoSkill, \* rendered skill texts, and none recorded
          Callers,         \* requests that cancel a run
          MaxActions,      \* bound: actions of a plan (32 in the code)
          MaxTools,        \* bound: actions that all runs plan together
          MaxTrouble       \* bound: lost events, ended contexts and crashes

ASSUME AgentsAssumption ==
  /\ MaxRuns \in Nat /\ MaxStarts \in Nat /\ Skills # {} /\ NoSkill \notin Skills
  /\ Ways \subseteq {"chat", "retry", "production"}
  /\ MaxActions \in Nat \ {0} /\ MaxTools \in Nat /\ MaxTrouble \in Nat

VARIABLES
  run,        \* the rows of agent_runs
  log,        \* the rows of agent_run_events, in the order of their insertion
  published,  \* the skill that ResolvePublished finds, or the built-in one
  exec,       \* the execution of each run, in memory
  cancels,    \* agentCancels: the runs whose context can be canceled
  canceling,  \* the run that each cancel request has read
  up,         \* the server is running
  trouble     \* how much went wrong so far

vars == <<run, log, published, exec, cancels, canceling, up, trouble>>

Runs == 1..MaxRuns
NoRun == 0
NoRow == [status |-> "none", way |-> "none", of |-> NoRun, skill |-> NoSkill, cancel |-> FALSE]
NoExec == [pc |-> "none"]
Settled == {"completed", "failed", "canceled"}

Init ==
  /\ run = [r \in Runs |-> NoRow]
  /\ log = [r \in Runs |-> <<>>]
  /\ published = (CHOOSE skill \in Skills : TRUE)
  /\ exec = [r \in Runs |-> NoExec]
  /\ cancels = {}
  /\ canceling = [c \in Callers |-> NoRun]
  /\ up = TRUE
  /\ trouble = 0

Events == {"started", "prompt_resolved", "tool_call", "tool_result"} \union Settled

AgentsTypeOK ==
  /\ run \in [Runs -> [status : Settled \union {"none", "running"}, way : Ways \union {"none"},
                       of : Runs \union {NoRun}, skill : Skills \union {NoSkill}, cancel : BOOLEAN]]
  /\ \A r \in Runs : \A i \in DOMAIN log[r] : log[r][i] \in [sequence : Nat, type : Events]
  /\ published \in Skills
  /\ \A r \in Runs : \/ exec[r] = NoExec
                     \/ exec[r].pc = "over" /\ exec[r].calls \in Nat
                     \/ exec[r].pc \in {"finish", "save", "fallback"} /\ exec[r].calls \in Nat
                     \/ /\ exec[r].pc \in {"attach", "resolve", "plan", "tools", "result"}
                        /\ exec[r].todo \in Seq({"read", "write"})
                        /\ exec[r].calls \in Nat
  /\ cancels \subseteq Runs
  /\ up \in BOOLEAN /\ trouble \in 0..MaxTrouble
-----------------------------------------------------------------------------
(***************************************************************************)
(* Rows and executions                                                     *)
(***************************************************************************)
Executing(r) == exec[r].pc \notin {"none", "over"}

\* An execution that has just begun: skill is the snapshot it was given, todo
\* the actions left.
Begun(way, skill) ==
  [pc |-> IF way = "production" THEN "resolve" ELSE "attach", round |-> "first", todo |-> <<>>,
   ctx |-> "live", skill |-> skill, broken |-> FALSE, bad |-> FALSE, calls |-> 0, wrote |-> FALSE]

LastSequence(r) == IF log[r] = <<>> THEN 0 ELSE Max({log[r][i].sequence : i \in DOMAIN log[r]})
Rows(first, types) == [i \in DOMAIN types |-> [sequence |-> first + i, type |-> types[i]]]
Logged(r, types) == log' = [log EXCEPT ![r] = @ \o Rows(LastSequence(r), types)]
Recorded(r, type) == \E i \in DOMAIN log[r] : log[r][i].type = type

IsNext(r) == r \in Runs /\ r = 1 + Cardinality({s \in Runs : run[s] # NoRow})
Goto(r, e) == exec' = [exec EXCEPT ![r] = e]
At(r, pc) == up /\ exec[r].pc = pc

\* Something goes wrong, within the bound.
Trouble == trouble < MaxTrouble /\ trouble' = trouble + 1

\* createAgentRunRecord, and the transaction of recordAgentRun
Inserted(r, way, source, skill) ==
  /\ run' = [run EXCEPT ![r] = [NoRow EXCEPT !.status = "running", !.way = way,
                                             !.of = source, !.skill = skill]]
  /\ log' = [log EXCEPT ![r] = Rows(0, <<"started">>)]
  /\ exec' = [exec EXCEPT ![r] = Begun(way, skill)]
  /\ UNCHANGED <<published, cancels, canceling, up, trouble>>

\* agentChat, recordAgentRun
Start(r, way) ==
  /\ up /\ IsNext(r) /\ way \in Ways \ {"retry"}
  /\ Cardinality({s \in Runs : run[s].way \in Ways \ {"retry"}}) < MaxStarts
  /\ Inserted(r, way, NoRun, NoSkill)

\* copyRetrySkillSnapshot: what the source recorded, if anything
KeptSkill(source) == run[source].skill

ActiveRetry_Forgotten(source) == FALSE
ActiveRetry(source) == \E s \in Runs : run[s].of = source /\ run[s].status = "running"

\* retryAgentRun: one transaction under agentRetryMu, then a goroutine
Retry(r, source) ==
  /\ up /\ IsNext(r) /\ "retry" \in Ways
  /\ run[source].status \in {"failed", "canceled"}
  /\ ~ActiveRetry(source)
  /\ Inserted(r, "retry", source, KeptSkill(source))

\* attachAgentRunContext: the run can be canceled from here on
Attach(r) ==
  /\ At(r, "attach")
  /\ cancels' = cancels \union {r}
  /\ Goto(r, [exec[r] EXCEPT !.pc = "resolve"])
  /\ UNCHANGED <<run, log, published, canceling, up, trouble>>
-----------------------------------------------------------------------------
(***************************************************************************)
(* The observer: an event is appended in a transaction of its own, until   *)
(* one append has failed; later events are skipped.                        *)
(***************************************************************************)
Skipped(e) == e.broken

\* The events of types go to the log and the execution becomes e; or not.
Emits(r, types, e) ==
  \/ /\ ~Skipped(exec[r])
     /\ Logged(r, types)
     /\ Goto(r, e)
     /\ UNCHANGED trouble
  \/ /\ ~Skipped(exec[r]) /\ Trouble
     /\ Goto(r, [e EXCEPT !.broken = TRUE])
     /\ UNCHANGED log
  \/ /\ Skipped(exec[r])
     /\ Goto(r, e)
     /\ UNCHANGED <<log, trouble>>

\* the execution ends with the verdict of RunObservedWithOptions
Ending(e, verdict) ==
  [pc |-> "finish", verdict |-> verdict, ctx |-> "ended", broken |-> e.broken, calls |-> e.calls,
   seen |-> FALSE]
Ends(r, verdict) ==
  /\ Goto(r, Ending(exec[r], verdict))
  /\ UNCHANGED <<run, log, published, cancels, canceling, up, trouble>>
-----------------------------------------------------------------------------
(***************************************************************************)
(* RunObservedWithOptions                                                  *)
(***************************************************************************)
\* no episode, no text configuration, no prompt, or an answer that is an error
Fails(r) ==
  /\ \/ At(r, "resolve")
     \/ At(r, "plan") /\ exec[r].round = "first" /\ exec[r].ctx = "live"
  /\ Ends(r, "error")

ResolvedSkill(e) == IF e.skill # NoSkill THEN e.skill ELSE published

\* resolveSystemPromptWithOptions; prompt_resolved stores the skill in the row
Resolve(r) ==
  LET skill == ResolvedSkill(exec[r]) IN
  /\ At(r, "resolve")
  /\ Emits(r, <<"prompt_resolved">>, [exec[r] EXCEPT !.pc = "plan"])
  /\ run' = IF log' # log THEN [run EXCEPT ![r].skill = skill] ELSE run
  /\ UNCHANGED <<published, cancels, canceling, up>>

\* The context ended while the model answered, or before the next action;
\* ensureWrites checks it once, before its tools.
Interrupted(r) ==
  /\ \/ At(r, "plan")
     \/ At(r, "tools") /\ exec[r].todo # <<>> /\ exec[r].round # "ensured"
  /\ exec[r].ctx # "live"
  /\ Ends(r, exec[r].ctx)

Planned(r) == IF exec[r].pc = "none" THEN 0
              ELSE exec[r].calls + (IF "todo" \in DOMAIN exec[r] THEN Len(exec[r].todo) ELSE 0)
LeftToPlan == MaxTools - MapThenSumSet(Planned, Runs)
Plans == UNION {[1..n -> {"read", "write"}] : n \in 0..MaxActions}
Within(plan) == Len(plan) <= LeftToPlan

\* the first answer, or the default actions
Plan(r) ==
  /\ At(r, "plan") /\ exec[r].round = "first" /\ exec[r].ctx = "live"
  /\ \E plan \in Plans : Within(plan) /\ Goto(r, [exec[r] EXCEPT !.pc = "tools", !.todo = plan])
  /\ UNCHANGED <<run, log, published, cancels, canceling, up, trouble>>

\* the second answer: its reads are skipped, and what is left is any plan of
\* writes; no answer leaves nothing to do
OnlyWrites(plan) == \A i \in DOMAIN plan : plan[i] = "write"
PlanAgain(r) ==
  /\ At(r, "plan") /\ exec[r].round = "second" /\ exec[r].ctx = "live"
  /\ \E plan \in Plans : /\ Within(plan) /\ OnlyWrites(plan)
                        /\ Goto(r, [exec[r] EXCEPT !.pc = "tools", !.todo = plan])
  /\ UNCHANGED <<run, log, published, cancels, canceling, up, trouble>>

\* validateAgentActions refuses the answer
PlanInvalid(r) ==
  /\ At(r, "plan") /\ exec[r].ctx = "live"
  /\ Ends(r, "failed")

\* offlineFallback of the mock provider: tools first, then their events, if any
Offline(r) ==
  /\ At(r, "plan") /\ exec[r].round = "first" /\ exec[r].ctx = "live"
  /\ \E verdict \in {"done", "failed"}, n \in 0..1 :
       LET e == [Ending(exec[r], verdict) EXCEPT !.calls = n] IN
       IF n = 0 THEN Goto(r, e) /\ UNCHANGED <<log, trouble>>
       ELSE Emits(r, <<"tool_call", "tool_result">>, e)
  /\ UNCHANGED <<run, published, cancels, canceling, up>>

\* executeObservedTool: the call is recorded, then the tool runs
ToolCall(r) ==
  /\ At(r, "tools") /\ exec[r].todo # <<>>
  /\ exec[r].ctx = "live" \/ exec[r].round = "ensured"
  /\ Emits(r, <<"tool_call">>, [exec[r] EXCEPT !.pc = "result"])
  /\ UNCHANGED <<run, published, cancels, canceling, up>>

ToolResult(r) ==
  /\ At(r, "result")
  /\ \E fails \in BOOLEAN :
       Emits(r, <<"tool_result">>,
             [exec[r] EXCEPT !.pc = "tools", !.todo = Tail(@), !.calls = @ + 1,
                             !.wrote = @ \/ Head(exec[r].todo) = "write", !.bad = @ \/ fails])
  /\ UNCHANGED <<run, published, cancels, canceling, up>>

Acted(r) == At(r, "tools") /\ exec[r].todo = <<>>

\* hasToolFailure, after the first round and at the end
ToolsFailed(r) ==
  /\ Acted(r) /\ exec[r].bad /\ exec[r].round # "second"
  /\ Ends(r, "failed")

ToolsDone(r) ==
  /\ Acted(r) /\ ~exec[r].bad
  /\ exec[r].round = "ensured" \/ (exec[r].round = "first" /\ exec[r].wrote)
  /\ Ends(r, "done")

\* needsWritePass: only reads so far, and another iteration is allowed
SecondRound(r) ==
  /\ Acted(r) /\ ~exec[r].bad /\ exec[r].round = "first" /\ ~exec[r].wrote
  /\ Goto(r, [exec[r] EXCEPT !.pc = "plan", !.round = "second"])
  /\ UNCHANGED <<run, log, published, cancels, canceling, up, trouble>>

\* ensureWrites, after the second round or instead of it: a missing tool is run (a bound: one)
EnsureWrites(r) ==
  /\ Acted(r)
  /\ \/ exec[r].round = "second"
     \/ exec[r].round = "first" /\ ~exec[r].bad /\ ~exec[r].wrote
  /\ IF exec[r].ctx # "live" THEN Ends(r, exec[r].ctx)
     ELSE /\ \E todo \in {<<>>, <<"write">>} :
               Within(todo) /\ Goto(r, [exec[r] EXCEPT !.round = "ensured", !.todo = todo])
          /\ UNCHANGED <<run, log, published, cancels, canceling, up, trouble>>
-----------------------------------------------------------------------------
(***************************************************************************)
(* The end of an execution                                                 *)
(***************************************************************************)
\* a lost event turns a result into an error
Erred_Joined(e) == e.verdict \notin {"done", "failed"}
Erred(e) == e.verdict \notin {"done", "failed"} \/ e.broken

Outcome(e) ==
  CASE Erred(e) /\ (e.seen \/ e.verdict = "canceled") -> "canceled"
    [] Erred(e) /\ ~(e.seen \/ e.verdict = "canceled") -> "failed"
    [] ~Erred(e) -> IF e.verdict = "done" THEN "completed" ELSE "failed"

\* finishAgentRun reads the run before its transaction; production does not
FinishRead(r) ==
  /\ At(r, "finish") /\ run[r].way # "production"
  /\ Goto(r, [exec[r] EXCEPT !.pc = "save", !.seen = run[r].cancel])
  /\ UNCHANGED <<run, log, published, cancels, canceling, up, trouble>>

\* tool calls that no event recorded are written with the result
Unstreamed(r) ==
  IF Recorded(r, "tool_call") \/ exec[r].verdict \notin {"done", "failed"} THEN <<>>
  ELSE [i \in 1..exec[r].calls |-> "tool_call"]

\* the cleanup that follows the last write
Left(e) == [pc |-> "over", calls |-> e.calls]
Leaves(r) == cancels' = cancels \ {r} /\ Goto(r, Left(exec[r]))

Saved(r, status, types) ==
  /\ run' = [run EXCEPT ![r].status = status]
  /\ Logged(r, types)
  /\ Leaves(r)
  /\ UNCHANGED <<published, canceling, up, trouble>>

FinishSave(r) ==
  /\ At(r, "save")
  /\ Saved(r, Outcome(exec[r]), Append(Unstreamed(r), Outcome(exec[r])))

\* recordAgentRun: the result, or the error unless events were lost
ProductionSave(r) ==
  /\ At(r, "finish") /\ run[r].way = "production"
  /\ IF exec[r].broken THEN Saved(r, "failed", <<>>)
     ELSE Saved(r, Outcome(exec[r]), <<Outcome(exec[r])>>)

\* a failed write: executeAgentRun has a second one, the other ways do not
FinishFails(r) ==
  /\ At(r, "finish") \/ At(r, "save")
  /\ IF run[r].way = "retry"
     THEN Goto(r, [exec[r] EXCEPT !.pc = "fallback"]) /\ UNCHANGED cancels
     ELSE Leaves(r)
  /\ UNCHANGED <<run, log, published, canceling, up, trouble>>

Fallback(r) ==
  /\ At(r, "fallback")
  /\ \/ run' = [run EXCEPT ![r].status = IF @ = "running" THEN "failed" ELSE @]
     \/ UNCHANGED run
  /\ Leaves(r)
  /\ UNCHANGED <<log, published, canceling, up, trouble>>
-----------------------------------------------------------------------------
(***************************************************************************)
(* Cancellation, restarts, and the rest of the system                      *)
(***************************************************************************)
\* cancelAgentRun reads the run; later it marks it, whatever became of it, and
\* calls the cancel function that is registered, if one is
CancelRead(c, r) ==
  /\ up /\ canceling[c] = NoRun
  /\ run[r].status = "running"
  /\ canceling' = [canceling EXCEPT ![c] = r]
  /\ UNCHANGED <<run, log, published, exec, cancels, up, trouble>>

Canceled_AtOnce(row) == [row EXCEPT !.cancel = TRUE, !.status = "canceled"]
Canceled(row) == [row EXCEPT !.cancel = TRUE]

CancelWrite(c) ==
  LET r == canceling[c] IN
  /\ up /\ r # NoRun
  /\ run' = [run EXCEPT ![r] = Canceled(@)]
  /\ IF r \in cancels /\ exec[r].ctx = "live"
     THEN Goto(r, [exec[r] EXCEPT !.ctx = "canceled"]) ELSE UNCHANGED exec
  /\ canceling' = [canceling EXCEPT ![c] = NoRun]
  /\ UNCHANGED <<log, published, cancels, up, trouble>>

\* the client of a chat leaves, a production ends, a retry's 15 minutes pass
ContextEnds(r) ==
  /\ up /\ Executing(r) /\ exec[r].ctx = "live" /\ Trouble
  /\ Goto(r, [exec[r] EXCEPT !.ctx = IF run[r].way = "retry" THEN "expired" ELSE "canceled"])
  /\ UNCHANGED <<run, log, published, cancels, canceling, up>>

\* publish, rollback and disable of the skill registry, once somebody used what
\* was published (a bound)
Publish ==
  /\ up /\ \E r \in Runs : run[r].skill = published
  /\ published' \in Skills \ {published}
  /\ UNCHANGED <<run, log, exec, cancels, canceling, up, trouble>>

Crash ==
  /\ up /\ Trouble
  /\ up' = FALSE
  /\ exec' = [r \in Runs |-> NoExec]
  /\ cancels' = {}
  /\ canceling' = [c \in Callers |-> NoRun]
  /\ UNCHANGED <<run, log, published>>

\* NewServer: whatever was running is failed; the log gets no event
Interrupt_None(row) == row
Interrupt_Renamed(row) == IF row.status = "running" THEN [row EXCEPT !.status = "interrupted"] ELSE row
Interrupt(row) == IF row.status = "running" THEN [row EXCEPT !.status = "failed"] ELSE row

Boot ==
  /\ ~up
  /\ up' = TRUE
  /\ run' = [r \in Runs |-> Interrupt(run[r])]
  /\ UNCHANGED <<log, published, exec, cancels, canceling, trouble>>
-----------------------------------------------------------------------------
Step(r) ==
  \/ Attach(r)
  \/ Fails(r) \/ Resolve(r) \/ Interrupted(r)
  \/ Plan(r) \/ PlanAgain(r) \/ PlanInvalid(r) \/ Offline(r)
  \/ ToolCall(r) \/ ToolResult(r)
  \/ ToolsFailed(r) \/ ToolsDone(r) \/ SecondRound(r) \/ EnsureWrites(r)
  \/ FinishRead(r) \/ FinishSave(r) \/ ProductionSave(r) \/ FinishFails(r) \/ Fallback(r)

Next ==
  \/ \E r \in Runs, way \in Ways : Start(r, way)
  \/ \E r, source \in Runs : Retry(r, source)
  \/ \E r \in Runs : Step(r) \/ ContextEnds(r)
  \/ \E c \in Callers, r \in Runs : CancelRead(c, r)
  \/ \E c \in Callers : CancelWrite(c)
  \/ Publish \/ Crash \/ Boot

\* A goroutine goes on while the server is up: the model's answers and the
\* tools end, by their own timeouts.  The server is restarted when it is down.
Fairness == (\A r \in Runs : WF_vars(Step(r))) /\ WF_vars(Boot)

Spec == Init /\ [][Next]_vars /\ Fairness
-----------------------------------------------------------------------------
(***************************************************************************)
(* Properties                                                              *)
(***************************************************************************)
\* The log is numbered without gaps and begins with the start; a terminal event
\* is the last one and says what the row says (finishAgentRun and
\* recordAgentRun compute the number and the status twice).  An interrupted
\* run has no terminal event.
LogTellsTheRun ==
  \A r \in Runs : \A i \in DOMAIN log[r] :
    /\ log[r][i].sequence = i
    /\ (i = 1) <=> (log[r][i].type = "started")
    /\ log[r][i].type \in Settled => i = Len(log[r]) /\ run[r].status = log[r][i].type

\* A completed run has every event of its execution, in order: the prompt, then
\* a call and a result for each tool of its result (agent_runs.go:134: a lost
\* event fails the run).
CompletedRunsAreRecorded ==
  \A r \in Runs : run[r].status = "completed" /\ exec[r].pc = "over" =>
    [i \in DOMAIN log[r] |-> log[r][i].type] =
      <<"started", "prompt_resolved">>
      \o [i \in 1..(2 * exec[r].calls) |-> IF i % 2 = 1 THEN "tool_call" ELSE "tool_result"]
      \o <<"completed">>

\* A retry never runs beside the execution it replaces, nor beside another retry
\* of it: their tools would overwrite each other's work.
RetryWaitsForItsSource ==
  \A r, s \in Runs : run[s].of = r /\ Executing(s) =>
    /\ ~Executing(r)
    /\ \A t \in Runs \ {s} : run[t].of = r => ~Executing(t)

\* A retry works with the skill its source recorded, whatever was published in
\* between (copyRetrySkillSnapshot, SkillSnapshotOverride).
RetriesKeepTheirSkill ==
  \A r, s \in Runs : run[s].of = r /\ run[r].skill # NoSkill => run[s].skill = run[r].skill

\* A retry does again what its source did, and takes its place.
RetriesReplaceTheirSource == RetryWaitsForItsSource /\ RetriesKeepTheirSkill

\* Every run ends, or its last write failed and nothing is left to end it
\* before the next restart.
RunsEnd ==
  \A r \in Runs : run[r].status = "running" ~>
                    (run[r].status \in Settled \/ exec[r].pc = "over")
=============================================================================
