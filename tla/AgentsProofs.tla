---------------------------- MODULE AgentsProofs ----------------------------
(***************************************************************************)
(* Theorems about Agents, proved by TLAPS for any runs, skills and callers.*)
(*                                                                         *)
(* The inductive invariant is local to each run but for its retries.  What *)
(* a run's row, its log and its execution say of each other (RunOK) is a   *)
(* predicate on the three values: the log has an event for each thing the  *)
(* execution did, as long as no event was lost, and nothing terminal while *)
(* it goes on.  What a run's row says of the row it retries (RetriesOK) is *)
(* stable, because a settled row never becomes running again.              *)
(***************************************************************************)
EXTENDS Agents, FiniteSetTheorems, SequenceTheorems, TLAPS

RunRows == [status : Settled \union {"none", "running"}, way : Ways \union {"none"},
            of : Runs \union {NoRun}, skill : Skills \union {NoSkill}, cancel : BOOLEAN]
EventRows == [sequence : Nat, type : Events]
Contexts == {"live", "canceled", "expired"}

Early == {"attach", "resolve", "plan", "tools", "result"}
Late == {"finish", "save", "fallback"}
Acting == [pc : Early, round : {"first", "second", "ensured"}, todo : Seq({"read", "write"}), ctx : Contexts,
           skill : Skills \union {NoSkill}, broken : BOOLEAN, bad : BOOLEAN, calls : Nat, wrote : BOOLEAN]
Closing == [pc : Late, verdict : {"error", "failed", "done", "canceled", "expired"}, ctx : {"ended"},
            broken : BOOLEAN, calls : Nat, seen : BOOLEAN]
Past == [pc : {"over"}, calls : Nat]

ExecOK(e) ==
  \/ e = NoExec
  \/ e \in Past
  \/ e \in Closing
  \/ /\ e \in Acting
     /\ e.pc = "result" => e.todo # <<>>
     /\ e.pc \in {"attach", "resolve"} => e.calls = 0 /\ e.round = "first"
     /\ e.pc = "plan" /\ e.round = "first" => e.calls = 0

\* The log numbers its events, begins with the start, and ends with the
\* terminal event, if it has one, which says what the row says.
LogOK(row, events) ==
  /\ events \in Seq(EventRows)
  /\ \A i \in 1..Len(events) :
       /\ events[i].sequence = i
       /\ (i = 1) <=> (events[i].type = "started")
       /\ events[i].type \in Settled => i = Len(events) /\ row.status = events[i].type

\* The first events of a log: the start, the prompt, then calls and results.
Told(events, n) ==
  /\ n <= Len(events) /\ 2 <= n
  /\ events[2].type = "prompt_resolved"
  /\ \A i \in 3..n : events[i].type = IF i % 2 = 1 THEN "tool_call" ELSE "tool_result"

\* What the log of an execution that lost no event holds.
TraceOK(row, events, e) ==
  /\ e.pc \in {"attach", "resolve"} /\ ~e.broken => Len(events) = 1
  /\ e.pc \in {"plan", "tools"} /\ ~e.broken => Len(events) = 2 + 2 * e.calls /\ Told(events, 2 + 2 * e.calls)
  /\ e.pc = "result" /\ ~e.broken => Len(events) = 3 + 2 * e.calls /\ Told(events, 3 + 2 * e.calls)
  /\ e.pc \in {"finish", "save"} /\ ~e.broken /\ e.verdict = "done" =>
       Len(events) = 2 + 2 * e.calls /\ Told(events, 2 + 2 * e.calls)
  /\ e.pc = "over" /\ row.status = "completed" =>
       /\ Len(events) = 3 + 2 * e.calls /\ Told(events, 2 + 2 * e.calls)
       /\ events[3 + 2 * e.calls].type = "completed"

RunOK(row, events, e) ==
  /\ row \in RunRows
  /\ row.status = "none" => row = NoRow
  /\ row = NoRow => e = NoExec /\ events = <<>>
  /\ row # NoRow => events # <<>>
  /\ ExecOK(e) /\ LogOK(row, events) /\ TraceOK(row, events, e)
  /\ e.pc \notin {"none", "over"} => row.status = "running"

RunsOK ==
  /\ run = [r \in Runs |-> run[r]] /\ log = [r \in Runs |-> log[r]] /\ exec = [r \in Runs |-> exec[r]]
  /\ \A r \in Runs : RunOK(run[r], log[r], exec[r])
  /\ \E k \in 0..MaxRuns : {r \in Runs : run[r] # NoRow} = 1..k

\* A retry and its source: the source has settled, at most one retry of it is
\* running, and the retry has the source's skill, in its row and in memory.
RetriesOK ==
  /\ \A s \in Runs : run[s].of # NoRun =>
       LET source == run[run[s].of] IN
       /\ source.status \in {"failed", "canceled"}
       /\ source.skill # NoSkill => /\ run[s].skill = source.skill
                                    /\ exec[s].pc \in Early => exec[s].skill = source.skill
  /\ \A s, t \in Runs :
       run[s].of # NoRun /\ run[s].of = run[t].of /\ run[s].status = "running" /\ run[t].status = "running"
         => s = t

ServerOK ==
  /\ published \in Skills
  /\ cancels \subseteq Runs /\ \A r \in cancels : Executing(r)
  /\ DOMAIN canceling = Callers
  /\ \A c \in Callers : canceling[c] # NoRun => canceling[c] \in Runs /\ run[canceling[c]] # NoRow
  /\ up \in BOOLEAN /\ trouble \in 0..MaxTrouble
  /\ ~up => \A r \in Runs : exec[r] = NoExec

AgentsInv == RunsOK /\ RetriesOK /\ ServerOK

-----------------------------------------------------------------------------
(* The log.                                                                *)

\* The greatest sequence number is the number of events.
LEMMA LastSequenceIsLength ==
  ASSUME NEW r \in Runs, NEW row, LogOK(row, log[r])
  PROVE  LastSequence(r) = Len(log[r])
<1> DEFINE n == Len(log[r])
           numbers == {log[r][i].sequence : i \in DOMAIN log[r]}
<1>1. log[r] \in Seq(EventRows) /\ DOMAIN log[r] = 1..n /\ n \in Nat
  BY DEF LogOK
<1>2. CASE log[r] = <<>>
  BY <1>1, <1>2 DEF LastSequence
<1>3. CASE log[r] # <<>>
  <2>1. n \in 1..n
    BY <1>1, <1>3
  <2>2. numbers = 1..n
    BY <1>1 DEF LogOK
  <2>3. Max(numbers) = n
    <3>1. \E x \in 1..n : \A y \in 1..n : x >= y
      BY <1>1, <2>1
    <3>2. Max(1..n) \in 1..n /\ \A y \in 1..n : Max(1..n) >= y
      BY <3>1 DEF Max
    <3> HIDE DEF n, numbers
    <3> QED
      BY <1>1, <2>1, <2>2, <3>2
  <2> QED
    BY <1>3, <2>3 DEF LastSequence
<1> QED
  BY <1>2, <1>3

\* A log is events followed by rows of types.
Follows(all, events, types) ==
  /\ Len(all) = Len(events) + Len(types)
  /\ \A i \in 1..Len(events) : all[i] = events[i]
  /\ \A i \in 1..Len(types) : all[Len(events) + i].type = types[i]

\* Of types, none is terminal but the last, which says what the row says.
EndsWith(row, types) ==
  \A i \in 1..Len(types) : types[i] \in Settled => i = Len(types) /\ row.status = types[i]

\* Events that are not a start are appended to a log with no terminal event;
\* the last of them may be terminal, and then the row says the same.
LEMMA AppendedLog ==
  ASSUME NEW row, NEW events, LogOK(row, events), events # <<>>, row.status \notin Settled,
         NEW after, NEW types \in Seq(Events \ {"started"}),
         EndsWith(after, types),
         NEW all, all = events \o Rows(Len(events), types)
  PROVE  LogOK(after, all) /\ all # <<>> /\ Follows(all, events, types)
<1> DEFINE n == Len(events)
           m == Len(types)
           new == Rows(n, types)
<1>1. /\ events \in Seq(EventRows) /\ n \in Nat \ {0}
      /\ m \in Nat /\ DOMAIN types = 1..m /\ \A i \in 1..m : types[i] \in Events /\ types[i] # "started"
  BY DEF LogOK
<1>2. new = [i \in 1..m |-> [sequence |-> n + i, type |-> types[i]]]
  <2> HIDE DEF n, m
  <2> QED
    BY <1>1 DEF Rows
<1> HIDE DEF new, n, m
<1>3. \A i \in 1..m : [sequence |-> n + i, type |-> types[i]] \in EventRows
  BY <1>1 DEF EventRows
<1>4. /\ new \in Seq(EventRows) /\ Len(new) = m
      /\ \A i \in 1..m : new[i].sequence = n + i /\ new[i].type = types[i]
  <2>1. new \in [1..m -> EventRows]
    BY <1>2, <1>3
  <2> QED
    BY <1>1, <1>2, <2>1
<1>5. /\ all \in Seq(EventRows) /\ Len(all) = n + m
      /\ \A i \in 1..n : all[i] = events[i]
      /\ \A i \in 1..m : all[n + i] = new[i]
  <2>1. all = events \o new
    BY DEF new, n
  <2>2. events \o new \in Seq(EventRows)
    BY <1>1, <1>4, ConcatProperties
  <2>3. Len(events \o new) = n + m
    BY <1>1, <1>4, ConcatProperties DEF n
  <2>4. ASSUME NEW i \in 1..n PROVE (events \o new)[i] = events[i]
    BY <1>1, <1>4 DEF n
  <2>5. ASSUME NEW i \in 1..m PROVE (events \o new)[n + i] = new[i]
    BY <1>1, <1>4 DEF n
  <2> QED
    BY <2>1, <2>2, <2>3, <2>4, <2>5
<1>6. ASSUME NEW i \in 1..Len(all)
      PROVE  /\ all[i].sequence = i
             /\ (i = 1) <=> (all[i].type = "started")
             /\ all[i].type \in Settled => i = Len(all) /\ after.status = all[i].type
  <2>1. CASE i \in 1..n
    <3>1. /\ all[i] = events[i] /\ events[i].sequence = i /\ ((i = 1) <=> (events[i].type = "started"))
          /\ events[i].type \notin Settled
      BY <1>5, <2>1 DEF LogOK, n
    <3> QED
      BY <3>1
  <2>2. CASE i \notin 1..n
    <3> DEFINE j == i - n
    <3>1. j \in 1..m /\ i = n + j /\ i # 1
      BY <1>1, <1>5, <1>6, <2>2
    <3> HIDE DEF j
    <3>2. all[i].sequence = i /\ all[i].type = types[j] /\ types[j] # "started"
      BY <1>1, <1>4, <1>5, <3>1
    <3>3. types[j] \in Settled => j = m /\ after.status = types[j]
      BY <3>1 DEF m, EndsWith
    <3> QED
      BY <1>5, <3>1, <3>2, <3>3
  <2> QED
    BY <2>1, <2>2
<1>7. LogOK(after, all)
  BY <1>5, <1>6 DEF LogOK
<1>8. all # <<>>
  <2>1. Len(all) # 0
    BY <1>1, <1>5
  <2> QED
    BY <2>1
<1>9. \A i \in 1..m : all[n + i].type = types[i]
  BY <1>4, <1>5
<1> QED
  BY <1>5, <1>7, <1>8, <1>9 DEF Follows, n, m

-----------------------------------------------------------------------------
(* The steps of one run.                                                   *)

\* A step of the run r: its row, its log and its execution go together, and a
\* row that has settled stays as it is.
LEMMA OneRunMoves ==
  ASSUME AgentsInv, up = TRUE, NEW r \in Runs, run[r] # NoRow, NEW row, NEW events, NEW e,
         run' = [run EXCEPT ![r] = row], log' = [log EXCEPT ![r] = events], exec' = [exec EXCEPT ![r] = e],
         RunOK(row, events, e), row # NoRow, row.of = run[r].of,
         run[r].status # "running" => row.status = run[r].status /\ row.skill = run[r].skill,
         run[r].of # NoRun /\ run[run[r].of].skill # NoSkill =>
           /\ row.skill = run[run[r].of].skill
           /\ e.pc \in Early => e.skill = run[run[r].of].skill,
         cancels' \subseteq Runs, \A s \in cancels' : IF s = r THEN e.pc \notin {"none", "over"} ELSE s \in cancels,
         DOMAIN canceling' = Callers, \A c \in Callers : canceling'[c] \in {canceling[c], NoRun},
         UNCHANGED <<published, up>>, trouble' \in 0..MaxTrouble
  PROVE  AgentsInv'
<1>1. RunsOK /\ RetriesOK /\ ServerOK
  BY DEF AgentsInv
<1>2. /\ run'[r] = row /\ log'[r] = events /\ exec'[r] = e
      /\ \A s \in Runs : s # r => run'[s] = run[s] /\ log'[s] = log[s] /\ exec'[s] = exec[s]
      /\ run' = [s \in Runs |-> run'[s]] /\ log' = [s \in Runs |-> log'[s]] /\ exec' = [s \in Runs |-> exec'[s]]
  BY <1>1 DEF RunsOK
<1>3. \A s \in Runs : run'[s] # NoRow <=> run[s] # NoRow
  BY <1>2
<1>4. RunsOK'
  <2>1. ASSUME NEW s \in Runs PROVE RunOK(run'[s], log'[s], exec'[s])
    BY <1>1, <1>2 DEF RunsOK
  <2>2. {s \in Runs : run'[s] # NoRow} = {s \in Runs : run[s] # NoRow}
    BY <1>3
  <2>3. RunsOK => \E k \in 0..MaxRuns : {s \in Runs : run[s] # NoRow} = 1..k
    BY DEF RunsOK
  <2>4. \A s \in Runs : RunOK(run[s], log[s], exec[s])'
    BY <2>1 DEF RunOK, ExecOK, LogOK, TraceOK, RunRows, NoRow, NoExec, Past, Closing, Acting, EventRows, Told,
                Settled, Events, Runs, Early, Late, Contexts, NoRun
  <2> QED
    BY <1>1, <1>2, <2>2, <2>3, <2>4 DEF RunsOK
<1>5. \A s \in Runs : run[s].of \in Runs \union {NoRun}
  BY <1>1 DEF RunsOK, RunOK, RunRows
<1>6. RetriesOK'
  <2>1. ASSUME NEW s \in Runs, run'[s].of # NoRun
        PROVE  /\ run'[run'[s].of].status \in {"failed", "canceled"}
               /\ run'[run'[s].of].skill # NoSkill =>
                    /\ run'[s].skill = run'[run'[s].of].skill
                    /\ exec'[s].pc \in Early => exec'[s].skill = run'[run'[s].of].skill
    <3> DEFINE q == run[s].of
    <3>1. run'[s].of = q /\ q \in Runs
      BY <1>2, <1>5, <2>1
    <3>2. /\ run[q].status \in {"failed", "canceled"}
          /\ run[q].skill # NoSkill => /\ run[s].skill = run[q].skill
                                       /\ exec[s].pc \in Early => exec[s].skill = run[q].skill
      BY <1>1, <2>1, <3>1 DEF RetriesOK
    <3>3. run'[q].status = run[q].status /\ run'[q].skill = run[q].skill
      BY <1>2, <3>1, <3>2
    <3>4. CASE s = r
      BY <1>2, <2>1, <3>1, <3>2, <3>3, <3>4
    <3>5. CASE s # r
      BY <1>2, <3>1, <3>2, <3>3, <3>5
    <3> QED
      BY <3>4, <3>5
  <2>2. ASSUME NEW s \in Runs, NEW t \in Runs, run'[s].of # NoRun, run'[s].of = run'[t].of,
               run'[s].status = "running", run'[t].status = "running"
        PROVE  s = t
    <3>1. run[s].of = run'[s].of /\ run[t].of = run'[t].of /\ run[s].status = "running" /\ run[t].status = "running"
      BY <1>2, <2>2
    <3> QED
      BY <1>1, <2>2, <3>1 DEF RetriesOK
  <2> QED
    BY <2>1, <2>2 DEF RetriesOK, NoRun, Early
<1>7. ServerOK'
  <2>1. ASSUME NEW s \in cancels' PROVE exec'[s].pc \notin {"none", "over"}
    BY <1>1, <1>2, <2>1 DEF ServerOK, Executing
  <2>2. ASSUME NEW c \in Callers, canceling'[c] # NoRun
        PROVE  canceling'[c] \in Runs /\ run'[canceling'[c]] # NoRow
    BY <1>1, <1>3, <2>2 DEF ServerOK
  <2> QED
    BY <1>1, <2>1, <2>2 DEF ServerOK, Executing, Runs, NoRow, NoRun
<1> QED
  BY <1>4, <1>6, <1>7 DEF AgentsInv

\* A step of the run r that leaves its row and its log.
LEMMA ExecMoves ==
  ASSUME AgentsInv, up = TRUE, NEW r \in Runs, run[r] # NoRow, NEW e,
         exec' = [exec EXCEPT ![r] = e], RunOK(run[r], log[r], e),
         e.pc \in Early => exec[r].pc \in Early /\ e.skill = exec[r].skill,
         cancels' \subseteq cancels \union {r}, r \in cancels' => e.pc \notin {"none", "over"},
         DOMAIN canceling' = Callers, \A c \in Callers : canceling'[c] \in {canceling[c], NoRun},
         UNCHANGED <<run, log, published, up>>, trouble' \in 0..MaxTrouble
  PROVE  AgentsInv'
<1>1. RunsOK /\ RetriesOK /\ ServerOK
  BY DEF AgentsInv
<1>2. run' = [run EXCEPT ![r] = run[r]] /\ log' = [log EXCEPT ![r] = log[r]]
  BY <1>1 DEF RunsOK
<1>3. /\ cancels' \subseteq Runs
      /\ \A s \in cancels' : IF s = r THEN e.pc \notin {"none", "over"} ELSE s \in cancels
  BY <1>1 DEF ServerOK
<1>4. run[r].of # NoRun /\ run[run[r].of].skill # NoSkill =>
        /\ run[r].skill = run[run[r].of].skill
        /\ e.pc \in Early => e.skill = run[run[r].of].skill
  BY <1>1 DEF RetriesOK
<1>5. UNCHANGED <<published, up>>
  OBVIOUS
<1> QED
  BY <1>2, <1>3, <1>4, <1>5, OneRunMoves

\* What an execution that has not ended says of its run.
LEMMA ExecutionsRun ==
  ASSUME AgentsInv, NEW r \in Runs, Executing(r)
  PROVE  /\ run[r] # NoRow /\ run[r].status = "running" /\ up = TRUE
         /\ RunOK(run[r], log[r], exec[r]) /\ log[r] # <<>>
         /\ LastSequence(r) = Len(log[r]) /\ trouble \in 0..MaxTrouble /\ cancels \subseteq Runs
         /\ DOMAIN canceling = Callers
<1>1. RunsOK /\ ServerOK /\ exec[r].pc \notin {"none", "over"}
  BY DEF AgentsInv, Executing
<1>2. RunOK(run[r], log[r], exec[r]) /\ exec[r] # NoExec
  BY <1>1 DEF RunsOK, NoExec
<1>3. run[r].status = "running" /\ run[r] # NoRow /\ log[r] # <<>> /\ LogOK(run[r], log[r])
  BY <1>1, <1>2 DEF RunOK
<1>4. up = TRUE
  BY <1>1, <1>2 DEF ServerOK
<1> QED
  BY <1>1, <1>2, <1>3, <1>4, LastSequenceIsLength DEF ServerOK

\* Whatever log is events followed by types says what the execution e did.
TracesWith(row, events, types, e) ==
  \A all : Follows(all, events, types) => TraceOK(row, all, e)

\* The events of types are appended to the log of the run r, whose status may
\* change: the log of the run stays sound.
LEMMA OneRunLogs ==
  ASSUME AgentsInv, NEW r \in Runs, Executing(r), NEW row, NEW types \in Seq(Events \ {"started"}), NEW e,
         run' = [run EXCEPT ![r] = row], Logged(r, types), exec' = [exec EXCEPT ![r] = e],
         row \in RunRows, row.status # "none", row.of = run[r].of,
         EndsWith(row, types),
         ExecOK(e), e # NoExec, e.pc \notin {"none", "over"} => row.status = "running",
         TracesWith(row, log[r], types, e),
         run[r].of # NoRun /\ run[run[r].of].skill # NoSkill =>
           /\ row.skill = run[run[r].of].skill
           /\ e.pc \in Early => e.skill = run[run[r].of].skill,
         cancels' \subseteq cancels \union {r}, r \in cancels' => e.pc \notin {"none", "over"},
         UNCHANGED <<canceling, published, up>>, trouble' \in 0..MaxTrouble
  PROVE  AgentsInv'
<1> DEFINE events == log[r]
           all == events \o Rows(Len(events), types)
<1>1. /\ run[r] # NoRow /\ run[r].status = "running" /\ up = TRUE
      /\ RunOK(run[r], events, exec[r]) /\ events # <<>>
      /\ LastSequence(r) = Len(events) /\ cancels \subseteq Runs /\ DOMAIN canceling = Callers
  BY ExecutionsRun
<1>2. LogOK(run[r], events) /\ run[r].status \notin Settled
  BY <1>1 DEF RunOK, Settled
<1>3. log' = [log EXCEPT ![r] = all]
  BY <1>1 DEF Logged, AgentsInv, RunsOK
<1> HIDE DEF events
<1>4. LogOK(row, all) /\ all # <<>> /\ Follows(all, events, types)
  <2>1. all = events \o Rows(Len(events), types)
    OBVIOUS
  <2> HIDE DEF all
  <2> QED
    BY <1>1, <1>2, <2>1, AppendedLog
<1> HIDE DEF all
<1>5. TraceOK(row, all, e)
  BY <1>4 DEF TracesWith, events
<1>6. row # NoRow
  BY DEF NoRow
<1>7. RunOK(row, all, e)
  BY <1>4, <1>5, <1>6 DEF RunOK, NoExec
<1>8. /\ cancels' \subseteq Runs
      /\ \A s \in cancels' : IF s = r THEN e.pc \notin {"none", "over"} ELSE s \in cancels
  BY <1>1
<1>9. DOMAIN canceling' = Callers /\ \A c \in Callers : canceling'[c] \in {canceling[c], NoRun}
  BY <1>1
<1>10. UNCHANGED <<published, up>>
  OBVIOUS
<1> QED
  BY <1>1, <1>3, <1>6, <1>7, <1>8, <1>9, <1>10, OneRunMoves

\* An execution in its early part.
LEMMA EarlyExecutions ==
  ASSUME AgentsInv, NEW r \in Runs, exec[r].pc \in Early
  PROVE  /\ exec[r] \in Acting /\ Executing(r)
         /\ exec[r].pc = "result" => exec[r].todo # <<>>
         /\ exec[r].pc \in {"attach", "resolve"} => exec[r].calls = 0 /\ exec[r].round = "first"
         /\ exec[r].pc = "plan" /\ exec[r].round = "first" => exec[r].calls = 0
         /\ TraceOK(run[r], log[r], exec[r]) /\ run[r] \in RunRows
<1>1. ExecOK(exec[r]) /\ TraceOK(run[r], log[r], exec[r]) /\ run[r] \in RunRows
  BY DEF AgentsInv, RunsOK, RunOK
<1>2. exec[r] # NoExec /\ exec[r] \notin Past /\ exec[r] \notin Closing /\ Executing(r)
  BY DEF NoExec, Past, Closing, Early, Late, Executing
<1> QED
  BY <1>1, <1>2 DEF ExecOK

\* An execution in its late part.
LEMMA LateExecutions ==
  ASSUME AgentsInv, NEW r \in Runs, exec[r].pc \in Late
  PROVE  /\ exec[r] \in Closing /\ Executing(r)
         /\ TraceOK(run[r], log[r], exec[r]) /\ run[r] \in RunRows
<1>1. ExecOK(exec[r]) /\ TraceOK(run[r], log[r], exec[r]) /\ run[r] \in RunRows
  BY DEF AgentsInv, RunsOK, RunOK
<1>2. exec[r] # NoExec /\ exec[r] \notin Past /\ exec[r] \notin Acting /\ Executing(r)
  BY DEF NoExec, Past, Acting, Early, Late, Executing
<1> QED
  BY <1>1, <1>2 DEF ExecOK

\* A step of an execution that writes nothing.
LEMMA QuietSteps ==
  ASSUME AgentsInv, NEW r \in Runs, Executing(r), NEW e, exec' = [exec EXCEPT ![r] = e],
         ExecOK(e), e # NoExec, TraceOK(run[r], log[r], e),
         e.pc \in Early => exec[r].pc \in Early /\ e.skill = exec[r].skill,
         cancels' \subseteq cancels \union {r}, r \in cancels' => e.pc \notin {"none", "over"},
         UNCHANGED <<run, log, published, canceling, up>>, trouble' \in 0..MaxTrouble
  PROVE  AgentsInv'
<1>1. /\ run[r] # NoRow /\ up = TRUE /\ DOMAIN canceling = Callers
      /\ RunOK(run[r], log[r], exec[r]) /\ run[r].status = "running"
  BY ExecutionsRun
<1>2. RunOK(run[r], log[r], e)
  BY <1>1 DEF RunOK
<1>3. DOMAIN canceling' = Callers /\ \A c \in Callers : canceling'[c] \in {canceling[c], NoRun}
  BY <1>1
<1>4. UNCHANGED <<run, log, published, up>>
  OBVIOUS
<1> QED
  BY <1>1, <1>2, <1>3, <1>4, ExecMoves

\* The execution ends with a verdict: a result only after its tools.
LEMMA EndsKeeps ==
  ASSUME AgentsInv, NEW r \in Runs, exec[r].pc \in Early,
         NEW verdict \in {"error", "failed", "done", "canceled", "expired"}, Ends(r, verdict),
         verdict = "done" => exec[r].pc \in {"plan", "tools"}
  PROVE  AgentsInv'
<1> DEFINE e == Ending(exec[r], verdict)
<1>1. exec[r] \in Acting /\ Executing(r) /\ TraceOK(run[r], log[r], exec[r])
  BY EarlyExecutions
<1>2. /\ e \in Closing /\ e.pc = "finish" /\ e.verdict = verdict /\ e.broken = exec[r].broken
      /\ e.calls = exec[r].calls
  BY <1>1 DEF Ending, Closing, Acting, Late
<1>3. exec' = [exec EXCEPT ![r] = e] /\ UNCHANGED <<run, log, published, cancels, canceling, up, trouble>>
  BY DEF Ends, Goto
<1> HIDE DEF e
<1>4. ExecOK(e) /\ e # NoExec /\ e.pc \notin Early /\ e.pc \notin {"none", "over"}
  BY <1>2 DEF ExecOK, NoExec, Early
<1>5. TraceOK(run[r], log[r], e)
  BY <1>1, <1>2 DEF TraceOK
<1>6. trouble' \in 0..MaxTrouble
  BY <1>1, <1>3, ExecutionsRun
<1>7. cancels' \subseteq cancels \union {r} /\ UNCHANGED <<run, log, published, canceling, up>>
  BY <1>3
<1> QED
  BY <1>1, <1>3, <1>4, <1>5, <1>6, <1>7, QuietSteps

\* A step that tells the observer of events that are not terminal: they are in
\* the log, or the execution is broken.
LEMMA EmitsKeeps ==
  ASSUME AgentsInv, NEW r \in Runs, exec[r].pc \in Early, NEW row, NEW e,
         NEW types \in Seq(Events \ {"started"}), types # <<>>, \A i \in 1..Len(types) : types[i] \notin Settled,
         Emits(r, types, e), run' = IF log' # log THEN [run EXCEPT ![r] = row] ELSE run,
         e \in Acting \union Closing, ExecOK(e), ExecOK([e EXCEPT !.broken = TRUE]),
         e.broken = exec[r].broken, e.pc \in Early => e.skill = exec[r].skill,
         ~exec[r].broken => TracesWith(row, log[r], types, e),
         row \in RunRows, row.status = "running", row.of = run[r].of,
         run[r].of # NoRun /\ run[run[r].of].skill # NoSkill => row.skill = run[run[r].of].skill,
         UNCHANGED <<published, cancels, canceling, up>>
  PROVE  AgentsInv'
<1>1. /\ exec[r] \in Acting /\ Executing(r) /\ run[r].status = "running" /\ trouble \in 0..MaxTrouble
      /\ LastSequence(r) = Len(log[r]) /\ log[r] # <<>> /\ RunOK(run[r], log[r], exec[r])
  BY EarlyExecutions, ExecutionsRun
<1>2. e # NoExec /\ e.pc \notin {"none", "over"}
  BY DEF Acting, Closing, Early, Late, NoExec
<1>3. cancels' \subseteq cancels \union {r} /\ UNCHANGED <<published, canceling, up>>
  OBVIOUS
<1>4. CASE ~Skipped(exec[r]) /\ Logged(r, types) /\ Goto(r, e) /\ UNCHANGED trouble
  <2>1. exec' = [exec EXCEPT ![r] = e] /\ trouble' \in 0..MaxTrouble
    BY <1>1, <1>4 DEF Goto
  <2>2. EndsWith(row, types) /\ TracesWith(row, log[r], types, e)
    BY <1>4 DEF EndsWith, Skipped
  <2>3. log' # log
    <3> DEFINE all == log[r] \o Rows(Len(log[r]), types)
    <3>1. log'[r] = all
      BY <1>1, <1>4 DEF Logged, AgentsInv, RunsOK
    <3>2. LogOK(run[r], log[r]) /\ run[r].status \notin Settled
      BY <1>1 DEF RunOK, Settled
    <3> HIDE DEF all
    <3>3. Follows(all, log[r], types)
      BY <1>1, <2>2, <3>2, AppendedLog DEF all
    <3>4. Len(log[r]) \in Nat /\ Len(types) \in Nat \ {0}
      BY <3>2 DEF LogOK
    <3>5. Len(all) # Len(log[r])
      BY <3>3, <3>4 DEF Follows
    <3> QED
      BY <3>1, <3>5
  <2>4. run' = [run EXCEPT ![r] = row]
    BY <2>3
  <2>5. run[r].of # NoRun /\ run[run[r].of].skill # NoSkill =>
          /\ row.skill = run[run[r].of].skill
          /\ e.pc \in Early => e.skill = run[run[r].of].skill
    BY DEF AgentsInv, RetriesOK
  <2>6. row.status # "none" /\ Logged(r, types)
    BY <1>4
  <2> QED
    BY <1>1, <1>2, <1>3, <2>1, <2>2, <2>4, <2>5, <2>6, OneRunLogs
<1>5. ASSUME NEW e2, e2 \in {e, [e EXCEPT !.broken = TRUE]}, e2.broken = TRUE, exec' = [exec EXCEPT ![r] = e2],
             UNCHANGED log, trouble' \in 0..MaxTrouble
      PROVE  AgentsInv'
  <2>1. e2.pc = e.pc /\ e2 # NoExec /\ (e.pc \in Early => e2.skill = e.skill) /\ ExecOK(e2)
    <3>1. e2.pc = e.pc /\ (e.pc \in Early => e2.skill = e.skill)
      BY <1>5 DEF Acting, Closing, Early, Late
    <3>2. e2 # NoExec
      BY <1>2, <3>1 DEF NoExec
    <3>3. ExecOK(e2)
      BY <1>5
    <3> QED
      BY <3>1, <3>2, <3>3
  <2>2. TraceOK(run[r], log[r], e2)
    BY <1>2, <1>5, <2>1 DEF TraceOK
  <2>3. UNCHANGED <<run, log, published, canceling, up>>
    BY <1>5
  <2> QED
    BY <1>1, <1>2, <1>3, <1>5, <2>1, <2>2, <2>3, QuietSteps
<1>6. CASE ~Skipped(exec[r]) /\ Trouble /\ Goto(r, [e EXCEPT !.broken = TRUE]) /\ UNCHANGED log
  <2> DEFINE e2 == [e EXCEPT !.broken = TRUE]
  <2>1. e2 \in {e, [e EXCEPT !.broken = TRUE]} /\ e2.broken = TRUE
    BY DEF Acting, Closing
  <2>2. exec' = [exec EXCEPT ![r] = e2] /\ UNCHANGED log
    BY <1>6 DEF Goto
  <2>3. trouble' \in 0..MaxTrouble
    BY <1>1, <1>6, AgentsAssumption DEF Trouble
  <2> QED
    BY <1>5, <2>1, <2>2, <2>3
<1>7. CASE Skipped(exec[r]) /\ Goto(r, e) /\ UNCHANGED <<log, trouble>>
  <2>1. e.broken = TRUE
    BY <1>1, <1>7 DEF Skipped, Acting
  <2>2. exec' = [exec EXCEPT ![r] = e] /\ UNCHANGED log /\ trouble' \in 0..MaxTrouble
    BY <1>1, <1>7 DEF Goto
  <2> QED
    BY <1>5, <2>1, <2>2
<1> QED
  BY <1>4, <1>6, <1>7 DEF Emits

\* A step within the early part that neither tells the observer nor runs a tool.
LEMMA EarlyMoves ==
  ASSUME AgentsInv, NEW r \in Runs, exec[r].pc \in Early, NEW e \in Acting,
         exec' = [exec EXCEPT ![r] = e],
         e.pc = "result" => e.todo # <<>>,
         e.pc \in {"attach", "resolve"} => e.round = "first",
         e.pc = "plan" /\ e.round = "first" => exec[r].pc = "plan" /\ exec[r].round = "first",
         e.broken = exec[r].broken, e.skill = exec[r].skill, e.calls = exec[r].calls,
         \/ e.pc = exec[r].pc
         \/ e.pc \in {"attach", "resolve"} /\ exec[r].pc \in {"attach", "resolve"}
         \/ e.pc \in {"plan", "tools"} /\ exec[r].pc \in {"plan", "tools"},
         cancels' \subseteq cancels \union {r},
         UNCHANGED <<run, log, published, canceling, up>>, trouble' \in 0..MaxTrouble
  PROVE  AgentsInv'
<1>1. /\ exec[r] \in Acting /\ Executing(r) /\ TraceOK(run[r], log[r], exec[r])
      /\ exec[r].pc \in {"attach", "resolve"} => exec[r].calls = 0
      /\ exec[r].pc = "plan" /\ exec[r].round = "first" => exec[r].calls = 0
  BY EarlyExecutions
<1>2. e.pc \in Early /\ e # NoExec
  BY DEF Acting, NoExec, Early
<1>3. ExecOK(e)
  BY <1>1 DEF ExecOK
<1>4. TraceOK(run[r], log[r], e)
  BY <1>1, <1>2 DEF TraceOK, Early
<1>5. e.pc \notin {"none", "over"}
  BY <1>2 DEF Early
<1>6. UNCHANGED <<run, log, published, canceling, up>>
  OBVIOUS
<1> QED
  BY <1>1, <1>2, <1>3, <1>4, <1>5, <1>6, QuietSteps

LEMMA AttachKeeps ==
  ASSUME AgentsInv, NEW r \in Runs, Attach(r)
  PROVE  AgentsInv'
<1> DEFINE e == [exec[r] EXCEPT !.pc = "resolve"]
<1>1. exec[r].pc = "attach" /\ exec[r].pc \in Early
  BY DEF Attach, At, Early
<1>2. exec[r] \in Acting /\ Executing(r) /\ exec[r].round = "first"
  BY <1>1, EarlyExecutions
<1>3. /\ e \in Acting /\ e.pc = "resolve" /\ e.round = "first"
      /\ e.broken = exec[r].broken /\ e.skill = exec[r].skill /\ e.calls = exec[r].calls
  BY <1>2 DEF Acting, Early
<1>4. /\ exec' = [exec EXCEPT ![r] = e] /\ cancels' = cancels \union {r}
      /\ UNCHANGED <<run, log, published, canceling, up, trouble>>
  BY DEF Attach, Goto
<1>5. trouble' \in 0..MaxTrouble
  BY <1>2, <1>4, ExecutionsRun
<1> HIDE DEF e
<1> QED
  BY <1>1, <1>3, <1>4, <1>5, EarlyMoves

\* A plan is a sequence of reads and writes.
LEMMA PlansAreSequences ==
  ASSUME NEW plan \in Plans
  PROVE  plan \in Seq({"read", "write"})
BY AgentsAssumption DEF Plans

\* The tools of a plan, whichever answer gave it, and the second answer that
\* follows a round of reads.
LEMMA RoundsKeep ==
  ASSUME AgentsInv, NEW r \in Runs, exec[r].pc \in {"plan", "tools"},
         NEW pc \in {"plan", "tools"}, NEW round \in {"first", "second", "ensured"}, NEW todo \in Seq({"read", "write"}),
         pc = "plan" => round # "first",
         exec' = [exec EXCEPT ![r] = [exec[r] EXCEPT !.pc = pc, !.round = round, !.todo = todo]],
         UNCHANGED <<run, log, published, cancels, canceling, up, trouble>>
  PROVE  AgentsInv'
<1> DEFINE e == [exec[r] EXCEPT !.pc = pc, !.round = round, !.todo = todo]
<1>1. exec[r].pc \in Early
  BY DEF Early
<1>2. exec[r] \in Acting /\ Executing(r)
  BY <1>1, EarlyExecutions
<1>3. /\ e \in Acting /\ e.pc = pc /\ e.round = round
      /\ e.broken = exec[r].broken /\ e.skill = exec[r].skill /\ e.calls = exec[r].calls
  BY <1>2 DEF Acting, Early
<1>4. trouble' \in 0..MaxTrouble
  BY <1>2, ExecutionsRun
<1>5. exec' = [exec EXCEPT ![r] = e] /\ cancels' \subseteq cancels \union {r}
  OBVIOUS
<1>6. UNCHANGED <<run, log, published, canceling, up>>
  OBVIOUS
<1> HIDE DEF e
<1> QED
  BY <1>1, <1>3, <1>4, <1>5, <1>6, EarlyMoves

LEMMA PlansKeep ==
  ASSUME AgentsInv, NEW r \in Runs, Plan(r) \/ PlanAgain(r)
  PROVE  AgentsInv'
<1>1. exec[r].pc = "plan" /\ exec[r].round \in {"first", "second"}
  BY DEF Plan, PlanAgain, At
<1>2. exec[r] \in Acting
  BY <1>1, EarlyExecutions DEF Early
<1>3. PICK plan \in Plans : exec' = [exec EXCEPT ![r] = [exec[r] EXCEPT !.pc = "tools", !.todo = plan]]
  BY DEF Plan, PlanAgain, Goto
<1>4. [exec[r] EXCEPT !.pc = "tools", !.todo = plan]
        = [exec[r] EXCEPT !.pc = "tools", !.round = exec[r].round, !.todo = plan]
  BY <1>2 DEF Acting
<1>5. UNCHANGED <<run, log, published, cancels, canceling, up, trouble>>
  BY DEF Plan, PlanAgain
<1> QED
  BY <1>1, <1>3, <1>4, <1>5, PlansAreSequences, RoundsKeep

LEMMA SecondRoundKeeps ==
  ASSUME AgentsInv, NEW r \in Runs, SecondRound(r)
  PROVE  AgentsInv'
<1>1. exec[r].pc = "tools"
  BY DEF SecondRound, Acted, At
<1>2. exec[r] \in Acting
  BY <1>1, EarlyExecutions DEF Early
<1>3. exec[r].todo \in Seq({"read", "write"})
  BY <1>2 DEF Acting
<1>4. [exec[r] EXCEPT !.pc = "plan", !.round = "second"]
        = [exec[r] EXCEPT !.pc = "plan", !.round = "second", !.todo = exec[r].todo]
  BY <1>2 DEF Acting
<1>5. exec' = [exec EXCEPT ![r] = [exec[r] EXCEPT !.pc = "plan", !.round = "second"]]
  BY DEF SecondRound, Goto
<1>6. UNCHANGED <<run, log, published, cancels, canceling, up, trouble>>
  BY DEF SecondRound
<1> QED
  BY <1>1, <1>3, <1>4, <1>5, <1>6, RoundsKeep

LEMMA EnsureWritesKeeps ==
  ASSUME AgentsInv, NEW r \in Runs, EnsureWrites(r)
  PROVE  AgentsInv'
<1>1. exec[r].pc = "tools" /\ exec[r].pc \in Early
  BY DEF EnsureWrites, Acted, At, Early
<1>2. exec[r] \in Acting
  BY <1>1, EarlyExecutions
<1>3. CASE exec[r].ctx # "live" /\ Ends(r, exec[r].ctx)
  <2>1. exec[r].ctx \in {"error", "failed", "done", "canceled", "expired"} /\ exec[r].ctx # "done"
    BY <1>2, <1>3 DEF Acting, Contexts
  <2> QED
    BY <1>1, <1>3, <2>1, EndsKeeps
<1>4. CASE /\ \E todo \in {<<>>, <<"write">>} :
                Within(todo) /\ Goto(r, [exec[r] EXCEPT !.round = "ensured", !.todo = todo])
           /\ UNCHANGED <<run, log, published, cancels, canceling, up, trouble>>
  <2>1. PICK todo \in {<<>>, <<"write">>} :
          exec' = [exec EXCEPT ![r] = [exec[r] EXCEPT !.round = "ensured", !.todo = todo]]
    BY <1>4 DEF Goto
  <2>2. todo \in Seq({"read", "write"})
    <3>1. <<>> \in Seq({"read", "write"}) /\ <<"write">> \in Seq({"read", "write"})
      OBVIOUS
    <3> QED
      BY <3>1
  <2>3. [exec[r] EXCEPT !.round = "ensured", !.todo = todo]
          = [exec[r] EXCEPT !.pc = "tools", !.round = "ensured", !.todo = todo]
    BY <1>1, <1>2 DEF Acting
  <2>4. UNCHANGED <<run, log, published, cancels, canceling, up, trouble>>
    BY <1>4
  <2> QED
    BY <1>1, <2>1, <2>2, <2>3, <2>4, RoundsKeep
<1> QED
  BY <1>3, <1>4 DEF EnsureWrites

LEMMA EndingsKeep ==
  ASSUME AgentsInv, NEW r \in Runs, Fails(r) \/ Interrupted(r) \/ PlanInvalid(r) \/ ToolsFailed(r) \/ ToolsDone(r)
  PROVE  AgentsInv'
<1>1. exec[r].pc \in {"resolve", "plan", "tools"} /\ exec[r].pc \in Early
  BY DEF Fails, Interrupted, PlanInvalid, ToolsFailed, ToolsDone, Acted, At, Early
<1>2. exec[r] \in Acting
  BY <1>1, EarlyExecutions
<1>3. CASE Fails(r)
  BY <1>1, <1>3, EndsKeeps DEF Fails
<1>4. CASE Interrupted(r)
  <2>1. exec[r].ctx \in {"error", "failed", "done", "canceled", "expired"} /\ exec[r].ctx # "done"
    BY <1>2, <1>4 DEF Acting, Contexts, Interrupted
  <2> QED
    BY <1>1, <1>4, <2>1, EndsKeeps DEF Interrupted
<1>5. CASE PlanInvalid(r) \/ ToolsFailed(r)
  BY <1>1, <1>5, EndsKeeps DEF PlanInvalid, ToolsFailed
<1>6. CASE ToolsDone(r)
  BY <1>1, <1>6, EndsKeeps DEF ToolsDone, Acted, At
<1> QED
  BY <1>3, <1>4, <1>5, <1>6

LEMMA ContextEndsKeeps ==
  ASSUME AgentsInv, NEW r \in Runs, ContextEnds(r)
  PROVE  AgentsInv'
<1> DEFINE ctx == IF run[r].way = "retry" THEN "expired" ELSE "canceled"
           e == [exec[r] EXCEPT !.ctx = ctx]
<1>1. Executing(r) /\ exec[r].ctx = "live"
  BY DEF ContextEnds
<1>2. exec[r].pc \in Early
  <2>1. ExecOK(exec[r]) /\ exec[r].pc \notin {"none", "over"}
    BY <1>1 DEF AgentsInv, RunsOK, RunOK, Executing
  <2> QED
    BY <1>1, <2>1 DEF ExecOK, NoExec, Past, Closing, Acting
<1>3. /\ exec[r] \in Acting
      /\ exec[r].pc = "result" => exec[r].todo # <<>>
      /\ exec[r].pc \in {"attach", "resolve"} => exec[r].round = "first"
  BY <1>2, EarlyExecutions
<1>4. ctx \in Contexts
  BY DEF Contexts
<1>5. exec' = [exec EXCEPT ![r] = e] /\ UNCHANGED <<run, log, published, cancels, canceling, up>>
  BY DEF ContextEnds, Goto
<1> HIDE DEF ctx
<1>6. /\ e \in Acting /\ e.pc = exec[r].pc /\ e.round = exec[r].round /\ e.todo = exec[r].todo
      /\ e.broken = exec[r].broken /\ e.skill = exec[r].skill /\ e.calls = exec[r].calls
  BY <1>3, <1>4 DEF Acting
<1>7. trouble' \in 0..MaxTrouble
  BY AgentsAssumption DEF ContextEnds, Trouble, AgentsInv, ServerOK
<1>8. cancels' \subseteq cancels \union {r} /\ UNCHANGED <<run, log, published, canceling, up>>
  BY <1>5
<1> HIDE DEF e
<1> QED
  BY <1>2, <1>3, <1>5, <1>6, <1>7, <1>8, EarlyMoves

LEMMA FinishReadKeeps ==
  ASSUME AgentsInv, NEW r \in Runs, FinishRead(r)
  PROVE  AgentsInv'
<1> DEFINE e == [exec[r] EXCEPT !.pc = "save", !.seen = run[r].cancel]
<1>1. exec[r].pc = "finish"
  BY DEF FinishRead, At
<1>2. exec[r] \in Closing /\ Executing(r) /\ TraceOK(run[r], log[r], exec[r]) /\ run[r] \in RunRows
  BY <1>1, LateExecutions DEF Late
<1>3. run[r].cancel \in BOOLEAN
  BY <1>2 DEF RunRows
<1>4. /\ e \in Closing /\ e.pc = "save" /\ e.broken = exec[r].broken
      /\ e.calls = exec[r].calls /\ e.verdict = exec[r].verdict
  BY <1>2, <1>3 DEF Closing, Late
<1>5. exec' = [exec EXCEPT ![r] = e] /\ UNCHANGED <<run, log, published, cancels, canceling, up, trouble>>
  BY DEF FinishRead, Goto
<1> HIDE DEF e
<1>6. ExecOK(e) /\ e # NoExec /\ e.pc \notin Early /\ e.pc \notin {"none", "over"}
  BY <1>4 DEF ExecOK, NoExec, Early
<1>7. TraceOK(run[r], log[r], e)
  BY <1>1, <1>2, <1>4 DEF TraceOK
<1>8. trouble' \in 0..MaxTrouble
  BY <1>2, <1>5, ExecutionsRun
<1>9. cancels' \subseteq cancels \union {r} /\ UNCHANGED <<run, log, published, canceling, up>>
  BY <1>5
<1> QED
  BY <1>2, <1>5, <1>6, <1>7, <1>8, <1>9, QuietSteps

\* What is left of an execution that is over.
LEMMA LeftBehind ==
  ASSUME NEW e \in Closing, NEW row, NEW events
  PROVE  /\ Left(e) \in Past /\ ExecOK(Left(e)) /\ Left(e) # NoExec
         /\ Left(e).pc = "over" /\ Left(e).calls = e.calls /\ Left(e).pc \notin Early
         /\ row.status # "completed" => TraceOK(row, events, Left(e))
<1>1. Left(e) \in Past /\ Left(e).pc = "over" /\ Left(e).calls = e.calls
  BY DEF Left, Past, Closing
<1> QED
  BY <1>1 DEF ExecOK, NoExec, Early, TraceOK

\* A failed last write leaves the run to a second one, or to the next restart.
LEMMA FinishFailsKeeps ==
  ASSUME AgentsInv, NEW r \in Runs, FinishFails(r)
  PROVE  AgentsInv'
<1>1. exec[r].pc \in {"finish", "save"} /\ exec[r].pc \in Late
  BY DEF FinishFails, At, Late
<1>2. exec[r] \in Closing /\ Executing(r)
  BY <1>1, LateExecutions
<1>3. trouble' \in 0..MaxTrouble /\ UNCHANGED <<run, log, published, canceling, up>> /\ run[r].status = "running"
  BY <1>2, ExecutionsRun DEF FinishFails
<1>4. CASE Goto(r, [exec[r] EXCEPT !.pc = "fallback"]) /\ UNCHANGED cancels
  <2> DEFINE e == [exec[r] EXCEPT !.pc = "fallback"]
  <2>1. e \in Closing /\ e.pc = "fallback"
    BY <1>2 DEF Closing, Late
  <2>2. exec' = [exec EXCEPT ![r] = e] /\ cancels' \subseteq cancels \union {r}
    BY <1>4 DEF Goto
  <2> HIDE DEF e
  <2>3. ExecOK(e) /\ e # NoExec /\ e.pc \notin Early /\ e.pc \notin {"none", "over"} /\ TraceOK(run[r], log[r], e)
    BY <2>1 DEF ExecOK, NoExec, Early, TraceOK
  <2>4. UNCHANGED <<run, log, published, canceling, up>>
    BY <1>3
  <2> QED
    BY <1>2, <1>3, <2>2, <2>3, <2>4, QuietSteps
<1>5. CASE Leaves(r)
  <2> DEFINE e == Left(exec[r])
  <2>1. exec' = [exec EXCEPT ![r] = e] /\ cancels' \subseteq cancels \union {r} /\ r \notin cancels'
    BY <1>5 DEF Goto, Leaves
  <2>2. ExecOK(e) /\ e # NoExec /\ e.pc \notin Early /\ TraceOK(run[r], log[r], e)
    BY <1>2, <1>3, LeftBehind
  <2> HIDE DEF e
  <2>3. UNCHANGED <<run, log, published, canceling, up>>
    BY <1>3
  <2> QED
    BY <1>2, <1>3, <2>1, <2>2, <2>3, QuietSteps
<1> QED
  BY <1>4, <1>5 DEF FinishFails

\* The last event of a completed run follows the last result of its tools.
LEMMA CompletedTrace ==
  ASSUME NEW row, NEW events, NEW e \in Closing, e.pc \in {"finish", "save"}, e.verdict = "done", ~e.broken,
         TraceOK(row, events, e), NEW after
  PROVE  TracesWith(after, events, <<"completed">>, Left(e))
<1> DEFINE n == 2 + 2 * e.calls
<1>1. e.calls \in Nat
  BY DEF Closing
<1>2. n \in Nat /\ n >= 2 /\ n + 1 = 3 + 2 * e.calls
  BY <1>1
<1>3. Len(events) = n /\ Told(events, n)
  BY DEF TraceOK
<1>4. Left(e).pc = "over" /\ Left(e).calls = e.calls
  BY DEF Left
<1> HIDE DEF n
<1>5. ASSUME NEW all, Follows(all, events, <<"completed">>)
      PROVE  Len(all) = n + 1 /\ Told(all, n) /\ all[n + 1].type = "completed"
  <2>1. Len(all) = n + 1 /\ \A i \in 1..n : all[i] = events[i]
    BY <1>2, <1>3, <1>5 DEF Follows
  <2>2. all[n + 1].type = "completed"
    <3>1. 1 \in 1..Len(<<"completed">>) /\ <<"completed">>[1] = "completed"
      OBVIOUS
    <3> QED
      BY <1>3, <1>5, <3>1 DEF Follows
  <2>3. Told(all, n)
    BY <1>2, <1>3, <2>1 DEF Told
  <2> QED
    BY <2>1, <2>2, <2>3
<1>6. ASSUME NEW all, Follows(all, events, <<"completed">>)
      PROVE  TraceOK(after, all, Left(e))
  BY <1>2, <1>4, <1>5, <1>6 DEF TraceOK, n
<1> QED
  BY <1>6 DEF TracesWith

\* The last write of an execution.
LEMMA SavesKeep ==
  ASSUME AgentsInv, NEW r \in Runs, exec[r].pc \in {"finish", "save"},
         NEW status \in Settled, NEW types \in Seq(Events \ {"started"}), Saved(r, status, types),
         \A i \in 1..Len(types) : types[i] \in Settled => i = Len(types) /\ status = types[i],
         status = "completed" => types = <<"completed">> /\ exec[r].verdict = "done" /\ ~exec[r].broken
  PROVE  AgentsInv'
<1> DEFINE row == [run[r] EXCEPT !.status = status]
           e == Left(exec[r])
<1>1. /\ exec[r] \in Closing /\ Executing(r) /\ run[r] \in RunRows
      /\ TraceOK(run[r], log[r], exec[r])
  BY LateExecutions DEF Late
<1>2. row \in RunRows /\ row.status = status /\ row.of = run[r].of /\ row.skill = run[r].skill /\ status # "none"
  BY <1>1 DEF RunRows, Settled
<1>3. TracesWith(row, log[r], types, e)
  <2>1. CASE status = "completed"
    BY <1>1, <2>1, CompletedTrace
  <2>2. CASE status # "completed"
    <3> HIDE DEF row, e
    <3> QED
      BY <1>1, <1>2, <2>2, LeftBehind DEF TracesWith, e
  <2> QED
    BY <2>1, <2>2
<1>4. ExecOK(e) /\ e # NoExec /\ e.pc = "over" /\ e.pc \notin Early
  BY <1>1, LeftBehind
<1>5. /\ run' = [run EXCEPT ![r] = row] /\ Logged(r, types) /\ exec' = [exec EXCEPT ![r] = e]
      /\ cancels' = cancels \ {r}
  BY DEF Saved, Leaves, Goto
<1>6. UNCHANGED <<canceling, published, up>> /\ trouble' \in 0..MaxTrouble
  BY <1>1, ExecutionsRun DEF Saved
<1>7. run[r].of # NoRun /\ run[run[r].of].skill # NoSkill =>
        /\ row.skill = run[run[r].of].skill
        /\ e.pc \in Early => e.skill = run[run[r].of].skill
  BY <1>2, <1>4 DEF AgentsInv, RetriesOK
<1> HIDE DEF row, e
<1>8. EndsWith(row, types)
  BY <1>2 DEF EndsWith
<1>9. /\ row.status # "none" /\ (e.pc \notin {"none", "over"} => row.status = "running")
      /\ cancels' \subseteq cancels \union {r} /\ r \notin cancels'
  BY <1>2, <1>4, <1>5
<1> QED
  BY <1>1, <1>2, <1>3, <1>4, <1>5, <1>6, <1>7, <1>8, <1>9, OneRunLogs

\* A result and an error have an outcome; only a result with all its events is
\* a completion.
LEMMA Outcomes ==
  ASSUME NEW e \in Closing
  PROVE  /\ Outcome(e) \in Settled
         /\ Outcome(e) = "completed" => e.verdict = "done" /\ ~e.broken
BY DEF Outcome, Erred, Closing, Settled

\* The tool calls that are written late are calls, and a completed run has none.
LEMMA LateCalls ==
  ASSUME AgentsInv, NEW r \in Runs, exec[r].pc = "save"
  PROVE  /\ Unstreamed(r) \in Seq({"tool_call"})
         /\ exec[r].verdict = "done" /\ ~exec[r].broken => Unstreamed(r) = <<>>
<1>1. exec[r] \in Closing /\ TraceOK(run[r], log[r], exec[r])
  BY LateExecutions DEF Late
<1> DEFINE calls == exec[r].calls
<1>2. calls \in Nat
  BY <1>1 DEF Closing
<1>3. [i \in 1..calls |-> "tool_call"] \in Seq({"tool_call"}) /\ <<>> \in Seq({"tool_call"})
  BY <1>2
<1>4. Unstreamed(r) \in Seq({"tool_call"})
  BY <1>3 DEF Unstreamed
<1>5. ASSUME exec[r].verdict = "done", ~exec[r].broken
      PROVE  Unstreamed(r) = <<>>
  <2>1. Len(log[r]) = 2 + 2 * calls /\ Told(log[r], 2 + 2 * calls)
    BY <1>1, <1>5 DEF TraceOK
  <2>2. LogOK(run[r], log[r])
    BY DEF AgentsInv, RunsOK, RunOK
  <2>3. CASE calls = 0
    BY <2>3 DEF Unstreamed
  <2>4. CASE calls # 0
    <3>1. 3 \in 3..(2 + 2 * calls) /\ 3 % 2 = 1
      BY <1>2, <2>4
    <3>2. log[r][3].type = "tool_call"
      BY <2>1, <3>1 DEF Told
    <3>3. 3 \in DOMAIN log[r]
      BY <2>1, <2>2, <3>1 DEF LogOK
    <3> QED
      BY <3>2, <3>3 DEF Unstreamed, Recorded
  <2> QED
    BY <2>3, <2>4
<1> QED
  BY <1>4, <1>5

LEMMA FinishSaveKeeps ==
  ASSUME AgentsInv, NEW r \in Runs, FinishSave(r)
  PROVE  AgentsInv'
<1> DEFINE status == Outcome(exec[r])
           late == Unstreamed(r)
           types == Append(late, status)
<1>1. exec[r].pc = "save" /\ Saved(r, status, types)
  BY DEF FinishSave, At
<1>2. exec[r] \in Closing
  BY <1>1, LateExecutions DEF Late
<1>3. status \in Settled /\ (status = "completed" => exec[r].verdict = "done" /\ ~exec[r].broken)
  BY <1>2, Outcomes
<1>4. late \in Seq({"tool_call"}) /\ (status = "completed" => late = <<>>)
  BY <1>1, <1>3, LateCalls
<1> HIDE DEF status, late
<1>5. /\ types \in Seq(Events \ {"started"})
      /\ \A i \in 1..Len(types) : types[i] \in Settled => i = Len(types) /\ status = types[i]
      /\ status = "completed" => types = <<"completed">>
  <2>1. {"tool_call"} \subseteq Events \ {"started"} /\ status \in Events \ {"started"} /\ "tool_call" \notin Settled
    BY <1>3 DEF Events, Settled
  <2>2. late \in Seq(Events \ {"started"})
    BY <1>4, <2>1
  <2>3. types \in Seq(Events \ {"started"}) /\ Len(types) = Len(late) + 1 /\ types[Len(types)] = status
    BY <2>1, <2>2
  <2>4. ASSUME NEW i \in 1..Len(types), types[i] \in Settled PROVE i = Len(types)
    <3>1. CASE i \in 1..Len(late)
      BY <1>4, <2>1, <2>4, <3>1
    <3>2. CASE i \notin 1..Len(late)
      BY <1>4, <2>3, <3>2
    <3> QED
      BY <3>1, <3>2
  <2>5. status = "completed" => types = <<"completed">>
    BY <1>4
  <2> QED
    BY <2>3, <2>4, <2>5
<1> HIDE DEF types
<1> QED
  BY <1>1, <1>3, <1>5, SavesKeep

LEMMA ProductionSaveKeeps ==
  ASSUME AgentsInv, NEW r \in Runs, ProductionSave(r)
  PROVE  AgentsInv'
<1> DEFINE status == Outcome(exec[r])
<1>1. exec[r].pc = "finish"
  BY DEF ProductionSave, At
<1>2. exec[r] \in Closing
  BY <1>1, LateExecutions DEF Late
<1>3. status \in Settled /\ (status = "completed" => exec[r].verdict = "done" /\ ~exec[r].broken)
  BY <1>2, Outcomes
<1>4. CASE Saved(r, "failed", <<>>)
  <2> DEFINE types == <<>>
             lost == "failed"
  <2>1. types \in Seq(Events \ {"started"}) /\ Len(types) = 0 /\ lost \in Settled /\ lost # "completed"
    BY DEF Settled
  <2>2. \A i \in 1..Len(types) : types[i] \in Settled => i = Len(types) /\ lost = types[i]
    BY <2>1
  <2>3. Saved(r, lost, types)
    BY <1>4
  <2> HIDE DEF types, lost
  <2> QED
    BY <1>1, <2>1, <2>2, <2>3, SavesKeep
<1>5. CASE Saved(r, status, <<status>>)
  <2> DEFINE types == <<status>>
  <2>1. status \in Events \ {"started"} /\ Saved(r, status, types)
    BY <1>3, <1>5 DEF Events, Settled
  <2> HIDE DEF status
  <2>2. types \in Seq(Events \ {"started"}) /\ Len(types) = 1 /\ types[1] = status
    BY <2>1
  <2>3. status = "completed" => types = <<"completed">>
    OBVIOUS
  <2> HIDE DEF types
  <2>4. \A i \in 1..Len(types) : types[i] \in Settled => i = Len(types) /\ status = types[i]
    BY <2>2
  <2> QED
    BY <1>1, <1>3, <2>1, <2>2, <2>3, <2>4, SavesKeep
<1> QED
  BY <1>4, <1>5 DEF ProductionSave

\* The second write of a retry that could not save its end.
LEMMA FallbackKeeps ==
  ASSUME AgentsInv, NEW r \in Runs, Fallback(r)
  PROVE  AgentsInv'
<1> DEFINE e == Left(exec[r])
<1>1. exec[r].pc = "fallback"
  BY DEF Fallback, At
<1>2. exec[r] \in Closing /\ Executing(r) /\ run[r] \in RunRows
  BY <1>1, LateExecutions DEF Late
<1>3. /\ run[r].status = "running" /\ up = TRUE /\ trouble \in 0..MaxTrouble /\ DOMAIN canceling = Callers
      /\ RunOK(run[r], log[r], exec[r]) /\ log[r] # <<>> /\ cancels \subseteq Runs
  BY <1>2, ExecutionsRun
<1>4. /\ exec' = [exec EXCEPT ![r] = e] /\ cancels' = cancels \ {r}
      /\ UNCHANGED <<log, published, canceling, up, trouble>>
  BY DEF Fallback, Leaves, Goto
<1>5. ExecOK(e) /\ e # NoExec /\ e.pc = "over" /\ e.pc \notin Early
  BY <1>2, LeftBehind
<1>6. PICK row \in {run[r], [run[r] EXCEPT !.status = "failed"]} : run' = [run EXCEPT ![r] = row]
  BY <1>3 DEF Fallback, AgentsInv, RunsOK
<1>7. /\ row \in RunRows /\ row.status \in {"running", "failed"} /\ row.of = run[r].of /\ row.skill = run[r].skill
  BY <1>2, <1>3 DEF RunRows, Settled
<1> HIDE DEF e
<1>8. RunOK(row, log[r], e)
  <2>1. TraceOK(row, log[r], e)
    BY <1>5, <1>7 DEF TraceOK
  <2>2. LogOK(row, log[r])
    BY <1>3, <1>7 DEF RunOK, LogOK, Settled
  <2> QED
    BY <1>3, <1>5, <1>7, <2>1, <2>2 DEF RunOK, NoRow
<1>9. log' = [log EXCEPT ![r] = log[r]]
  BY <1>4 DEF AgentsInv, RunsOK
<1>10. run[r] # NoRow /\ row # NoRow
  BY <1>3, <1>7 DEF NoRow
<1>11. run[r].of # NoRun /\ run[run[r].of].skill # NoSkill =>
         /\ row.skill = run[run[r].of].skill
         /\ e.pc \in Early => e.skill = run[run[r].of].skill
  BY <1>5, <1>7 DEF AgentsInv, RetriesOK
<1>12. cancels' \subseteq Runs /\ \A s \in cancels' : IF s = r THEN e.pc \notin {"none", "over"} ELSE s \in cancels
  BY <1>3, <1>4
<1>13. DOMAIN canceling' = Callers /\ \A c \in Callers : canceling'[c] \in {canceling[c], NoRun}
  BY <1>3, <1>4
<1>14. UNCHANGED <<published, up>> /\ trouble' \in 0..MaxTrouble
  BY <1>3, <1>4
<1> QED
  BY <1>3, <1>4, <1>6, <1>7, <1>8, <1>9, <1>10, <1>11, <1>12, <1>13, <1>14, OneRunMoves

\* A cancellation marks the row, whatever became of it, and ends the context.
LEMMA CancelWriteKeeps ==
  ASSUME AgentsInv, NEW c \in Callers, CancelWrite(c)
  PROVE  AgentsInv'
<1> DEFINE r == canceling[c]
           row == Canceled(run[r])
<1>1. /\ RunsOK /\ RetriesOK /\ ServerOK /\ r # NoRun /\ up = TRUE
  BY DEF AgentsInv, CancelWrite, ServerOK
<1>2. r \in Runs /\ run[r] # NoRow /\ DOMAIN canceling = Callers
  BY <1>1 DEF ServerOK
<1>3. RunOK(run[r], log[r], exec[r]) /\ run[r] \in RunRows
  BY <1>1, <1>2 DEF RunsOK, RunOK
<1>4. /\ row \in RunRows /\ row.status = run[r].status /\ row.of = run[r].of /\ row.skill = run[r].skill
      /\ row.cancel = TRUE
  BY <1>3 DEF Canceled, RunRows
<1>5. /\ run' = [run EXCEPT ![r] = row] /\ canceling' = [canceling EXCEPT ![c] = NoRun]
      /\ UNCHANGED <<log, published, cancels, up, trouble>>
  BY DEF CancelWrite, Canceled
<1>6. PICK e \in {exec[r], [exec[r] EXCEPT !.ctx = "canceled"]} :
        /\ exec' = [exec EXCEPT ![r] = e]
        /\ e = exec[r] \/ (exec[r].ctx = "live" /\ Executing(r))
  <2>1. CASE r \in cancels /\ exec[r].ctx = "live" /\ exec' = [exec EXCEPT ![r] = [exec[r] EXCEPT !.ctx = "canceled"]]
    <3>1. Executing(r)
      BY <1>1, <2>1 DEF ServerOK
    <3> QED
      BY <2>1, <3>1
  <2>2. CASE UNCHANGED exec
    <3>1. exec' = [exec EXCEPT ![r] = exec[r]]
      BY <1>1, <1>2, <2>2 DEF RunsOK
    <3> QED
      BY <3>1
  <2> QED
    BY <2>1, <2>2 DEF CancelWrite, Goto
<1> HIDE DEF r, row
<1>7. /\ ExecOK(e) /\ e.pc = exec[r].pc /\ (e.pc \in Early => e.skill = exec[r].skill)
      /\ TraceOK(run[r], log[r], e) /\ (e = NoExec <=> exec[r] = NoExec)
  <2>1. CASE e = exec[r]
    BY <1>3, <2>1 DEF RunOK
  <2>2. CASE e # exec[r]
    <3>1. exec[r].pc \in Early
      <4>1. ExecOK(exec[r]) /\ exec[r].ctx = "live" /\ exec[r].pc \notin {"none", "over"}
        BY <1>3, <1>6, <2>2 DEF RunOK, Executing
      <4> QED
        BY <4>1 DEF ExecOK, NoExec, Past, Closing, Acting
    <3>2. /\ exec[r] \in Acting /\ TraceOK(run[r], log[r], exec[r])
          /\ exec[r].pc = "result" => exec[r].todo # <<>>
          /\ exec[r].pc \in {"attach", "resolve"} => exec[r].calls = 0 /\ exec[r].round = "first"
          /\ exec[r].pc = "plan" /\ exec[r].round = "first" => exec[r].calls = 0
      BY <1>2, <3>1, EarlyExecutions
    <3>3. e = [exec[r] EXCEPT !.ctx = "canceled"] /\ "canceled" \in Contexts
      BY <1>6, <2>2 DEF Contexts
    <3>4. /\ e \in Acting /\ e.pc = exec[r].pc /\ e.round = exec[r].round /\ e.todo = exec[r].todo
          /\ e.broken = exec[r].broken /\ e.skill = exec[r].skill /\ e.calls = exec[r].calls
      BY <3>2, <3>3 DEF Acting
    <3>5. ExecOK(e)
      BY <3>2, <3>4 DEF ExecOK
    <3>6. TraceOK(run[r], log[r], e)
      BY <3>1, <3>2, <3>4 DEF TraceOK, Early
    <3>7. e # NoExec /\ exec[r] # NoExec
      BY <3>1, <3>4 DEF NoExec, Early
    <3> QED
      BY <3>4, <3>5, <3>6, <3>7
  <2> QED
    BY <2>1, <2>2
<1>8. RunOK(row, log[r], e)
  <2>1. TraceOK(row, log[r], e)
    BY <1>4, <1>7 DEF TraceOK
  <2>2. LogOK(row, log[r])
    BY <1>3, <1>4 DEF RunOK, LogOK
  <2>3. row # NoRow /\ row.status # "none"
    BY <1>2, <1>3, <1>4 DEF RunOK, NoRow
  <2> QED
    BY <1>2, <1>3, <1>4, <1>7, <2>1, <2>2, <2>3 DEF RunOK
<1>9. row # NoRow
  BY <1>4 DEF NoRow
<1>10. log' = [log EXCEPT ![r] = log[r]]
  BY <1>1, <1>5 DEF RunsOK
<1>11. run[r].of # NoRun /\ run[run[r].of].skill # NoSkill =>
         /\ row.skill = run[run[r].of].skill
         /\ e.pc \in Early => e.skill = run[run[r].of].skill
  BY <1>1, <1>2, <1>4, <1>7 DEF RetriesOK
<1>12. cancels' \subseteq Runs /\ \A s \in cancels' : IF s = r THEN e.pc \notin {"none", "over"} ELSE s \in cancels
  BY <1>1, <1>5, <1>7 DEF ServerOK, Executing
<1>13. DOMAIN canceling' = Callers /\ \A d \in Callers : canceling'[d] \in {canceling[d], NoRun}
  BY <1>2, <1>5
<1>14. UNCHANGED <<published, up>> /\ trouble' \in 0..MaxTrouble
  BY <1>1, <1>5 DEF ServerOK
<1> QED
  BY <1>1, <1>2, <1>4, <1>5, <1>6, <1>8, <1>9, <1>10, <1>11, <1>12, <1>13, <1>14, OneRunMoves

\* One more event of the alternation of calls and results.
LEMMA ToldMore ==
  ASSUME NEW n \in Nat, NEW events, Len(events) = n, Told(events, n),
         NEW type, type = IF (n + 1) % 2 = 1 THEN "tool_call" ELSE "tool_result",
         NEW all, Follows(all, events, <<type>>)
  PROVE  Len(all) = n + 1 /\ Told(all, n + 1)
<1>1. Len(all) = n + 1 /\ (\A i \in 1..n : all[i] = events[i]) /\ n >= 2
  BY DEF Follows, Told
<1>2. all[n + 1].type = type
  <2>1. 1 \in 1..Len(<<type>>) /\ <<type>>[1] = type
    OBVIOUS
  <2> QED
    BY <2>1 DEF Follows
<1>3. \A i \in 3..(n + 1) : i \in 3..n \/ i = n + 1
  OBVIOUS
<1>4. ASSUME NEW i \in 3..(n + 1) PROVE all[i].type = IF i % 2 = 1 THEN "tool_call" ELSE "tool_result"
  <2>1. CASE i \in 3..n
    BY <1>1, <2>1 DEF Told
  <2>2. CASE i = n + 1
    BY <1>2, <2>2
  <2> QED
    BY <1>3, <2>1, <2>2
<1>5. all[2].type = "prompt_resolved"
  BY <1>1 DEF Told
<1> QED
  BY <1>1, <1>4, <1>5 DEF Told

\* What every step that tells the observer of one event has to show.
LEMMA TellsOne ==
  ASSUME AgentsInv, NEW r \in Runs, exec[r].pc \in Early, NEW e \in Acting, NEW type \in Events \ {"started"},
         type \notin Settled, Emits(r, <<type>>, e), e.broken = exec[r].broken, e.skill = exec[r].skill,
         e.pc = "result" => e.todo # <<>>, e.pc \notin {"attach", "resolve"},
         e.pc = "plan" /\ e.round = "first" => e.calls = 0,
         NEW row \in RunRows, row.status = "running", row.of = run[r].of,
         run[r].of # NoRun /\ run[run[r].of].skill # NoSkill => row.skill = run[run[r].of].skill,
         run' = IF log' # log THEN [run EXCEPT ![r] = row] ELSE run,
         ~exec[r].broken => TracesWith(row, log[r], <<type>>, e),
         UNCHANGED <<published, cancels, canceling, up>>
  PROVE  AgentsInv'
<1> DEFINE types == <<type>>
           lost == [e EXCEPT !.broken = TRUE]
<1>1. types \in Seq(Events \ {"started"}) /\ types # <<>> /\ Len(types) = 1 /\ types[1] = type
  OBVIOUS
<1>2. /\ lost \in Acting /\ lost.pc = e.pc /\ lost.todo = e.todo /\ lost.round = e.round /\ lost.calls = e.calls
  BY DEF Acting
<1> HIDE DEF lost
<1>3. ExecOK(e) /\ ExecOK(lost)
  BY <1>2 DEF ExecOK
<1>4. Emits(r, types, e) /\ (~exec[r].broken => TracesWith(row, log[r], types, e))
  OBVIOUS
<1> HIDE DEF types
<1>5. \A i \in 1..Len(types) : types[i] \notin Settled
  BY <1>1
<1>6. ExecOK([e EXCEPT !.broken = TRUE]) /\ e \in Acting \union Closing
  BY <1>3 DEF lost
<1> QED
  BY <1>1, <1>3, <1>4, <1>5, <1>6, EmitsKeeps

LEMMA ResolveKeeps ==
  ASSUME AgentsInv, NEW r \in Runs, Resolve(r)
  PROVE  AgentsInv'
<1> DEFINE skill == ResolvedSkill(exec[r])
           row == [run[r] EXCEPT !.skill = skill]
           e == [exec[r] EXCEPT !.pc = "plan"]
           type == "prompt_resolved"
<1>1. /\ exec[r].pc = "resolve" /\ exec[r].pc \in Early /\ Emits(r, <<type>>, e)
      /\ UNCHANGED <<published, cancels, canceling, up>>
  BY DEF Resolve, At, Early
<1>2. /\ exec[r] \in Acting /\ run[r] \in RunRows /\ Executing(r) /\ exec[r].calls = 0
      /\ TraceOK(run[r], log[r], exec[r])
  BY <1>1, EarlyExecutions
<1>3. run' = IF log' # log THEN [run EXCEPT ![r] = row] ELSE run
  BY DEF Resolve
<1>4. skill \in Skills
  BY <1>2 DEF ResolvedSkill, Acting, AgentsInv, ServerOK
<1>5. row \in RunRows /\ row.status = "running" /\ row.of = run[r].of /\ row.skill = skill
  <2>1. run[r].status = "running"
    BY <1>2, ExecutionsRun
  <2> QED
    BY <1>2, <1>4, <2>1 DEF RunRows
<1>6. run[r].of # NoRun /\ run[run[r].of].skill # NoSkill => row.skill = run[run[r].of].skill
  BY <1>1, <1>5 DEF AgentsInv, RetriesOK, ResolvedSkill
<1>7. /\ e \in Acting /\ e.pc = "plan" /\ e.calls = 0 /\ e.broken = exec[r].broken /\ e.skill = exec[r].skill
  BY <1>2 DEF Acting, Early
<1>8. type \in Events \ {"started"} /\ type \notin Settled
  BY DEF Events, Settled
<1> HIDE DEF skill, row, e
<1>9. ASSUME ~exec[r].broken, NEW all, Follows(all, log[r], <<type>>) PROVE TraceOK(row, all, e)
  <2>1. Len(log[r]) = 1
    BY <1>1, <1>2, <1>9 DEF TraceOK
  <2>2. 1 \in 1..Len(<<type>>) /\ <<type>>[1] = type /\ Len(<<type>>) = 1
    OBVIOUS
  <2>3. Len(all) = 2 /\ all[2].type = type
    BY <1>9, <2>1, <2>2 DEF Follows
  <2>4. Told(all, 2)
    BY <2>3 DEF Told
  <2> QED
    BY <1>7, <2>3, <2>4 DEF TraceOK
<1>10. ~exec[r].broken => TracesWith(row, log[r], <<type>>, e)
  BY <1>9 DEF TracesWith
<1>11. /\ e.pc = "result" => e.todo # <<>>
       /\ e.pc \notin {"attach", "resolve"} /\ (e.pc = "plan" /\ e.round = "first" => e.calls = 0)
  BY <1>7
<1> HIDE DEF type
<1> QED
  BY <1>1, <1>3, <1>5, <1>6, <1>7, <1>8, <1>10, <1>11, TellsOne

LEMMA ToolCallKeeps ==
  ASSUME AgentsInv, NEW r \in Runs, ToolCall(r)
  PROVE  AgentsInv'
<1> DEFINE row == run[r]
           e == [exec[r] EXCEPT !.pc = "result"]
           type == "tool_call"
<1>1. /\ exec[r].pc = "tools" /\ exec[r].pc \in Early /\ exec[r].todo # <<>> /\ Emits(r, <<type>>, e)
      /\ UNCHANGED <<run, published, cancels, canceling, up>>
  BY DEF ToolCall, At, Early
<1>2. /\ exec[r] \in Acting /\ row \in RunRows /\ Executing(r) /\ TraceOK(row, log[r], exec[r])
  BY <1>1, EarlyExecutions
<1>3. run' = IF log' # log THEN [run EXCEPT ![r] = row] ELSE run
  BY <1>1 DEF AgentsInv, RunsOK
<1>4. row.status = "running" /\ row.of = run[r].of
  BY <1>2, ExecutionsRun
<1>5. run[r].of # NoRun /\ run[run[r].of].skill # NoSkill => row.skill = run[run[r].of].skill
  BY DEF AgentsInv, RetriesOK
<1>6. /\ e \in Acting /\ e.pc = "result" /\ e.todo = exec[r].todo /\ e.calls = exec[r].calls
      /\ e.broken = exec[r].broken /\ e.skill = exec[r].skill
  BY <1>2 DEF Acting, Early
<1>7. type \in Events \ {"started"} /\ type \notin Settled
  BY DEF Events, Settled
<1> HIDE DEF row, e
<1>8. ASSUME ~exec[r].broken, NEW all, Follows(all, log[r], <<type>>) PROVE TraceOK(row, all, e)
  <2> DEFINE n == 2 + 2 * e.calls
  <2>1. n \in Nat /\ (n + 1) % 2 = 1 /\ n + 1 = 3 + 2 * e.calls
    BY <1>6 DEF Acting
  <2>2. Len(log[r]) = n /\ Told(log[r], n)
    BY <1>1, <1>2, <1>6, <1>8 DEF TraceOK
  <2> HIDE DEF n
  <2>3. Len(all) = n + 1 /\ Told(all, n + 1)
    BY <1>8, <2>1, <2>2, ToldMore
  <2> QED
    BY <1>6, <2>1, <2>3 DEF TraceOK
<1>9. ~exec[r].broken => TracesWith(row, log[r], <<type>>, e)
  BY <1>8 DEF TracesWith
<1>10. /\ e.pc = "result" => e.todo # <<>>
       /\ e.pc \notin {"attach", "resolve"} /\ (e.pc = "plan" /\ e.round = "first" => e.calls = 0)
  BY <1>1, <1>6
<1>11. UNCHANGED <<published, cancels, canceling, up>>
  BY <1>1
<1> HIDE DEF type
<1> QED
  BY <1>1, <1>2, <1>3, <1>4, <1>5, <1>6, <1>7, <1>9, <1>10, <1>11, TellsOne

LEMMA ToolResultKeeps ==
  ASSUME AgentsInv, NEW r \in Runs, ToolResult(r)
  PROVE  AgentsInv'
<1> DEFINE row == run[r]
           type == "tool_result"
<1>1. /\ exec[r].pc = "result" /\ exec[r].pc \in Early
      /\ UNCHANGED <<run, published, cancels, canceling, up>>
  BY DEF ToolResult, At, Early
<1>2. /\ exec[r] \in Acting /\ row \in RunRows /\ Executing(r) /\ TraceOK(row, log[r], exec[r])
      /\ exec[r].todo # <<>>
  BY <1>1, EarlyExecutions
<1>3. PICK fails \in BOOLEAN :
        Emits(r, <<type>>,
              [exec[r] EXCEPT !.pc = "tools", !.todo = Tail(@), !.calls = @ + 1,
                              !.wrote = @ \/ Head(exec[r].todo) = "write", !.bad = @ \/ fails])
  BY DEF ToolResult
<1> DEFINE todo == Tail(exec[r].todo)
           wrote == exec[r].wrote \/ Head(exec[r].todo) = "write"
           bad == exec[r].bad \/ fails
           e == [exec[r] EXCEPT !.pc = "tools", !.todo = todo, !.calls = exec[r].calls + 1,
                                !.wrote = wrote, !.bad = bad]
<1>4. Emits(r, <<type>>, e)
  BY <1>3
<1>5. run' = IF log' # log THEN [run EXCEPT ![r] = row] ELSE run
  BY <1>1 DEF AgentsInv, RunsOK
<1>6. row.status = "running" /\ row.of = run[r].of
  BY <1>2, ExecutionsRun
<1>7. run[r].of # NoRun /\ run[run[r].of].skill # NoSkill => row.skill = run[run[r].of].skill
  BY DEF AgentsInv, RetriesOK
<1>8. todo \in Seq({"read", "write"})
  BY <1>2 DEF Acting
<1>9. wrote \in BOOLEAN /\ bad \in BOOLEAN
  OBVIOUS
<1> HIDE DEF todo, wrote, bad
<1>10. /\ e \in Acting /\ e.pc = "tools" /\ e.calls = exec[r].calls + 1
       /\ e.broken = exec[r].broken /\ e.skill = exec[r].skill
  <2> DEFINE calls == exec[r].calls + 1
  <2>1. calls \in Nat /\ "tools" \in Early
    BY <1>2 DEF Acting, Early
  <2>2. e = [exec[r] EXCEPT !.pc = "tools", !.todo = todo, !.calls = calls, !.wrote = wrote, !.bad = bad]
    OBVIOUS
  <2> HIDE DEF calls
  <2>3. e = [exec[r] EXCEPT !.pc = "tools", !.todo = todo, !.calls = calls, !.wrote = wrote, !.bad = bad]
    BY <2>2
  <2> HIDE DEF e
  <2>4. /\ e \in Acting /\ e.pc = "tools" /\ e.calls = calls
        /\ e.broken = exec[r].broken /\ e.skill = exec[r].skill
    BY <1>2, <1>8, <1>9, <2>1, <2>3 DEF Acting
  <2> QED
    BY <2>4 DEF calls
<1>11. type \in Events \ {"started"} /\ type \notin Settled
  BY DEF Events, Settled
<1> HIDE DEF row, e
<1>12. ASSUME ~exec[r].broken, NEW all, Follows(all, log[r], <<type>>) PROVE TraceOK(row, all, e)
  <2> DEFINE n == 3 + 2 * exec[r].calls
  <2>1. n \in Nat /\ (n + 1) % 2 # 1 /\ n + 1 = 2 + 2 * e.calls
    BY <1>2, <1>10 DEF Acting
  <2>2. Len(log[r]) = n /\ Told(log[r], n)
    BY <1>1, <1>2, <1>12 DEF TraceOK
  <2> HIDE DEF n
  <2>3. Len(all) = n + 1 /\ Told(all, n + 1)
    BY <1>12, <2>1, <2>2, ToldMore
  <2> QED
    BY <1>10, <2>1, <2>3 DEF TraceOK
<1>13. ~exec[r].broken => TracesWith(row, log[r], <<type>>, e)
  BY <1>12 DEF TracesWith
<1>14. /\ e.pc = "result" => e.todo # <<>>
       /\ e.pc \notin {"attach", "resolve"} /\ (e.pc = "plan" /\ e.round = "first" => e.calls = 0)
  BY <1>10
<1>15. UNCHANGED <<published, cancels, canceling, up>>
  BY <1>1
<1> HIDE DEF type
<1> QED
  BY <1>1, <1>2, <1>4, <1>5, <1>6, <1>7, <1>10, <1>11, <1>13, <1>14, <1>15, TellsOne

LEMMA OfflineKeeps ==
  ASSUME AgentsInv, NEW r \in Runs, Offline(r)
  PROVE  AgentsInv'
<1>1. /\ exec[r].pc = "plan" /\ exec[r].pc \in Early /\ exec[r].round = "first"
      /\ UNCHANGED <<run, published, cancels, canceling, up>>
  BY DEF Offline, At, Early
<1>2. /\ exec[r] \in Acting /\ run[r] \in RunRows /\ Executing(r) /\ TraceOK(run[r], log[r], exec[r])
      /\ exec[r].calls = 0
  BY <1>1, EarlyExecutions
<1>3. PICK verdict \in {"done", "failed"}, n \in 0..1 :
        IF n = 0 THEN Goto(r, [Ending(exec[r], verdict) EXCEPT !.calls = n]) /\ UNCHANGED <<log, trouble>>
        ELSE Emits(r, <<"tool_call", "tool_result">>, [Ending(exec[r], verdict) EXCEPT !.calls = n])
  BY DEF Offline
<1> DEFINE e == [Ending(exec[r], verdict) EXCEPT !.calls = n]
<1>4. /\ e \in Closing /\ e.pc = "finish" /\ e.verdict = verdict /\ e.broken = exec[r].broken /\ e.calls = n
      /\ n = 0 => e = Ending(exec[r], verdict)
  <2> DEFINE ending == Ending(exec[r], verdict)
  <2>1. /\ ending \in Closing /\ ending.pc = "finish" /\ ending.verdict = verdict
        /\ ending.broken = exec[r].broken /\ ending.calls = 0
    BY <1>2 DEF Ending, Closing, Acting, Late
  <2>2. n \in Nat
    OBVIOUS
  <2> HIDE DEF ending
  <2>3. e = [ending EXCEPT !.calls = n]
    BY DEF ending
  <2> HIDE DEF e
  <2>4. e \in Closing /\ e.pc = "finish" /\ e.verdict = verdict /\ e.broken = exec[r].broken /\ e.calls = n
    BY <2>1, <2>2, <2>3 DEF Closing
  <2>5. n = 0 => e = ending
    BY <2>1, <2>3 DEF Closing
  <2> QED
    BY <2>4, <2>5 DEF ending
<1>5. CASE n = 0
  <2>1. Ends(r, verdict)
    BY <1>1, <1>3, <1>4, <1>5 DEF Ends, Goto
  <2> QED
    BY <1>1, <2>1, EndsKeeps
<1>6. CASE n # 0
  <2> DEFINE types == <<"tool_call", "tool_result">>
             row == run[r]
             lost == [e EXCEPT !.broken = TRUE]
  <2>1. Emits(r, types, e) /\ n = 1
    BY <1>3, <1>6
  <2> HIDE DEF e
  <2>2. lost \in Closing
    BY <1>4 DEF Closing
  <2>3. ExecOK(e) /\ ExecOK(lost) /\ e.pc \notin Early
    BY <1>4, <2>2 DEF ExecOK, Early
  <2>4. types \in Seq(Events \ {"started"}) /\ types # <<>> /\ Len(types) = 2
    BY DEF Events
  <2>5. \A i \in 1..Len(types) : types[i] \notin Settled
    BY DEF Settled
  <2>6. 1 \in 1..Len(types) /\ 2 \in 1..Len(types) /\ types[1] = "tool_call" /\ types[2] = "tool_result"
    OBVIOUS
  <2> HIDE DEF types, lost
  <2>7. ASSUME ~exec[r].broken, NEW all, Follows(all, log[r], types) PROVE TraceOK(row, all, e)
    <3>1. Len(log[r]) = 2 /\ Told(log[r], 2)
      BY <1>1, <1>2, <2>7 DEF TraceOK
    <3>2. Len(all) = 4 /\ all[2] = log[r][2] /\ all[3].type = "tool_call" /\ all[4].type = "tool_result"
      BY <2>4, <2>6, <2>7, <3>1 DEF Follows
    <3>3. Told(all, 4)
      <4>1. all[2].type = "prompt_resolved"
        BY <3>1, <3>2 DEF Told
      <4>2. \A i \in 3..4 : i = 3 \/ i = 4
        OBVIOUS
      <4>3. \A i \in 3..4 : all[i].type = IF i % 2 = 1 THEN "tool_call" ELSE "tool_result"
        BY <3>2, <4>2
      <4> QED
        BY <3>2, <4>1, <4>3 DEF Told
    <3> QED
      BY <1>4, <2>1, <3>2, <3>3 DEF TraceOK
  <2>8. ~exec[r].broken => TracesWith(row, log[r], types, e)
    BY <2>7 DEF TracesWith
  <2>9. row \in RunRows /\ row.status = "running" /\ row.of = run[r].of
    BY <1>2, ExecutionsRun
  <2>10. run' = IF log' # log THEN [run EXCEPT ![r] = row] ELSE run
    BY <1>1 DEF AgentsInv, RunsOK
  <2>11. run[r].of # NoRun /\ run[run[r].of].skill # NoSkill => row.skill = run[run[r].of].skill
    BY DEF AgentsInv, RetriesOK
  <2>12. ExecOK([e EXCEPT !.broken = TRUE]) /\ e \in Acting \union Closing /\ (e.pc \in Early => e.skill = exec[r].skill)
    BY <1>4, <2>3 DEF lost
  <2>13. UNCHANGED <<published, cancels, canceling, up>>
    BY <1>1
  <2> HIDE DEF row
  <2> QED
    BY <1>1, <1>4, <2>1, <2>3, <2>4, <2>5, <2>8, <2>9, <2>10, <2>11, <2>12, <2>13, EmitsKeeps
<1> QED
  BY <1>5, <1>6

LEMMA StepKeeps ==
  ASSUME AgentsInv, NEW r \in Runs, Step(r)
  PROVE  AgentsInv'
BY AttachKeeps, EndingsKeep, ResolveKeeps, PlansKeep, OfflineKeeps, ToolCallKeeps, ToolResultKeeps,
   SecondRoundKeeps, EnsureWritesKeeps, FinishReadKeeps, FinishSaveKeeps, ProductionSaveKeeps,
   FinishFailsKeeps, FallbackKeeps DEF Step

-----------------------------------------------------------------------------
(* The steps of all runs, and new runs.                                    *)

\* The sets of runs are equal, and so is everything said of each.
LEMMA AllRunsMove ==
  ASSUME AgentsInv, run' = [r \in Runs |-> run'[r]], exec' = [r \in Runs |-> exec'[r]], UNCHANGED log,
         \A r \in Runs : /\ RunOK(run'[r], log[r], exec'[r])
                         /\ run'[r] = NoRow <=> run[r] = NoRow
                         /\ run'[r].of = run[r].of /\ run'[r].skill = run[r].skill
                         /\ run'[r].status # "running" \/ run[r].status = "running"
                         /\ run[r].status # "running" => run'[r].status = run[r].status
                         /\ exec'[r].pc \in Early => exec[r].pc \in Early /\ exec'[r].skill = exec[r].skill
  PROVE  RunsOK' /\ RetriesOK'
<1>1. RunsOK /\ RetriesOK
  BY DEF AgentsInv
<1>2. log' = [r \in Runs |-> log'[r]]
  BY <1>1 DEF RunsOK
<1>3. RunsOK'
  <2>1. {s \in Runs : run'[s] # NoRow} = {s \in Runs : run[s] # NoRow}
    OBVIOUS
  <2>2. ASSUME NEW s \in Runs PROVE RunOK(run'[s], log'[s], exec'[s])
    OBVIOUS
  <2>3. \A s \in Runs : RunOK(run[s], log[s], exec[s])'
    BY <2>2 DEF RunOK, ExecOK, LogOK, TraceOK, RunRows, NoRow, NoExec, Past, Closing, Acting, EventRows, Told,
           Settled, Events, Runs, Early, Late, Contexts, NoRun
  <2>4. RunsOK => \E k \in 0..MaxRuns : {s \in Runs : run[s] # NoRow} = 1..k
    BY DEF RunsOK
  <2> QED
    BY <1>1, <1>2, <2>1, <2>3, <2>4 DEF RunsOK
<1>4. \A s \in Runs : run[s].of \in Runs \union {NoRun}
  BY <1>1 DEF RunsOK, RunOK, RunRows
<1>5. ASSUME NEW s \in Runs, run'[s].of # NoRun
      PROVE  /\ run'[run'[s].of].status \in {"failed", "canceled"}
             /\ run'[run'[s].of].skill # NoSkill =>
                  /\ run'[s].skill = run'[run'[s].of].skill
                  /\ exec'[s].pc \in Early => exec'[s].skill = run'[run'[s].of].skill
  <2> DEFINE q == run[s].of
  <2>1. run'[s].of = q /\ q \in Runs
    BY <1>4, <1>5
  <2>2. /\ run[q].status \in {"failed", "canceled"}
        /\ run[q].skill # NoSkill => /\ run[s].skill = run[q].skill
                                     /\ exec[s].pc \in Early => exec[s].skill = run[q].skill
    BY <1>1, <1>5, <2>1 DEF RetriesOK
  <2>3. run'[q].status = run[q].status /\ run'[q].skill = run[q].skill /\ run'[s].skill = run[s].skill
    BY <2>1, <2>2
  <2>4. exec'[s].pc \in Early => exec[s].pc \in Early /\ exec'[s].skill = exec[s].skill
    OBVIOUS
  <2> HIDE DEF q
  <2> QED
    BY <2>1, <2>2, <2>3, <2>4
<1>6. ASSUME NEW s \in Runs, NEW t \in Runs, run'[s].of # NoRun, run'[s].of = run'[t].of,
             run'[s].status = "running", run'[t].status = "running"
      PROVE  s = t
  <2>1. run[s].of = run'[s].of /\ run[t].of = run'[t].of /\ run[s].status = "running" /\ run[t].status = "running"
    BY <1>6
  <2> QED
    BY <1>1, <1>6, <2>1 DEF RetriesOK
<1>7. RetriesOK'
  BY <1>5, <1>6 DEF RetriesOK, NoRun, Early
<1> QED
  BY <1>3, <1>7

\* Nothing happens to the runs.
LEMMA RunsStay ==
  ASSUME AgentsInv, UNCHANGED <<run, log, exec>>
  PROVE  RunsOK' /\ RetriesOK'
<1>1. RunsOK
  BY DEF AgentsInv
<1>2. \A r \in Runs : RunOK(run'[r], log[r], exec'[r])
  BY <1>1 DEF RunsOK
<1> QED
  BY <1>1, <1>2, AllRunsMove DEF RunsOK

LEMMA CancelReadKeeps ==
  ASSUME AgentsInv, NEW c \in Callers, NEW r \in Runs, CancelRead(c, r)
  PROVE  AgentsInv'
<1>1. RunsOK' /\ RetriesOK'
  BY RunsStay DEF CancelRead
<1>2. ServerOK /\ run[r].status = "running"
  BY DEF AgentsInv, CancelRead
<1>3. run[r] # NoRow
  BY <1>2 DEF NoRow
<1>4. /\ canceling' = [canceling EXCEPT ![c] = r]
      /\ UNCHANGED <<run, log, published, exec, cancels, up, trouble>>
  BY DEF CancelRead
<1>5. ServerOK'
  BY <1>2, <1>3, <1>4 DEF ServerOK, Executing, NoRow, NoExec, Runs, NoRun
<1> QED
  BY <1>1, <1>5 DEF AgentsInv

LEMMA PublishKeeps ==
  ASSUME AgentsInv, Publish
  PROVE  AgentsInv'
<1>1. RunsOK' /\ RetriesOK'
  BY RunsStay DEF Publish
<1>2. ServerOK'
  BY DEF AgentsInv, ServerOK, Publish, Executing, NoRow, NoExec, Runs, NoRun
<1> QED
  BY <1>1, <1>2 DEF AgentsInv

\* A crash ends every execution.
LEMMA CrashKeeps ==
  ASSUME AgentsInv, Crash
  PROVE  AgentsInv'
<1>1. RunsOK /\ ServerOK
  BY DEF AgentsInv
<1>2. /\ up' = FALSE /\ exec' = [r \in Runs |-> NoExec] /\ cancels' = {}
      /\ canceling' = [c \in Callers |-> NoRun] /\ UNCHANGED <<run, log, published>>
      /\ trouble' \in 0..MaxTrouble
  BY <1>1, AgentsAssumption DEF Crash, Trouble, ServerOK
<1>3. NoExec.pc = "none" /\ "none" \notin Early /\ ExecOK(NoExec)
  BY DEF NoExec, Early, ExecOK
<1>4. ASSUME NEW r \in Runs
      PROVE  RunOK(run'[r], log[r], exec'[r]) /\ exec'[r].pc \notin Early
  <2>1. RunOK(run[r], log[r], exec[r])
    BY <1>1 DEF RunsOK
  <2>2. TraceOK(run[r], log[r], NoExec)
    BY <1>3 DEF TraceOK
  <2>3. RunOK(run[r], log[r], NoExec)
    BY <1>3, <2>1, <2>2 DEF RunOK
  <2> QED
    BY <1>2, <1>3, <2>3
<1>5. RunsOK' /\ RetriesOK'
  <2>1. run' = [r \in Runs |-> run'[r]] /\ exec' = [r \in Runs |-> exec'[r]] /\ UNCHANGED log
    BY <1>1, <1>2 DEF RunsOK
  <2> QED
    BY <1>2, <1>4, <2>1, AllRunsMove
<1>6. ServerOK'
  BY <1>1, <1>2 DEF ServerOK, Executing, NoRow, NoExec, Runs, NoRun
<1> QED
  BY <1>5, <1>6 DEF AgentsInv

\* The next start fails what was running: its log has no terminal event.
LEMMA BootKeeps ==
  ASSUME AgentsInv, Boot
  PROVE  AgentsInv'
<1>1. RunsOK /\ ServerOK
  BY DEF AgentsInv
<1>2. /\ up' = TRUE /\ run' = [r \in Runs |-> Interrupt(run[r])]
      /\ UNCHANGED <<log, published, exec, cancels, canceling, trouble>>
      /\ \A r \in Runs : exec[r] = NoExec
  BY <1>1 DEF Boot, ServerOK
<1>3. NoExec.pc = "none" /\ "none" \notin Early
  BY DEF NoExec, Early
<1>4. ASSUME NEW r \in Runs
      PROVE  /\ RunOK(run'[r], log[r], exec'[r]) /\ exec'[r].pc \notin Early
             /\ run'[r] = NoRow <=> run[r] = NoRow
             /\ run'[r].of = run[r].of /\ run'[r].skill = run[r].skill /\ run'[r].status # "running"
             /\ run[r].status # "running" => run'[r].status = run[r].status
  <2> DEFINE row == run[r]
             after == Interrupt(row)
  <2>1. RunOK(row, log[r], NoExec) /\ row \in RunRows /\ exec'[r] = NoExec /\ run'[r] = after
    BY <1>1, <1>2 DEF RunsOK, RunOK
  <2>2. CASE row.status # "running"
    BY <1>3, <2>1, <2>2 DEF Interrupt
  <2>3. CASE row.status = "running"
    <3>1. /\ after \in RunRows /\ after.status = "failed" /\ after.of = row.of /\ after.skill = row.skill
      BY <2>1, <2>3 DEF Interrupt, RunRows, Settled
    <3>2. row # NoRow /\ after # NoRow
      BY <2>3, <3>1 DEF NoRow
    <3> HIDE DEF row, after
    <3>3. LogOK(after, log[r])
      BY <2>1, <2>3, <3>1 DEF RunOK, LogOK, Settled
    <3>4. TraceOK(after, log[r], NoExec)
      BY <1>3 DEF TraceOK
    <3>5. RunOK(after, log[r], NoExec)
      BY <1>3, <2>1, <3>1, <3>2, <3>3, <3>4 DEF RunOK
    <3>6. run'[r] = after /\ run[r] = row /\ exec'[r] = NoExec
      BY <2>1 DEF row
    <3> QED
      BY <1>3, <2>3, <3>1, <3>2, <3>5, <3>6
  <2> QED
    BY <2>2, <2>3
<1>5. RunsOK' /\ RetriesOK'
  <2>1. run' = [r \in Runs |-> run'[r]] /\ exec' = [r \in Runs |-> exec'[r]] /\ UNCHANGED log
    BY <1>1, <1>2 DEF RunsOK
  <2> QED
    BY <1>4, <2>1, AllRunsMove
<1>6. ServerOK'
  <2>1. \A r \in Runs : run[r] # NoRow => run'[r] # NoRow
    BY <1>4
  <2>2. \A c \in Callers : canceling'[c] # NoRun => canceling'[c] \in Runs /\ run'[canceling'[c]] # NoRow
    BY <1>1, <1>2, <2>1 DEF ServerOK
  <2> QED
    BY <1>1, <1>2, <2>2 DEF ServerOK, Executing, NoRow, NoExec, Runs, NoRun
<1> QED
  BY <1>5, <1>6 DEF AgentsInv

\* A new run takes the next row, with one event; a retry of a source that has
\* settled, and that no running retry replaces, has its skill.
LEMMA InsertedKeeps ==
  ASSUME AgentsInv, up = TRUE, NEW r \in Runs, IsNext(r), NEW way \in Ways, NEW source \in Runs \union {NoRun},
         NEW skill \in Skills \union {NoSkill}, Inserted(r, way, source, skill),
         source # NoRun => /\ run[source].status \in {"failed", "canceled"}
                           /\ skill = run[source].skill /\ ~ActiveRetry(source)
  PROVE  AgentsInv'
<1> DEFINE row == [NoRow EXCEPT !.status = "running", !.way = way, !.of = source, !.skill = skill]
           events == Rows(0, <<"started">>)
           e == Begun(way, skill)
<1>1. RunsOK /\ RetriesOK /\ ServerOK
  BY DEF AgentsInv
<1>2. /\ run' = [run EXCEPT ![r] = row] /\ log' = [log EXCEPT ![r] = events] /\ exec' = [exec EXCEPT ![r] = e]
      /\ UNCHANGED <<published, cancels, canceling, up, trouble>>
  BY DEF Inserted
<1>3. PICK k \in 0..MaxRuns : {s \in Runs : run[s] # NoRow} = 1..k
  BY <1>1 DEF RunsOK
<1>4. r = k + 1 /\ k + 1 \in 0..MaxRuns
  <2>1. k \in Nat /\ Cardinality(1..k) = k
    BY <1>3, AgentsAssumption, FS_Interval
  <2>2. Cardinality({s \in Runs : run[s] # NoRow}) = k
    BY <1>3, <2>1
  <2>3. r = 1 + k /\ r \in 1..MaxRuns
    BY <2>2 DEF IsNext, Runs
  <2> QED
    BY <2>1, <2>3, AgentsAssumption
<1>5. run[r] = NoRow /\ exec[r] = NoExec
  <2>1. r \notin 1..k
    BY <1>3, <1>4
  <2>2. run[r] = NoRow
    BY <1>3, <2>1
  <2> QED
    BY <1>1, <2>2 DEF RunsOK, RunOK
<1>6. /\ row \in RunRows /\ row.status = "running" /\ row.of = source /\ row.skill = skill /\ row # NoRow
  BY DEF NoRow, RunRows, Settled
<1>7. e \in Acting /\ ExecOK(e) /\ e.pc \in {"attach", "resolve"} /\ e.skill = skill /\ e # NoExec
  BY DEF Begun, ExecOK, Acting, Early, Contexts, NoExec
<1>8. events \in Seq(EventRows) /\ Len(events) = 1 /\ events[1].sequence = 1 /\ events[1].type = "started"
  BY DEF Rows, EventRows, Events
<1> HIDE DEF row, events, e
<1>9. RunOK(row, events, e)
  <2>1. LogOK(row, events)
    BY <1>8 DEF LogOK, Settled
  <2>2. TraceOK(row, events, e)
    BY <1>7, <1>8 DEF TraceOK
  <2>3. events # <<>>
    BY <1>8
  <2> QED
    BY <1>6, <1>7, <2>1, <2>2, <2>3 DEF RunOK
<1>10. /\ run'[r] = row /\ log'[r] = events /\ exec'[r] = e
       /\ \A s \in Runs : s # r => run'[s] = run[s] /\ log'[s] = log[s] /\ exec'[s] = exec[s]
       /\ run' = [s \in Runs |-> run'[s]] /\ log' = [s \in Runs |-> log'[s]] /\ exec' = [s \in Runs |-> exec'[s]]
  BY <1>1, <1>2 DEF RunsOK
<1>11. RunsOK'
  <2>1. ASSUME NEW s \in Runs PROVE RunOK(run'[s], log'[s], exec'[s])
    BY <1>1, <1>9, <1>10 DEF RunsOK
  <2>2. \A s \in Runs : RunOK(run[s], log[s], exec[s])'
    BY <2>1 DEF RunOK, ExecOK, LogOK, TraceOK, RunRows, NoRow, NoExec, Past, Closing, Acting, EventRows, Told,
                Settled, Events, Runs, Early, Late, Contexts, NoRun
  <2>3. {s \in Runs : run'[s] # NoRow} = 1..(k + 1)
    <3>1. ASSUME NEW s \in Runs PROVE run'[s] # NoRow <=> s \in 1..(k + 1)
      <4>1. CASE s = r
        BY <1>4, <1>6, <1>10, <4>1
      <4>2. CASE s # r
        <5>1. run[s] # NoRow <=> s \in 1..k
          BY <1>3
        <5>2. s \in 1..k <=> s \in 1..(k + 1)
          BY <1>3, <1>4, <4>2, AgentsAssumption DEF Runs
        <5> QED
          BY <1>10, <4>2, <5>1, <5>2
      <4> QED
        BY <4>1, <4>2
    <3>2. 1..(k + 1) \subseteq Runs
      BY <1>3, <1>4, AgentsAssumption DEF Runs
    <3> QED
      BY <3>1, <3>2
  <2> QED
    BY <1>4, <1>10, <2>2, <2>3 DEF RunsOK
<1>12. \A s \in Runs : run[s].of \in Runs \union {NoRun}
  BY <1>1 DEF RunsOK, RunOK, RunRows
<1>13. ASSUME NEW s \in Runs, run'[s].of # NoRun
       PROVE  /\ run'[run'[s].of].status \in {"failed", "canceled"}
              /\ run'[run'[s].of].skill # NoSkill =>
                   /\ run'[s].skill = run'[run'[s].of].skill
                   /\ exec'[s].pc \in Early => exec'[s].skill = run'[run'[s].of].skill
  <2>1. CASE s = r
    <3>1. run'[s].of = source /\ source # NoRun
      BY <1>6, <1>10, <1>13, <2>1
    <3>2. source # r
      BY <1>5, <3>1 DEF NoRow
    <3>3. run'[source] = run[source]
      BY <1>10, <3>1, <3>2
    <3> QED
      BY <1>6, <1>7, <1>10, <2>1, <3>1, <3>3
  <2>2. CASE s # r
    <3> DEFINE q == run[s].of
    <3>1. run'[s] = run[s] /\ exec'[s] = exec[s] /\ run'[s].of = q /\ q \in Runs /\ q # NoRun
      BY <1>10, <1>12, <1>13, <2>2
    <3>2. /\ run[q].status \in {"failed", "canceled"}
          /\ run[q].skill # NoSkill => /\ run[s].skill = run[q].skill
                                       /\ exec[s].pc \in Early => exec[s].skill = run[q].skill
      BY <1>1, <3>1 DEF RetriesOK
    <3>3. run'[q] = run[q]
      BY <1>5, <1>10, <3>1, <3>2 DEF NoRow
    <3> HIDE DEF q
    <3> QED
      BY <3>1, <3>2, <3>3
  <2> QED
    BY <2>1, <2>2
<1>14. ASSUME NEW s \in Runs, NEW t \in Runs, run'[s].of # NoRun, run'[s].of = run'[t].of,
              run'[s].status = "running", run'[t].status = "running"
       PROVE  s = t
  <2>1. CASE s # r /\ t # r
    <3>1. run'[s] = run[s] /\ run'[t] = run[t]
      BY <1>10, <2>1
    <3> QED
      BY <1>1, <1>14, <3>1 DEF RetriesOK
  <2>2. ASSUME NEW u \in Runs, u # r, run'[u].of = run'[r].of, run'[u].status = "running", run'[u].of # NoRun
        PROVE  FALSE
    <3>1. run[u].of = source /\ run[u].status = "running" /\ source # NoRun
      BY <1>6, <1>10, <2>2
    <3> QED
      BY <3>1 DEF ActiveRetry
  <2> QED
    BY <1>14, <2>1, <2>2
<1>15. RetriesOK'
  BY <1>13, <1>14 DEF RetriesOK, NoRun, Early
<1>16. ServerOK'
  <2>1. ASSUME NEW s \in cancels' PROVE exec'[s].pc \notin {"none", "over"}
    <3>1. s \in Runs /\ exec[s].pc \notin {"none", "over"}
      BY <1>1, <1>2, <2>1 DEF ServerOK, Executing
    <3>2. s # r
      BY <1>5, <3>1 DEF NoExec
    <3> QED
      BY <1>10, <3>1, <3>2
  <2>2. ASSUME NEW c \in Callers, canceling'[c] # NoRun
        PROVE  canceling'[c] \in Runs /\ run'[canceling'[c]] # NoRow
    BY <1>1, <1>2, <1>5, <1>10, <2>2 DEF ServerOK
  <2> QED
    BY <1>1, <1>2, <2>1, <2>2 DEF ServerOK, Executing, Runs, NoRow, NoRun
<1> QED
  BY <1>11, <1>15, <1>16 DEF AgentsInv

LEMMA StartKeeps ==
  ASSUME AgentsInv, NEW r \in Runs, NEW way \in Ways, Start(r, way)
  PROVE  AgentsInv'
<1>1. up = TRUE
  BY DEF Start, AgentsInv, ServerOK
<1>2. IsNext(r) /\ Inserted(r, way, NoRun, NoSkill)
  BY DEF Start
<1> QED
  BY <1>1, <1>2, InsertedKeeps

LEMMA RetryKeeps ==
  ASSUME AgentsInv, NEW r \in Runs, NEW source \in Runs, Retry(r, source)
  PROVE  AgentsInv'
<1> DEFINE skill == KeptSkill(source)
<1>1. up = TRUE /\ "retry" \in Ways
  BY DEF Retry, AgentsInv, ServerOK
<1>2. /\ IsNext(r) /\ Inserted(r, "retry", source, skill)
      /\ run[source].status \in {"failed", "canceled"} /\ ~ActiveRetry(source)
  BY DEF Retry
<1>3. skill = run[source].skill /\ skill \in Skills \union {NoSkill}
  BY DEF KeptSkill, AgentsInv, RunsOK, RunOK, RunRows
<1> HIDE DEF skill
<1> QED
  BY <1>1, <1>2, <1>3, InsertedKeeps

-----------------------------------------------------------------------------
(* The theorems.                                                           *)

\* At any time each run's row, log and execution agree, retries have settled
\* sources with their skill, and the server's tables name runs that exist.
THEOREM AgentsAreSound == Spec => []AgentsInv
<1>1. Init => AgentsInv
  <2> SUFFICES ASSUME Init PROVE AgentsInv
    OBVIOUS
  <2>1. ExecOK(NoExec) /\ NoRow \in RunRows /\ NoRow.status = "none" /\ NoExec.pc = "none" /\ NoRow.of = NoRun
    BY DEF ExecOK, NoExec, NoRow, RunRows
  <2>2. LogOK(NoRow, <<>>) /\ TraceOK(NoRow, <<>>, NoExec)
    <3>1. <<>> \in Seq(EventRows) /\ Len(<<>>) = 0
      OBVIOUS
    <3> QED
      BY <2>1, <3>1 DEF LogOK, TraceOK
  <2>3. RunOK(NoRow, <<>>, NoExec)
    BY <2>1, <2>2 DEF RunOK
  <2>4. \A r \in Runs : run[r] = NoRow /\ log[r] = <<>> /\ exec[r] = NoExec
    BY DEF Init
  <2>5. RunsOK
    <3>1. {r \in Runs : run[r] # NoRow} = 1..0 /\ 0 \in 0..MaxRuns
      BY <2>4, AgentsAssumption
    <3>2. run = [r \in Runs |-> run[r]] /\ log = [r \in Runs |-> log[r]] /\ exec = [r \in Runs |-> exec[r]]
      BY DEF Init
    <3> QED
      BY <2>3, <2>4, <3>1, <3>2 DEF RunsOK
  <2>6. RetriesOK
    BY <2>1, <2>4 DEF RetriesOK
  <2>7. ServerOK
    BY <2>4, AgentsAssumption DEF Init, ServerOK
  <2> QED
    BY <2>5, <2>6, <2>7 DEF AgentsInv
<1>2. AgentsInv /\ [Next]_vars => AgentsInv'
  <2> SUFFICES ASSUME AgentsInv, [Next]_vars PROVE AgentsInv'
    OBVIOUS
  <2>1. CASE UNCHANGED vars
    <3>1. RunsOK' /\ RetriesOK'
      BY <2>1, RunsStay DEF vars
    <3>2. ServerOK'
      BY <2>1 DEF vars, AgentsInv, ServerOK, Executing, NoRow, NoExec, Runs, NoRun
    <3> QED
      BY <3>1, <3>2 DEF AgentsInv
  <2>2. CASE Next
    BY <2>2, StartKeeps, RetryKeeps, StepKeeps, ContextEndsKeeps, CancelReadKeeps, CancelWriteKeeps, PublishKeeps,
       CrashKeeps, BootKeeps DEF Next
  <2> QED
    BY <2>1, <2>2
<1> QED
  BY <1>1, <1>2, PTL DEF Spec

\* Every variable keeps its type: a status of the table, an event of the
\* stream, a plan of reads and writes.
THEOREM AgentsKeepTheirTypes == Spec => []AgentsTypeOK
<1>1. AgentsInv => AgentsTypeOK
  <2> SUFFICES ASSUME AgentsInv PROVE AgentsTypeOK
    OBVIOUS
  <2>1. RunsOK /\ ServerOK
    BY DEF AgentsInv
  <2>2. \A r \in Runs : run[r] \in RunRows /\ log[r] \in Seq(EventRows) /\ ExecOK(exec[r])
    BY <2>1 DEF RunsOK, RunOK, LogOK
  <2>3. run \in [Runs -> RunRows]
    BY <2>1, <2>2 DEF RunsOK
  <2>4. \A r \in Runs : \A i \in DOMAIN log[r] : log[r][i] \in EventRows
    BY <2>2
  <2>5. ASSUME NEW r \in Runs
        PROVE  \/ exec[r] = NoExec
               \/ exec[r].pc = "over" /\ exec[r].calls \in Nat
               \/ exec[r].pc \in {"finish", "save", "fallback"} /\ exec[r].calls \in Nat
               \/ /\ exec[r].pc \in {"attach", "resolve", "plan", "tools", "result"}
                  /\ exec[r].todo \in Seq({"read", "write"})
                  /\ exec[r].calls \in Nat
    BY <2>2 DEF ExecOK, Past, Closing, Acting, Early, Late
  <2> QED
    BY <2>1, <2>3, <2>4, <2>5 DEF AgentsTypeOK, RunRows, EventRows, ServerOK
<1> QED
  BY <1>1, AgentsAreSound, PTL

\* The numbers of a log have no gap, its first event is the start, and its
\* terminal event is the last one and says what the row says.
THEOREM LogsTellTheRun == Spec => []LogTellsTheRun
<1>1. AgentsInv => LogTellsTheRun
  BY DEF AgentsInv, RunsOK, RunOK, LogOK, LogTellsTheRun
<1> QED
  BY <1>1, AgentsAreSound, PTL

\* A retry neither runs beside its source nor beside another retry of it, and
\* works with the skill its source recorded.
THEOREM RetriesTakeTheirSourcesPlace == Spec => []RetriesReplaceTheirSource
<1>1. AgentsInv => RetriesReplaceTheirSource
  <2> SUFFICES ASSUME AgentsInv PROVE RetriesReplaceTheirSource
    OBVIOUS
  <2>1. RetriesOK /\ \A r \in Runs : Executing(r) => run[r].status = "running"
    BY ExecutionsRun DEF AgentsInv
  <2>2. \A r \in Runs : r # NoRun
    BY AgentsAssumption DEF Runs, NoRun
  <2>3. RetryWaitsForItsSource
    BY <2>1, <2>2 DEF RetriesOK, RetryWaitsForItsSource
  <2>4. RetriesKeepTheirSkill
    BY <2>1, <2>2 DEF RetriesOK, RetriesKeepTheirSkill
  <2> QED
    BY <2>3, <2>4 DEF RetriesReplaceTheirSource
<1> QED
  BY <1>1, AgentsAreSound, PTL

\* The log of a completed run is complete: no event of its execution is missing
\* or out of order.
THEOREM CompletionsAreRecorded == Spec => []CompletedRunsAreRecorded
<1>1. AgentsInv => CompletedRunsAreRecorded
  <2> SUFFICES ASSUME AgentsInv, NEW r \in Runs, run[r].status = "completed", exec[r].pc = "over"
               PROVE  [i \in DOMAIN log[r] |-> log[r][i].type] =
                        <<"started", "prompt_resolved">>
                        \o [i \in 1..(2 * exec[r].calls) |-> IF i % 2 = 1 THEN "tool_call" ELSE "tool_result"]
                        \o <<"completed">>
    BY DEF CompletedRunsAreRecorded
  <2> DEFINE calls == exec[r].calls
             m == 2 * calls
             events == log[r]
             types == [i \in DOMAIN events |-> events[i].type]
             head == <<"started", "prompt_resolved">>
             middle == [i \in 1..m |-> IF i % 2 = 1 THEN "tool_call" ELSE "tool_result"]
             end == <<"completed">>
             all == head \o middle \o end
  <2>1. RunOK(run[r], events, exec[r])
    BY DEF AgentsInv, RunsOK
  <2>2. exec[r] \in Past
    BY <2>1 DEF RunOK, ExecOK, NoExec, Closing, Acting, Early, Late
  <2>3. calls \in Nat /\ m \in Nat /\ 2 + m = 2 + 2 * calls /\ 3 + m = 3 + 2 * calls
    BY <2>2 DEF Past
  <2>4. /\ Len(events) = 3 + m /\ Told(events, 2 + m) /\ events[3 + m].type = "completed"
        /\ events \in Seq(EventRows) /\ events[1].type = "started"
    BY <2>1, <2>3 DEF RunOK, TraceOK, LogOK
  <2> HIDE DEF m, events
  <2>5. /\ head \in Seq(Events) /\ Len(head) = 2 /\ head[1] = "started" /\ head[2] = "prompt_resolved"
        /\ end \in Seq(Events) /\ Len(end) = 1 /\ end[1] = "completed"
    BY DEF Events, Settled
  <2>6. middle \in Seq(Events) /\ Len(middle) = m
    <3>1. middle \in [1..m -> Events]
      BY <2>3 DEF Events
    <3> QED
      BY <2>3, <3>1
  <2>7. \A i \in 1..m : middle[i] = IF i % 2 = 1 THEN "tool_call" ELSE "tool_result"
    OBVIOUS
  <2> HIDE DEF head, middle, end
  <2>8. /\ head \o middle \in Seq(Events) /\ Len(head \o middle) = 2 + m
        /\ \A i \in 1..(2 + m) : (head \o middle)[i] = IF i <= 2 THEN head[i] ELSE middle[i - 2]
    <3>1. /\ head \o middle \in Seq(Events) /\ Len(head \o middle) = Len(head) + Len(middle)
          /\ \A i \in 1..Len(head) + Len(middle) :
               (head \o middle)[i] = IF i <= Len(head) THEN head[i] ELSE middle[i - Len(head)]
      BY <2>5, <2>6, ConcatProperties
    <3>2. Len(head) = 2 /\ Len(middle) = m
      BY <2>5, <2>6
    <3> QED
      BY <3>1, <3>2
  <2>9. /\ all \in Seq(Events) /\ Len(all) = 3 + m
        /\ \A i \in 1..(3 + m) : all[i] = IF i <= 2 + m THEN (head \o middle)[i] ELSE end[i - (2 + m)]
    <3> DEFINE most == head \o middle
    <3>1. most \in Seq(Events) /\ Len(most) = 2 + m
      BY <2>8
    <3> HIDE DEF most
    <3>2. /\ most \o end \in Seq(Events) /\ Len(most \o end) = Len(most) + Len(end)
          /\ \A i \in 1..Len(most) + Len(end) :
               (most \o end)[i] = IF i <= Len(most) THEN most[i] ELSE end[i - Len(most)]
      BY <2>5, <3>1, ConcatProperties
    <3>3. Len(most) + Len(end) = 3 + m
      BY <2>3, <2>5, <3>1
    <3>4. /\ most \o end \in Seq(Events) /\ Len(most \o end) = 3 + m
          /\ \A i \in 1..(3 + m) : (most \o end)[i] = IF i <= 2 + m THEN most[i] ELSE end[i - (2 + m)]
      BY <3>1, <3>2, <3>3
    <3> QED
      BY <3>4 DEF most
  <2> DEFINE most == head \o middle
  <2> HIDE DEF all, most
  <2>10. /\ \A i \in 1..(2 + m) : most[i] = IF i <= 2 THEN head[i] ELSE middle[i - 2]
         /\ \A i \in 1..(3 + m) : all[i] = IF i <= 2 + m THEN most[i] ELSE end[i - (2 + m)]
    BY <2>8, <2>9 DEF most
  <2>11. types = [i \in 1..(3 + m) |-> events[i].type]
    BY <2>3, <2>4
  <2>12. ASSUME NEW i \in 1..(3 + m) PROVE all[i] = events[i].type
    <3>1. CASE i = 1 \/ i = 2
      <4>1. all[i] = head[i]
        BY <2>3, <2>10, <3>1
      <4> QED
        BY <2>4, <2>5, <3>1, <4>1 DEF Told
    <3>2. CASE i \in 3..(2 + m)
      <4>1. i - 2 \in 1..m /\ ((i - 2) % 2 = 1 <=> i % 2 = 1)
        BY <2>3, <3>2
      <4>2. all[i] = middle[i - 2]
        BY <2>3, <2>10, <3>2
      <4>3. middle[i - 2] = IF i % 2 = 1 THEN "tool_call" ELSE "tool_result"
        BY <2>7, <4>1
      <4>4. events[i].type = IF i % 2 = 1 THEN "tool_call" ELSE "tool_result"
        BY <2>4, <3>2 DEF Told
      <4> QED
        BY <4>2, <4>3, <4>4
    <3>3. CASE i = 3 + m
      <4>1. all[i] = end[1]
        BY <2>3, <2>10, <3>3
      <4> QED
        BY <2>4, <2>5, <3>3, <4>1
    <3> QED
      BY <2>3, <3>1, <3>2, <3>3
  <2>13. all = [i \in 1..(3 + m) |-> all[i]]
    BY <2>3, <2>9
  <2>14. types = all
    BY <2>11, <2>12, <2>13
  <2> QED
    BY <2>14 DEF all, head, middle, end, m, events
<1> QED
  BY <1>1, AgentsAreSound, PTL

=============================================================================
