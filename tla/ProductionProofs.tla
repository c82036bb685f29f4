-------------------------- MODULE ProductionProofs --------------------------
(***************************************************************************)
(* Proofs about Production.tla, for any number of runs, children,          *)
(* storyboards, workers, requests and failing queries.                     *)
(***************************************************************************)
EXTENDS Production, FiniteSetTheorems, NaturalsInduction, WellFoundedInduction, TLAPS

Pcs == {"idle", "selected", "claimed", "agent", "load", "make", "calling", "check", "count",
        "ensure", "advance", "complete", "defer", "release", "error", "fail", "clean", "restore"}
Alive == {"up", "stopping"}

\* Children and work are about storyboards that were saved.
OnSaved ==
  /\ \A j \in KidIds : kid[j].shots \subseteq 1..saved
  /\ \A w \in Workers : worker[w].todo \subseteq 1..saved

\* One process runs at a time, and only its worker works.
OneProcess ==
  /\ \A w \in Workers : worker[w].pc # "idle" => life[w] \in Alive
  /\ \A v, w \in Workers : (life[v] \in Alive /\ life[w] \in Alive) => v = w

\* A run that is not there has not begun, and only a run that succeeded is at
\* its last stage.
RunsInOrder ==
  \A r \in RunIds :
    /\ run[r].status = "absent" => run[r].stage = "script" /\ run[r].attempt = 1
    /\ run[r].status = "succeeded" <=> run[r].stage = "completed"

\* A request works on a run that is there; the row it retries has ended, and no
\* other request retries it.
CallersInOrder ==
  \A c \in Callers :
    /\ caller[c].pc # "idle" => caller[c].run \in RunIds /\ run[caller[c].run].status # "absent"
    /\ caller[c].pc = "retrying" =>
         /\ Ended(caller[c].run) /\ run[caller[c].run].attempt < MaxAttempts
         /\ \A d \in Callers : (caller[d].pc = "retrying" /\ caller[d].run = caller[c].run) => d = c

\* A worker works on the stage its run is in, until it has advanced the run,
\* and it comes only to the steps that this stage has.
OnStage == {"selected", "claimed", "agent", "load", "make", "calling", "check", "count", "ensure",
            "advance", "complete"}
ChildStages == DOMAIN Product

Fits(pc, stage) ==
  /\ pc \in OnStage => stage # "completed"
  /\ pc = "agent" => stage \notin ChildStages
  /\ pc \in {"load", "make", "calling", "check", "count", "ensure", "complete"} => stage \in ChildStages
  /\ pc \in {"check", "count", "ensure", "advance"} => stage # "merge"
  /\ pc = "calling" => stage \in ProviderStages
  /\ pc = "complete" => stage = "merge"

WorkerInOrder(w) ==
  LET pc == worker[w].pc
      r == worker[w].run IN
  /\ pc # "idle" => r \in RunIds /\ run[r].status # "absent"
  /\ pc \in OnStage => worker[w].stage = run[r].stage
  /\ Fits(pc, worker[w].stage)
  /\ pc = "calling" => worker[w].kid \in KidIds

WorkersInOrder == \A w \in Workers : WorkerInOrder(w)

\* Two active children of one target, but for frames and videos, are there only
\* because a user reopened one.
SharedOnce ==
  \A i, j \in KidIds :
    ( /\ i # j /\ Active(i) /\ Active(j) /\ kid[i].makes = kid[j].makes
      /\ kid[i].makes \notin {"frame", "video"}
      /\ kid[i].makes = "audio" => kid[i].shots = kid[j].shots )
    => kid[i].tries > 1 \/ kid[j].tries > 1

\* What a worker takes from one step to the next for the only run.
Carries(w) ==
  LET stage == worker[w].stage IN
  /\ (worker[w].pc = "advance" /\ stage \in {"frames", "videos", "compose"}) =>
       shots # {} /\ Lacking(Product[stage]) = {}
  /\ (worker[w].pc = "make" /\ stage = "merge") => worker[w].todo \in {{}, shots}
  /\ worker[w].pc = "complete" => film # {}

Furthest(r) == run[r].stage \in {"merge", "completed"}

\* The only run has the inputs of its stage; films, and the children that make
\* them, are of all storyboards and come last.
InputsOf(r) ==
  /\ After(r, {"videos", "tts", "compose", "merge", "completed"}) => shots # {} /\ Lacking("frame") = {}
  /\ After(r, {"tts", "compose", "merge", "completed"}) => Lacking("video") = {}
  /\ After(r, {"merge", "completed"}) => Lacking("composed") = {}
  /\ After(r, {"completed"}) => film # {}
  /\ film # {} => Furthest(r) /\ film = shots
  /\ \A j \in KidIds : (kid[j].phase # "absent" /\ kid[j].makes = "film") => Furthest(r) /\ kid[j].shots = shots
  /\ \A w \in Workers : Carries(w)

InputsInOrder == \A r \in RunIds : OnlyRun(r) => InputsOf(r)

ProductionInv ==
  /\ ProductionTypeOK /\ OnSaved
  /\ OneProcess /\ RunsInOrder /\ CallersInOrder /\ WorkersInOrder
  /\ SharedOnce /\ NoDuplicateChild
  /\ InputsInOrder
-----------------------------------------------------------------------------
(***************************************************************************)
(* The worker at the head of a list and the row at its end.                *)
(***************************************************************************)
\* Min and Max of numbers: the storyboard whose turn it is, and the job that a
\* target has.
LEMMA LeastMember ==
  ASSUME NEW S \in SUBSET Nat, S # {}
  PROVE  Min(S) \in S
<1>1. PICK x \in S : \A y \in S : ~ (<<y, x>> \in OpToRel(<, Nat))
  BY WFMin, NatLessThanWellFounded
<1>2. \A y \in S : ~ (y < x)
  BY <1>1 DEF OpToRel
<1>3. \A y \in S : x =< y
  BY <1>2
<1>4. QED
  BY <1>3 DEF Min

LEMMA GreatestMember ==
  ASSUME NEW n \in Nat, NEW S \in SUBSET (1..n), S # {}
  PROVE  Max(S) \in S
<1> DEFINE T == {n - x : x \in S}
<1>1. T \in SUBSET Nat /\ T # {}
  <2>1. \A x \in S : x \in 1..n /\ n - x \in Nat
    OBVIOUS
  <2>2. QED
    BY <2>1
<1>2. PICK t \in T : \A y \in T : ~ (<<y, t>> \in OpToRel(<, Nat))
  BY <1>1, WFMin, NatLessThanWellFounded
<1>3. PICK x \in S : t = n - x
  OBVIOUS
<1>4. ASSUME NEW y \in S
      PROVE  x >= y
  <2>1. n - y \in T /\ n - y \in Nat /\ t \in Nat
    BY <1>1
  <2>2. ~ (n - y < t)
    BY <1>2, <2>1 DEF OpToRel
  <2>3. QED
    BY <1>3, <2>2
<1>5. QED
  BY <1>4 DEF Max

-----------------------------------------------------------------------------
(***************************************************************************)
(* What a step does to a worker.                                           *)
(***************************************************************************)
WorkerRows == [pc : Pcs, run : RunIds \union {NoRun}, stage : Stages,
               todo : SUBSET (1..MaxShots), kid : KidIds \union {NoKid}]

\* Only w moves: it goes to another step with the run and the stage it has.
Onwards(w, pc) ==
  /\ worker' \in [Workers -> WorkerRows]
  /\ \A v \in Workers : v # w => worker'[v] = worker[v]
  /\ worker'[w].pc = pc /\ worker'[w].run = worker[w].run /\ worker'[w].stage = worker[w].stage
  /\ worker'[w].todo \subseteq worker[w].todo
  /\ pc # "make" => worker'[w].todo = {}

\* Only w moves: it has nothing to do any more.
GoneIdle(w) ==
  /\ worker' \in [Workers -> WorkerRows]
  /\ \A v \in Workers : v # w => worker'[v] = worker[v]
  /\ worker'[w] = Idle

LEMMA GotoFacts ==
  ASSUME worker \in [Workers -> WorkerRows], NEW w \in Workers, NEW pc \in Pcs, Goto(w, pc)
  PROVE  /\ Onwards(w, pc)
         /\ pc = "make" => worker'[w].todo = worker[w].todo
BY DEF Goto, Onwards, WorkerRows

LEMMA ReworkFacts ==
  ASSUME worker \in [Workers -> WorkerRows], NEW w \in Workers, NEW pc \in Pcs,
         NEW j \in KidIds \union {NoKid}, Rework(w, pc, j)
  PROVE  /\ worker' \in [Workers -> WorkerRows]
         /\ \A v \in Workers : v # w => worker'[v] = worker[v]
         /\ worker'[w].pc = pc /\ worker'[w].run = worker[w].run
         /\ worker'[w].stage = worker[w].stage
         /\ worker'[w].todo = worker[w].todo \ Piece(w)
BY DEF Rework, WorkerRows

LEMMA LeaveFacts ==
  ASSUME worker \in [Workers -> WorkerRows], NEW w \in Workers, Leave(w)
  PROVE  GoneIdle(w)
<1>1. Idle \in WorkerRows
  BY DEF Idle, WorkerRows, Pcs, Stages, NextStage
<1>2. QED
  BY <1>1 DEF Leave, GoneIdle

\* The pieces of a stage's work are storyboards of it.
LEMMA PieceIsWork ==
  ASSUME NEW w \in Workers, worker[w].todo \in SUBSET (1..MaxShots), worker[w].todo # {}
  PROVE  Piece(w) \subseteq worker[w].todo /\ Piece(w) # {}
<1>1. Min(worker[w].todo) \in worker[w].todo
  BY LeastMember
<1>2. QED
  BY <1>1 DEF Piece

-----------------------------------------------------------------------------
(***************************************************************************)
(* Which steps write what.                                                 *)
(***************************************************************************)
WritesRun(w) == Claim(w) \/ Advance(w) \/ Complete(w) \/ Defer(w) \/ Release(w)
                \/ HandleError(w) \/ FailRun(w)
WritesKid(w) == MakeMedia(w) \/ MakeShared(w) \/ CallDelivers(w) \/ CallFails(w) \/ FailClean(w)

LEMMA WhoWritesRun ==
  ASSUME [Next]_vars
  PROVE  \/ run' = run
         \/ \E w \in Workers : WritesRun(w)
         \/ \E r \in RunIds : Create(r)
         \/ \E c \in Callers, r \in RunIds : Cancel(c, r)
         \/ \E c \in Callers : RetryWrite(c)
         \/ TimeStep
<1>1. ASSUME NEW w \in Workers, WorkerStep(w)
      PROVE  run' = run \/ WritesRun(w)
  BY <1>1 DEF WorkerStep, StageStep, WritesRun, Select, Start, AgentReturns, Load, MakeSkip,
              MakeMedia, MakeShared, MakeRefused, MakeDone, CallAccepted, CallDelivers, CallFails,
              Check, Count, Ensure, QueryFails, Abandon, FailClean, FailRestore
<1>2. ASSUME NEW w \in Workers, AgentSaves(w)
      PROVE  run' = run
  BY <1>2 DEF AgentSaves
<1>3. CASE UserStep
  BY <1>3 DEF UserStep, RetryCheck, KidCancel, KidRetry
<1>4. ASSUME NEW c \in Callers, CallerStep(c)
      PROVE  run' = run \/ RetryWrite(c)
  BY <1>4 DEF CallerStep, CancelFinish, CallerDies
<1>5. ASSUME NEW j \in KidIds, Settling(j)
      PROVE  run' = run
  BY <1>5 DEF Settling, KidSucceeds, KidFails
<1>6. CASE LifeStep
  BY <1>6 DEF LifeStep, Boot, Stop, Exit, Die
<1>7. QED
  BY <1>1, <1>2, <1>3, <1>4, <1>5, <1>6 DEF Next, vars

LEMMA WhoWritesKid ==
  ASSUME [Next]_vars
  PROVE  \/ kid' = kid
         \/ \E w \in Workers : WritesKid(w)
         \/ \E c \in Callers : CancelFinish(c) \/ RetryWrite(c)
         \/ \E j \in KidIds : KidCancel(j) \/ KidRetry(j) \/ KidSucceeds(j) \/ KidFails(j)
<1>1. ASSUME NEW w \in Workers, WorkerStep(w)
      PROVE  kid' = kid \/ WritesKid(w)
  BY <1>1 DEF WorkerStep, StageStep, WritesKid, Select, Claim, Start, AgentReturns, Load, MakeSkip,
              MakeRefused, MakeDone, CallAccepted, Check, Count, Ensure, Advance, Complete, Defer,
              Release, QueryFails, HandleError, Abandon, FailRun, FailRestore
<1>2. ASSUME NEW w \in Workers, AgentSaves(w)
      PROVE  kid' = kid
  BY <1>2 DEF AgentSaves
<1>3. CASE UserStep
  BY <1>3 DEF UserStep, Create, Cancel, RetryCheck
<1>4. ASSUME NEW c \in Callers, CallerStep(c)
      PROVE  kid' = kid \/ CancelFinish(c) \/ RetryWrite(c)
  BY <1>4 DEF CallerStep, CallerDies
<1>5. CASE LifeStep
  BY <1>5 DEF LifeStep, Boot, Stop, Exit, Die
<1>6. CASE TimeStep
  BY <1>6 DEF TimeStep, LeaseElapses, LeaseLost, BecomeDue
<1>7. QED
  BY <1>1, <1>2, <1>3, <1>4, <1>5, <1>6 DEF Next, Settling, vars

LEMMA WhoWritesContent ==
  ASSUME [Next]_vars
  PROVE  \/ content' = content
         \/ \E w \in Workers : AgentSaves(w) \/ CallDelivers(w)
         \/ \E j \in KidIds : KidSucceeds(j)
<1>1. ASSUME NEW w \in Workers, WorkerStep(w)
      PROVE  content' = content \/ CallDelivers(w)
  BY <1>1 DEF WorkerStep, StageStep, Select, Claim, Start, AgentReturns, Load, MakeSkip, MakeMedia,
              MakeShared, MakeRefused, MakeDone, CallAccepted, CallFails, Check, Count, Ensure,
              Advance, Complete, Defer, Release, QueryFails, HandleError, Abandon, FailRun,
              FailClean, FailRestore
<1>2. CASE UserStep
  BY <1>2 DEF UserStep, Create, Cancel, RetryCheck, KidCancel, KidRetry
<1>3. ASSUME NEW c \in Callers, CallerStep(c)
      PROVE  content' = content
  BY <1>3 DEF CallerStep, CancelFinish, RetryWrite, CallerDies
<1>4. ASSUME NEW j \in KidIds, Settling(j)
      PROVE  content' = content \/ KidSucceeds(j)
  BY <1>4 DEF Settling, KidFails
<1>5. CASE LifeStep
  BY <1>5 DEF LifeStep, Boot, Stop, Exit, Die
<1>6. CASE TimeStep
  BY <1>6 DEF TimeStep, LeaseElapses, LeaseLost, BecomeDue
<1>7. CASE UNCHANGED vars
  BY <1>7 DEF vars, content
<1>8. QED
  BY <1>1, <1>2, <1>3, <1>4, <1>5, <1>6, <1>7 DEF Next

LEMMA WhoWritesWorker ==
  ASSUME [Next]_vars
  PROVE  (worker' = worker /\ (life' = life \/ LifeStep))
         \/ \E w \in Workers : (WorkerStep(w) /\ life' = life) \/ Die(w)
<1>1. ASSUME NEW w \in Workers, WorkerStep(w)
      PROVE  life' = life
  BY <1>1 DEF WorkerStep, StageStep, Select, Claim, Start, AgentReturns, Load, MakeSkip, MakeMedia,
              MakeShared, MakeRefused, MakeDone, CallAccepted, CallDelivers, CallFails, Check,
              Count, Ensure, Advance, Complete, Defer, Release, QueryFails, HandleError, Abandon,
              FailRun, FailClean, FailRestore
<1>2. ASSUME NEW w \in Workers, AgentSaves(w)
      PROVE  worker' = worker /\ life' = life
  BY <1>2 DEF AgentSaves, threads
<1>3. CASE UserStep
  BY <1>3 DEF UserStep, Create, Cancel, RetryCheck, KidCancel, KidRetry, threads
<1>4. ASSUME NEW c \in Callers, CallerStep(c)
      PROVE  worker' = worker /\ life' = life
  BY <1>4 DEF CallerStep, CancelFinish, RetryWrite, CallerDies
<1>5. ASSUME NEW j \in KidIds, Settling(j)
      PROVE  worker' = worker /\ life' = life
  BY <1>5 DEF Settling, KidSucceeds, KidFails, threads
<1>6. CASE LifeStep
  BY <1>6 DEF LifeStep, Boot, Stop, Exit
<1>7. CASE TimeStep
  BY <1>7 DEF TimeStep, LeaseElapses, LeaseLost, BecomeDue, threads
<1>8. CASE UNCHANGED vars
  BY <1>8 DEF vars
<1>9. QED
  BY <1>1, <1>2, <1>3, <1>4, <1>5, <1>6, <1>7, <1>8 DEF Next

LEMMA WhoWritesCaller ==
  ASSUME [Next]_vars
  PROVE  \/ caller' = caller
         \/ \E c \in Callers, r \in RunIds : Cancel(c, r) \/ RetryCheck(c, r)
         \/ \E c \in Callers : CallerStep(c)
<1>1. ASSUME NEW w \in Workers, WorkerStep(w)
      PROVE  caller' = caller
  BY <1>1 DEF WorkerStep, StageStep, Select, Claim, Start, AgentReturns, Load, MakeSkip, MakeMedia,
              MakeShared, MakeRefused, MakeDone, CallAccepted, CallDelivers, CallFails, Check,
              Count, Ensure, Advance, Complete, Defer, Release, QueryFails, HandleError, Abandon,
              FailRun, FailClean, FailRestore
<1>2. ASSUME NEW w \in Workers, AgentSaves(w)
      PROVE  caller' = caller
  BY <1>2 DEF AgentSaves, threads
<1>3. CASE UserStep
  BY <1>3 DEF UserStep, Create, KidCancel, KidRetry, threads
<1>4. ASSUME NEW j \in KidIds, Settling(j)
      PROVE  caller' = caller
  BY <1>4 DEF Settling, KidSucceeds, KidFails, threads
<1>5. CASE LifeStep
  BY <1>5 DEF LifeStep, Boot, Stop, Exit, Die
<1>6. CASE TimeStep
  BY <1>6 DEF TimeStep, LeaseElapses, LeaseLost, BecomeDue, threads
<1>7. CASE UNCHANGED vars
  BY <1>7 DEF vars
<1>8. QED
  BY <1>1, <1>2, <1>3, <1>4, <1>5, <1>6, <1>7 DEF Next

-----------------------------------------------------------------------------
(***************************************************************************)
(* Runs: at most one moves, and as ProductionRun.tla says.                 *)
(***************************************************************************)
KeepsPlace(r) ==
  run'[r].status = run[r].status /\ run'[r].stage = run[r].stage /\ run'[r].attempt = run[r].attempt

Begins(r) ==
  /\ run[r].status = "absent" /\ run'[r].status = "queued"
  /\ run'[r].stage = run[r].stage /\ run'[r].attempt = run[r].attempt
Advances(r) ==
  /\ run[r].status = "queued" /\ run'[r].status = "queued"
  /\ run[r].stage \notin {"merge", "completed"} /\ run'[r].stage = NextStage[run[r].stage]
  /\ run'[r].attempt = run[r].attempt
Finishes(r) ==
  /\ run[r].status = "queued" /\ run'[r].status = "succeeded"
  /\ run[r].stage = "merge" /\ run'[r].stage = "completed"
  /\ run'[r].attempt = run[r].attempt
Aborts(r) ==
  /\ run[r].status = "queued" /\ run'[r].status \in {"failed", "canceled"}
  /\ run'[r].stage = run[r].stage /\ run'[r].attempt = run[r].attempt
Resumes(r) ==
  /\ Ended(r) /\ run'[r].status = "queued" /\ run[r].attempt < MaxAttempts
  /\ run'[r].stage = run[r].stage /\ run'[r].attempt = run[r].attempt + 1

MovesOn(r) == Begins(r) \/ Advances(r) \/ Finishes(r) \/ Aborts(r) \/ Resumes(r)

OneRunMoves ==
  /\ run' \in [RunIds -> RunRows]
  /\ \/ \A r \in RunIds : KeepsPlace(r)
     \/ \E r \in RunIds : MovesOn(r) /\ \A q \in RunIds \ {r} : KeepsPlace(q)

\* A lease and the time a run is due are not its place.
LEMMA Bookkeeping ==
  ASSUME run \in [RunIds -> RunRows], NEW r \in RunIds, NEW v \in Workers \union {NoWorker},
         NEW lease \in {"none", "live", "expired"}, NEW due \in BOOLEAN,
         \/ run' = [run EXCEPT ![r].holder = v, ![r].lease = lease]
         \/ run' = [run EXCEPT ![r].lease = lease]
         \/ run' = [run EXCEPT ![r].due = due]
  PROVE  OneRunMoves
<1>1. CASE run' = [run EXCEPT ![r].holder = v, ![r].lease = lease]
  <2>1. run' \in [RunIds -> RunRows]
    <3> DEFINE row == [run[r] EXCEPT !.holder = v, !.lease = lease]
    <3>1. row \in RunRows
      BY DEF RunRows
    <3>2. run' = [run EXCEPT ![r] = row]
      BY <1>1
    <3> HIDE DEF row
    <3>3. QED
      BY <3>1, <3>2
  <2>2. \A q \in RunIds : KeepsPlace(q)
    BY <1>1 DEF KeepsPlace, RunRows
  <2>3. QED
    BY <2>1, <2>2 DEF OneRunMoves
<1>2. CASE run' = [run EXCEPT ![r].lease = lease]
  BY <1>2 DEF OneRunMoves, KeepsPlace, RunRows
<1>3. CASE run' = [run EXCEPT ![r].due = due]
  BY <1>3 DEF OneRunMoves, KeepsPlace, RunRows
<1>4. QED
  BY <1>1, <1>2, <1>3

\* The row of a run that ends gives its lease back.
LEMMA EndedRow ==
  ASSUME run \in [RunIds -> RunRows], NEW r \in RunIds, NEW s \in {"failed", "canceled"},
         run' = [run EXCEPT ![r].status = s, ![r].holder = NoWorker, ![r].lease = "none"]
  PROVE  run' \in [RunIds -> RunRows]
<1> DEFINE row == [run[r] EXCEPT !.status = s, !.holder = NoWorker, !.lease = "none"]
<1>1. row \in RunRows
  BY DEF RunRows
<1>2. run' = [run EXCEPT ![r] = row]
  OBVIOUS
<1> HIDE DEF row
<1>3. QED
  BY <1>1, <1>2

\* The workers' steps.
LEMMA WorkerMovesRun ==
  ASSUME ProductionTypeOK, WorkersInOrder, NEW w \in Workers, WritesRun(w)
  PROVE  OneRunMoves
<1> DEFINE r == worker[w].run
<1>1. worker[w] \in WorkerRows /\ run \in [RunIds -> RunRows]
  BY DEF ProductionTypeOK, WorkerRows, Pcs
<1>2. worker[w].pc # "idle" => r \in RunIds
  BY DEF WorkersInOrder, WorkerInOrder
<1>3. CASE run' = run
  BY <1>1, <1>3 DEF OneRunMoves, KeepsPlace
<1>4. CASE run' # run
  <2>1. worker[w].pc # "idle"
    BY <1>4 DEF WritesRun, Claim, Advance, Complete, Defer, Release, HandleError, FailRun
  <2>2. r \in RunIds
    BY <2>1, <1>2
  <2>3. CASE Claim(w) \/ Defer(w) \/ Release(w) \/ HandleError(w)
    <3> HIDE DEF r
    <3>1. \/ run' = [run EXCEPT ![r].holder = w, ![r].lease = "live"]
          \/ run' = [run EXCEPT ![r].due = FALSE]
          \/ run' = [run EXCEPT ![r].holder = NoWorker, ![r].lease = "none"]
      BY <1>4, <2>3 DEF Claim, Defer, Release, HandleError, GiveBack, r
    <3>2. QED
      BY <1>1, <2>2, <3>1, Bookkeeping
  <2>4. CASE Advance(w)
    <3>1. run[r].status = "queued" /\ run[r].stage = worker[w].stage /\ run[r].stage \notin {"merge", "completed"}
      BY <1>4, <2>4 DEF Advance, Holds, Queued, WorkersInOrder, WorkerInOrder, Fits, OnStage
    <3>2. run' = [run EXCEPT ![r].stage = NextStage[run[r].stage], ![r].due = TRUE]
      BY <1>4, <2>4, <3>1 DEF Advance
    <3>3. NextStage[run[r].stage] \in Stages
      BY <1>1, <2>2, <3>1 DEF RunRows, Stages, NextStage
    <3> DEFINE next == NextStage[run[r].stage]
    <3> HIDE DEF r, next
    <3>4. run' = [run EXCEPT ![r].stage = next, ![r].due = TRUE] /\ next \in Stages
      BY <3>2, <3>3 DEF next
    <3>5. run' \in [RunIds -> RunRows] /\ run'[r].status = run[r].status /\ run'[r].stage = next
          /\ run'[r].attempt = run[r].attempt /\ \A q \in RunIds \ {r} : KeepsPlace(q)
      BY <1>1, <2>2, <3>4 DEF RunRows, KeepsPlace
    <3>6. QED
      BY <2>2, <3>1, <3>5 DEF OneRunMoves, MovesOn, Advances, next
  <2>5. CASE Complete(w)
    <3>1. run[r].status = "queued" /\ run[r].stage = "merge"
      BY <1>4, <2>5 DEF Complete, Holds, Queued, WorkersInOrder, WorkerInOrder, Fits, OnStage
    <3>2. run' = [run EXCEPT ![r].status = "succeeded", ![r].stage = "completed",
                             ![r].holder = NoWorker, ![r].lease = "none"]
      BY <1>4, <2>5 DEF Complete
    <3> HIDE DEF r
    <3>3. run' \in [RunIds -> RunRows]
      <4> DEFINE row == [run[r] EXCEPT !.status = "succeeded", !.stage = "completed",
                                       !.holder = NoWorker, !.lease = "none"]
      <4>1. row \in RunRows
        BY <1>1, <2>2 DEF RunRows, Stages
      <4>2. run' = [run EXCEPT ![r] = row]
        BY <3>2
      <4> HIDE DEF row
      <4>3. QED
        BY <1>1, <4>1, <4>2
    <3>4. Finishes(r) /\ \A q \in RunIds \ {r} : KeepsPlace(q)
      BY <1>1, <2>2, <3>1, <3>2 DEF Finishes, KeepsPlace, RunRows
    <3>5. QED
      BY <2>2, <3>3, <3>4 DEF OneRunMoves, MovesOn
  <2>6. CASE FailRun(w)
    <3>1. run[r].status = "queued"
      BY <1>4, <2>6 DEF FailRun, Holds, Queued
    <3>2. run' = [run EXCEPT ![r].status = "failed", ![r].holder = NoWorker, ![r].lease = "none"]
      BY <1>4, <2>6 DEF FailRun
    <3> HIDE DEF r
    <3>3. run' \in [RunIds -> RunRows]
      BY <1>1, <2>2, <3>2, EndedRow
    <3>4. Aborts(r) /\ \A q \in RunIds \ {r} : KeepsPlace(q)
      BY <1>1, <2>2, <3>1, <3>2 DEF Aborts, KeepsPlace, RunRows
    <3>5. QED
      BY <2>2, <3>3, <3>4 DEF OneRunMoves, MovesOn
  <2>7. QED
    BY <2>3, <2>4, <2>5, <2>6 DEF WritesRun
<1>5. QED
  BY <1>3, <1>4

LEMMA RunsMove ==
  ASSUME ProductionTypeOK, WorkersInOrder, CallersInOrder, [Next]_vars
  PROVE  OneRunMoves
<1>1. run \in [RunIds -> RunRows]
  BY DEF ProductionTypeOK
<1>2. CASE run' = run
  BY <1>1, <1>2 DEF OneRunMoves, KeepsPlace
<1>3. ASSUME NEW r \in RunIds, Create(r)
      PROVE  OneRunMoves
  <2>1. run[r].status = "absent" /\ run' = [run EXCEPT ![r].status = "queued"]
    BY <1>3 DEF Create
  <2>2. QED
    BY <1>1, <2>1 DEF OneRunMoves, MovesOn, Begins, KeepsPlace, RunRows
<1>4. ASSUME NEW c \in Callers, NEW r \in RunIds, Cancel(c, r)
      PROVE  OneRunMoves
  <2>1. /\ run[r].status = "queued"
        /\ run' = [run EXCEPT ![r].status = "canceled", ![r].holder = NoWorker, ![r].lease = "none"]
    BY <1>4 DEF Cancel, Queued
  <2>2. run' \in [RunIds -> RunRows]
    BY <1>1, <2>1, EndedRow
  <2>3. Aborts(r) /\ \A q \in RunIds \ {r} : KeepsPlace(q)
    BY <1>1, <2>1 DEF Aborts, KeepsPlace, RunRows
  <2>4. QED
    BY <2>2, <2>3 DEF OneRunMoves, MovesOn
<1>5. ASSUME NEW c \in Callers, RetryWrite(c)
      PROVE  OneRunMoves
  <2> DEFINE r == caller[c].run
  <2>1. r \in RunIds /\ Ended(r) /\ run[r].attempt < MaxAttempts
    BY <1>5 DEF RetryWrite, CallersInOrder
  <2>2. run' = [run EXCEPT ![r].status = "queued", ![r].attempt = @ + 1, ![r].due = TRUE]
    BY <1>5 DEF RetryWrite
  <2> HIDE DEF r
  <2>3. run[r].attempt + 1 \in 1..MaxAttempts
    BY <1>1, <2>1, ProductionAssumption DEF RunRows
  <2>4. QED
    BY <1>1, <2>1, <2>2, <2>3 DEF OneRunMoves, MovesOn, Resumes, KeepsPlace, RunRows
<1>6. CASE TimeStep
  <2>1. PICK r \in RunIds : \/ run' = [run EXCEPT ![r].lease = "expired"]
                            \/ run' = [run EXCEPT ![r].due = TRUE]
    BY <1>6 DEF TimeStep, LeaseElapses, LeaseLost, BecomeDue
  <2>2. QED
    BY <1>1, <2>1, Bookkeeping
<1>7. QED
  BY <1>2, <1>3, <1>4, <1>5, <1>6, WhoWritesRun, WorkerMovesRun

\* Runs stay in order.
LEMMA RunsStayInOrder ==
  ASSUME ProductionTypeOK, RunsInOrder, OneRunMoves
  PROVE  RunsInOrder'
<1>1. ASSUME NEW r \in RunIds, KeepsPlace(r)
      PROVE  (run[r].status = "absent" => run[r].stage = "script" /\ run[r].attempt = 1)'
             /\ (run[r].status = "succeeded" <=> run[r].stage = "completed")'
  BY <1>1 DEF RunsInOrder, KeepsPlace
<1>2. ASSUME NEW r \in RunIds, MovesOn(r)
      PROVE  (run[r].status = "absent" => run[r].stage = "script" /\ run[r].attempt = 1)'
             /\ (run[r].status = "succeeded" <=> run[r].stage = "completed")'
  <2>1. run[r].stage \in Stages
    BY DEF ProductionTypeOK, RunRows
  <2>2. QED
    BY <1>2, <2>1
       DEF RunsInOrder, MovesOn, Begins, Advances, Finishes, Aborts, Resumes, Ended, NextStage, Stages
<1>3. QED
  BY <1>1, <1>2 DEF OneRunMoves, RunsInOrder

\* The step that changes a run's stage is its worker's last one in the stage.
LEMMA StagesMoveWithWorkers ==
  ASSUME ProductionTypeOK, WorkersInOrder, CallersInOrder, [Next]_vars,
         NEW r \in RunIds, run'[r].stage # run[r].stage
  PROVE  \E w \in Workers : /\ worker[w].run = r /\ Holds(w)
                            /\ Advance(w) \/ Complete(w)
<1>1. run \in [RunIds -> RunRows]
  BY DEF ProductionTypeOK
<1>2. /\ ~(\E q \in RunIds : Create(q)) /\ ~(\E c \in Callers, q \in RunIds : Cancel(c, q))
      /\ ~(\E c \in Callers : RetryWrite(c)) /\ ~TimeStep /\ run' # run
  <2>1. ASSUME NEW q \in RunIds, Create(q)
        PROVE  FALSE
    BY <1>1, <2>1 DEF Create, RunRows
  <2>2. ASSUME NEW c \in Callers, NEW q \in RunIds, Cancel(c, q)
        PROVE  FALSE
    BY <1>1, <2>2 DEF Cancel, RunRows
  <2>3. ASSUME NEW c \in Callers, RetryWrite(c)
        PROVE  FALSE
    BY <1>1, <2>3 DEF RetryWrite, RunRows
  <2>4. ASSUME TimeStep
        PROVE  FALSE
    BY <1>1, <2>4 DEF TimeStep, LeaseElapses, LeaseLost, BecomeDue, RunRows
  <2>5. QED
    BY <2>1, <2>2, <2>3, <2>4
<1>3. PICK w \in Workers : WritesRun(w)
  BY <1>2, WhoWritesRun
<1>4. ~ (Claim(w) \/ Defer(w) \/ Release(w) \/ HandleError(w) \/ FailRun(w))
  BY <1>1 DEF Claim, Defer, Release, HandleError, FailRun, GiveBack, RunRows
<1>5. CASE Advance(w)
  BY <1>1, <1>5 DEF Advance, RunRows
<1>6. CASE Complete(w)
  BY <1>1, <1>6 DEF Complete, RunRows
<1>7. QED
  BY <1>3, <1>4, <1>5, <1>6 DEF WritesRun

-----------------------------------------------------------------------------
(***************************************************************************)
(* Children: each moves as JobLifecycle.tla says, and keeps what it makes. *)
(***************************************************************************)
KeepsWork(j) ==
  kid'[j].makes = kid[j].makes /\ kid'[j].shots = kid[j].shots

Stays(j) == KeepsWork(j) /\ kid'[j].phase = kid[j].phase /\ kid'[j].tries = kid[j].tries
Accepted(j) ==
  /\ kid[j].phase = "absent" /\ kid'[j].phase = "active" /\ kid'[j].tries = 1
  /\ kid'[j].shots \subseteq 1..saved
Concluded(j) ==
  /\ KeepsWork(j) /\ kid[j].phase = "active" /\ kid'[j].phase \in {"succeeded", "failed", "canceled"}
  /\ kid'[j].tries = kid[j].tries
Reopened(j) ==
  /\ KeepsWork(j) /\ kid[j].phase \in {"failed", "canceled"} /\ kid'[j].phase = "active"
  /\ kid'[j].tries \in 2..MaxTries

KidsMoveOn ==
  /\ kid' \in [KidIds -> KidRows]
  /\ \A j \in KidIds : Stays(j) \/ Accepted(j) \/ Concluded(j) \/ Reopened(j)

\* Nothing is active that was not, but for a job that a user reopened.
NothingNew ==
  \A j \in KidIds : (kid'[j].phase = "active" /\ kid'[j].tries =< 1) => kid[j] = kid'[j]

LEMMA SettleFacts ==
  ASSUME kid \in [KidIds -> KidRows], NEW J, NEW phase \in {"succeeded", "failed", "canceled"},
         \A j \in J \intersect KidIds : Active(j), Settle(J, phase)
  PROVE  KidsMoveOn /\ NothingNew
<1>1. ASSUME NEW j \in KidIds
      PROVE  /\ kid'[j] \in KidRows
             /\ Stays(j) \/ Concluded(j)
             /\ (kid'[j].phase = "active" => kid[j] = kid'[j])
  <2>1. CASE j \in J
    BY <2>1 DEF Settle, KidRows, Active, Concluded, KeepsWork
  <2>2. CASE j \notin J
    BY <2>2 DEF Settle, Stays, KeepsWork
  <2>3. QED
    BY <2>1, <2>2
<1>2. kid' \in [KidIds -> KidRows]
  <2>1. kid' = [j \in KidIds |-> kid'[j]]
    BY DEF Settle
  <2>2. QED
    BY <1>1, <2>1
<1>3. QED
  BY <1>1, <1>2 DEF KidsMoveOn, NothingNew

LEMMA NewKidFacts ==
  ASSUME kid \in [KidIds -> KidRows], saved \in 0..MaxShots, NEW j \in KidIds,
         NEW product \in Products, NEW S \in SUBSET (1..saved), NEW r \in RunIds,
         NewKid(j, product, S, r)
  PROVE  /\ KidsMoveOn /\ kid'[j].makes = product /\ kid'[j].shots = S /\ kid'[j].run = r
         /\ ~Active(j) /\ kid'[j].phase = "active"
         /\ \A i \in KidIds \ {j} : kid'[i] = kid[i]
<1> DEFINE row == [phase |-> "active", makes |-> product, shots |-> S, run |-> r, tries |-> 1]
<1>1. row \in KidRows
  BY ProductionAssumption DEF KidRows
<1>2. kid[j].phase = "absent" /\ kid' = [kid EXCEPT ![j] = row]
  BY DEF NewKid
<1>3. row.phase = "active" /\ row.makes = product /\ row.shots = S /\ row.run = r /\ row.tries = 1
  OBVIOUS
<1> HIDE DEF row
<1>4. kid' \in [KidIds -> KidRows] /\ kid'[j] = row /\ \A i \in KidIds \ {j} : kid'[i] = kid[i]
  BY <1>1, <1>2
<1>5. Accepted(j) /\ \A i \in KidIds \ {j} : Stays(i)
  BY <1>2, <1>3, <1>4 DEF Accepted, Stays, KeepsWork
<1>6. QED
  BY <1>2, <1>3, <1>4, <1>5 DEF KidsMoveOn, Active

\* The pieces of work that a worker at "make" has; what it makes of them.
LEMMA MakerFacts ==
  ASSUME ProductionTypeOK, OnSaved, WorkersInOrder, NEW w \in Workers,
         worker[w].pc = "make", worker[w].todo # {}
  PROVE  /\ worker[w].run \in RunIds /\ worker[w].stage \in ChildStages
         /\ Product[worker[w].stage] \in Products
         /\ Piece(w) \in SUBSET (1..saved) /\ Piece(w) \subseteq worker[w].todo
<1>1. worker[w].run \in RunIds /\ worker[w].stage \in ChildStages
  BY DEF WorkersInOrder, WorkerInOrder, Fits
<1>2. worker[w].todo \in SUBSET (1..MaxShots) /\ worker[w].todo \in SUBSET (1..saved)
  BY DEF ProductionTypeOK, OnSaved
<1>3. Piece(w) \subseteq worker[w].todo
  BY <1>2, PieceIsWork
<1>4. Product[worker[w].stage] \in Products
  BY <1>1 DEF Products, ChildStages
<1>5. QED
  BY <1>1, <1>2, <1>3, <1>4

\* A worker attaches an active job of the target.
Attaches(w, j) ==
  /\ Active(j) /\ kid[j].makes = Product[worker[w].stage]
  /\ kid[j].makes \notin {"frame", "video"}
  /\ kid' = [kid EXCEPT ![j].run = worker[w].run]

LEMMA SharedFacts ==
  ASSUME ProductionTypeOK, OnSaved, WorkersInOrder, NEW w \in Workers, MakeShared(w)
  PROVE  \/ \E j \in KidIds : NewKid(j, Product[worker[w].stage], Piece(w), worker[w].run)
                             /\ SameTarget(Product[worker[w].stage], Piece(w)) = {}
         \/ \E j \in KidIds : Attaches(w, j)
<1> DEFINE product == Product[worker[w].stage]
           same == SameTarget(product, Piece(w))
<1>1. worker[w].stage \in ChildStages /\ worker[w].stage \notin ProviderStages
  BY MakerFacts DEF MakeShared
<1>2. product \notin {"frame", "video"}
  BY <1>1 DEF ChildStages, Product, ProviderStages
<1>3. CASE same = {}
  BY <1>3 DEF MakeShared
<1>4. CASE same # {}
  <2> DEFINE j == Max(same)
  <2>1. same \in SUBSET (1..MaxKids)
    BY DEF SameTarget, KidIds
  <2>2. j \in same
    <3> HIDE DEF same
    <3>1. QED
      BY <1>4, <2>1, GreatestMember, ProductionAssumption
  <2>3. kid' = [kid EXCEPT ![j].run = worker[w].run]
    BY <1>4 DEF MakeShared
  <2>4. j \in KidIds /\ Active(j) /\ kid[j].makes = product
    BY <2>2 DEF SameTarget
  <2> HIDE DEF j
  <2>5. Attaches(w, j)
    BY <1>2, <2>3, <2>4 DEF Attaches
  <2>6. QED
    BY <2>4, <2>5
<1>5. QED
  BY <1>3, <1>4

LEMMA AttachFacts ==
  ASSUME ProductionTypeOK, WorkersInOrder, NEW w \in Workers, worker[w].pc = "make",
         NEW j \in KidIds, Attaches(w, j)
  PROVE  KidsMoveOn /\ \A i \in KidIds : Stays(i) /\ (i # j => kid'[i] = kid[i])
<1>1. worker[w].run \in RunIds
  BY DEF WorkersInOrder, WorkerInOrder
<1>2. kid \in [KidIds -> KidRows]
  BY DEF ProductionTypeOK
<1>3. kid' \in [KidIds -> KidRows] /\ \A i \in KidIds : Stays(i) /\ (i # j => kid'[i] = kid[i])
  BY <1>1, <1>2 DEF Attaches, KidRows, Stays, KeepsWork
<1>4. QED
  BY <1>3 DEF KidsMoveOn

\* A frame or a video gets a job of its own.
LEMMA MediaFacts ==
  ASSUME ProductionTypeOK, OnSaved, WorkersInOrder, NEW w \in Workers, MakeMedia(w)
  PROVE  \E j \in KidIds : NewKid(j, Product[worker[w].stage], Piece(w), worker[w].run)
BY DEF MakeMedia

\* Every other write of the children makes nothing new.
LEMMA OtherWritesOfChildren ==
  ASSUME ProductionTypeOK, OnSaved, WorkersInOrder, CallersInOrder, [Next]_vars
  PROVE  \/ \E w \in Workers : MakeMedia(w) \/ MakeShared(w)
         \/ KidsMoveOn /\ NothingNew
<1>1. kid \in [KidIds -> KidRows]
  BY DEF ProductionTypeOK
<1>2. ASSUME kid' = kid
      PROVE  KidsMoveOn /\ NothingNew
  BY <1>1, <1>2 DEF KidsMoveOn, NothingNew, Stays, KeepsWork
<1>3. ASSUME NEW w \in Workers, CallDelivers(w) \/ CallFails(w)
      PROVE  KidsMoveOn /\ NothingNew
  <2>1. PICK phase \in {"succeeded", "failed"} : Settle({worker[w].kid}, phase)
    BY <1>3 DEF CallDelivers, CallFails
  <2>2. Active(worker[w].kid)
    BY <1>3 DEF CallDelivers, CallFails
  <2>3. QED
    BY <1>1, <2>1, <2>2, SettleFacts
<1>4. ASSUME NEW w \in Workers, FailClean(w)
      PROVE  KidsMoveOn /\ NothingNew
  <2>1. CancelActiveChildren(worker[w].run) \/ kid' = kid
    BY <1>4 DEF FailClean
  <2>2. CASE CancelActiveChildren(worker[w].run)
    BY <1>1, <2>2, SettleFacts DEF CancelActiveChildren
  <2>3. QED
    BY <1>2, <2>1, <2>2
<1>5. ASSUME NEW c \in Callers, CancelFinish(c)
      PROVE  KidsMoveOn /\ NothingNew
  BY <1>1, <1>5, SettleFacts DEF CancelFinish, CancelActiveChildren
<1>6. ASSUME NEW c \in Callers, RetryWrite(c)
      PROVE  KidsMoveOn /\ NothingNew
  <2> DEFINE r == caller[c].run
  <2>1. kid' = [j \in KidIds |-> IF kid[j].run = r /\ kid[j].phase \in {"failed", "canceled"}
                                 THEN [kid[j] EXCEPT !.run = NoRun] ELSE kid[j]]
    BY <1>6 DEF RetryWrite
  <2> HIDE DEF r
  <2>2. ASSUME NEW j \in KidIds
        PROVE  kid'[j] \in KidRows /\ Stays(j) /\ (kid'[j].phase = "active" => kid[j] = kid'[j])
    BY <1>1, <2>1 DEF KidRows, Stays, KeepsWork
  <2>3. kid' = [j \in KidIds |-> kid'[j]]
    BY <2>1
  <2>4. QED
    BY <2>2, <2>3 DEF KidsMoveOn, NothingNew
<1>7. ASSUME NEW j \in KidIds, KidCancel(j) \/ KidSucceeds(j) \/ KidFails(j)
      PROVE  KidsMoveOn /\ NothingNew
  <2>1. PICK phase \in {"succeeded", "failed", "canceled"} : Settle({j}, phase)
    BY <1>7 DEF KidCancel, KidSucceeds, KidFails
  <2>2. Active(j)
    BY <1>7 DEF KidCancel, KidSucceeds, KidFails
  <2>3. QED
    BY <1>1, <2>1, <2>2, SettleFacts
<1>8. ASSUME NEW j \in KidIds, KidRetry(j)
      PROVE  KidsMoveOn /\ NothingNew
  <2>1. kid' = [kid EXCEPT ![j].phase = "active", ![j].tries = @ + 1]
    BY <1>8 DEF KidRetry
  <2>2. kid[j].tries + 1 \in 2..MaxTries /\ kid[j].phase \in {"failed", "canceled"}
    BY <1>1, <1>8, ProductionAssumption DEF KidRetry, KidRows
  <2>3. kid' \in [KidIds -> KidRows]
    BY <1>1, <2>1, <2>2, ProductionAssumption DEF KidRows
  <2>4. Reopened(j) /\ \A i \in KidIds : i # j => kid'[i] = kid[i]
    BY <1>1, <2>1, <2>2 DEF Reopened, KeepsWork, KidRows
  <2>5. \A i \in KidIds : i # j => Stays(i)
    BY <2>4 DEF Stays, KeepsWork
  <2>6. KidsMoveOn
    BY <2>3, <2>4, <2>5 DEF KidsMoveOn
  <2>7. NothingNew
    BY <2>4, ProductionAssumption DEF NothingNew, Reopened
  <2>8. QED
    BY <2>6, <2>7
<1>9. QED
  BY <1>2, <1>3, <1>4, <1>5, <1>6, <1>7, <1>8, WhoWritesKid DEF WritesKid

\* So every child moves as the job service has it.
LEMMA KidsMove ==
  ASSUME ProductionTypeOK, OnSaved, WorkersInOrder, CallersInOrder, [Next]_vars
  PROVE  KidsMoveOn
<1>1. kid \in [KidIds -> KidRows] /\ saved \in 0..MaxShots
  BY DEF ProductionTypeOK
<1>2. ASSUME NEW w \in Workers, worker[w].pc = "make", worker[w].todo # {}, NEW j \in KidIds,
             NewKid(j, Product[worker[w].stage], Piece(w), worker[w].run)
      PROVE  KidsMoveOn
  BY <1>1, <1>2, MakerFacts, NewKidFacts
<1>3. ASSUME NEW w \in Workers, MakeMedia(w)
      PROVE  KidsMoveOn
  BY <1>2, <1>3 DEF MakeMedia
<1>4. ASSUME NEW w \in Workers, MakeShared(w)
      PROVE  KidsMoveOn
  BY <1>2, <1>4, SharedFacts, AttachFacts DEF MakeShared
<1>5. QED
  BY <1>3, <1>4, OtherWritesOfChildren

\* Neither a target nor a storyboard gets a second active job, but for one that
\* a user reopened.
Twins(i, j) ==
  /\ i # j /\ Active(i) /\ Active(j) /\ kid[i].makes = kid[j].makes
  /\ kid[i].tries =< 1 /\ kid[j].tries =< 1
SharedTwins(i, j) ==
  /\ Twins(i, j) /\ kid[i].makes \notin {"frame", "video"}
  /\ kid[i].makes = "audio" => kid[i].shots = kid[j].shots
RunTwins(i, j) ==
  /\ Twins(i, j) /\ kid[i].run = kid[j].run /\ kid[i].run # NoRun /\ kid[i].shots = kid[j].shots

LEMMA TwinsAreDuplicates ==
  ASSUME kid \in [KidIds -> KidRows]
  PROVE  /\ SharedOnce <=> \A i, j \in KidIds : ~SharedTwins(i, j)
         /\ NoDuplicateChild <=> \A i, j \in KidIds : ~RunTwins(i, j)
<1>1. \A i \in KidIds : kid[i].tries > 1 <=> ~(kid[i].tries =< 1)
  BY ProductionAssumption DEF KidRows
<1>2. QED
  BY <1>1 DEF SharedOnce, NoDuplicateChild, SharedTwins, RunTwins, Twins

LEMMA TwinsAreDuplicatesNext ==
  ASSUME kid' \in [KidIds -> KidRows]
  PROVE  /\ SharedOnce' <=> \A i, j \in KidIds : ~SharedTwins(i, j)'
         /\ NoDuplicateChild' <=> \A i, j \in KidIds : ~RunTwins(i, j)'
<1>1. \A i \in KidIds : kid'[i].tries > 1 <=> ~(kid'[i].tries =< 1)
  BY ProductionAssumption DEF KidRows
<1>2. QED
  BY <1>1 DEF SharedOnce, NoDuplicateChild, SharedTwins, RunTwins, Twins, Active

\* Where nothing is new there are no new twins, and one new job is no twin of
\* those that were there unless it is of one of them.
LEMMA TwinsNeedSomethingNew ==
  ASSUME NothingNew, SharedOnce, NoDuplicateChild,
         kid \in [KidIds -> KidRows], kid' \in [KidIds -> KidRows]
  PROVE  SharedOnce' /\ NoDuplicateChild'
<1>1. ASSUME NEW i \in KidIds, NEW j \in KidIds
      PROVE  /\ SharedTwins(i, j)' => SharedTwins(i, j)
             /\ RunTwins(i, j)' => RunTwins(i, j)
  BY DEF NothingNew, SharedTwins, RunTwins, Twins, Active
<1>2. QED
  BY <1>1, TwinsAreDuplicates, TwinsAreDuplicatesNext

LEMMA TwinsOfTheNewOne ==
  ASSUME kid \in [KidIds -> KidRows], kid' \in [KidIds -> KidRows], NEW j \in KidIds,
         \A i \in KidIds \ {j} : kid'[i] = kid[i]
  PROVE  /\ (SharedOnce /\ \A i \in KidIds : ~SharedTwins(i, j)') => SharedOnce'
         /\ (NoDuplicateChild /\ \A i \in KidIds : ~RunTwins(i, j)') => NoDuplicateChild'
<1>1. ASSUME NEW i \in KidIds \ {j}, NEW k \in KidIds \ {j}
      PROVE  /\ SharedTwins(i, k)' => SharedTwins(i, k)
             /\ RunTwins(i, k)' => RunTwins(i, k)
  BY DEF SharedTwins, RunTwins, Twins, Active
<1>2. ASSUME NEW i \in KidIds
      PROVE  /\ SharedTwins(j, i)' => SharedTwins(i, j)'
             /\ RunTwins(j, i)' => RunTwins(i, j)'
  BY DEF SharedTwins, RunTwins, Twins
<1>3. QED
  BY <1>1, <1>2, TwinsAreDuplicates, TwinsAreDuplicatesNext

LEMMA StepTwins ==
  ASSUME ProductionTypeOK, OnSaved, WorkersInOrder, CallersInOrder, SharedOnce, NoDuplicateChild,
         [Next]_vars
  PROVE  SharedOnce' /\ NoDuplicateChild'
<1>1. kid \in [KidIds -> KidRows] /\ kid' \in [KidIds -> KidRows] /\ saved \in 0..MaxShots
  BY KidsMove DEF KidsMoveOn, ProductionTypeOK
<1>2. ASSUME NEW w \in Workers, MakeMedia(w)
      PROVE  SharedOnce' /\ NoDuplicateChild'
  <2> DEFINE product == Product[worker[w].stage]
             r == worker[w].run
             S == Piece(w)
  <2>1. PICK j \in KidIds : NewKid(j, product, S, r)
    BY <1>2 DEF MakeMedia
  <2>2. product \in {"frame", "video"}
    BY <1>2 DEF MakeMedia, ProviderStages, Product
  <2>3. \A i \in KidIds : ~(Active(i) /\ kid[i].run = r /\ kid[i].makes = product /\ kid[i].shots = S)
    BY <1>2 DEF MakeMedia, ActiveChildren
  <2>4. product \in Products /\ S \in SUBSET (1..saved) /\ r \in RunIds
    BY <1>2, MakerFacts DEF MakeMedia
  <2> HIDE DEF product, r, S
  <2>5. /\ kid'[j].makes = product /\ kid'[j].shots = S /\ kid'[j].run = r
        /\ \A i \in KidIds \ {j} : kid'[i] = kid[i]
    BY <1>1, <2>1, <2>4, NewKidFacts
  <2>6. \A i \in KidIds : ~SharedTwins(i, j)' /\ ~RunTwins(i, j)'
    BY <2>2, <2>3, <2>5 DEF SharedTwins, RunTwins, Twins, Active
  <2>7. QED
    BY <1>1, <2>5, <2>6, TwinsOfTheNewOne
<1>3. ASSUME NEW w \in Workers, MakeShared(w)
      PROVE  SharedOnce' /\ NoDuplicateChild'
  <2> DEFINE product == Product[worker[w].stage]
             r == worker[w].run
             S == Piece(w)
  <2>1. /\ product \in Products /\ S \in SUBSET (1..saved) /\ r \in RunIds
        /\ product \notin {"frame", "video"}
    BY <1>3, MakerFacts DEF MakeShared, ProviderStages, Product, ChildStages
  <2>2. ASSUME NEW j \in KidIds, NewKid(j, product, S, r), SameTarget(product, S) = {}
        PROVE  SharedOnce' /\ NoDuplicateChild'
    <3>1. \A i \in KidIds : ~(Active(i) /\ kid[i].makes = product /\ (product = "audio" => kid[i].shots = S))
      BY <2>2 DEF SameTarget
    <3> HIDE DEF product, r, S
    <3>2. /\ kid'[j].makes = product /\ kid'[j].shots = S /\ kid'[j].run = r
          /\ \A i \in KidIds \ {j} : kid'[i] = kid[i]
      BY <1>1, <2>1, <2>2, NewKidFacts
    <3>3. \A i \in KidIds : ~SharedTwins(i, j)' /\ ~RunTwins(i, j)'
      BY <2>1, <3>1, <3>2 DEF SharedTwins, RunTwins, Twins, Active
    <3>4. QED
      BY <1>1, <3>2, <3>3, TwinsOfTheNewOne
  <2>3. ASSUME NEW j \in KidIds, Attaches(w, j)
        PROVE  SharedOnce' /\ NoDuplicateChild'
    <3>1. \A i \in KidIds : Stays(i) /\ (i # j => kid'[i] = kid[i])
      BY <1>3, <2>3, AttachFacts DEF MakeShared
    <3>2. \A i \in KidIds : ~SharedTwins(i, j)
      BY <1>1, TwinsAreDuplicates
    <3>3. kid[j].makes \notin {"frame", "video"}
      BY <2>3 DEF Attaches
    <3>4. \A i \in KidIds : ~SharedTwins(i, j)' /\ ~RunTwins(i, j)'
      BY <3>1, <3>2, <3>3 DEF SharedTwins, RunTwins, Twins, Active, Stays, KeepsWork
    <3>5. QED
      BY <1>1, <3>1, <3>4, TwinsOfTheNewOne
  <2>4. QED
    BY <1>3, <2>2, <2>3, SharedFacts
<1>4. QED
  BY <1>1, <1>2, <1>3, OtherWritesOfChildren, TwinsNeedSomethingNew

-----------------------------------------------------------------------------
(***************************************************************************)
(* What the episode has.                                                   *)
(***************************************************************************)
ContentIsTyped ==
  /\ saved \in 0..MaxShots /\ shots \in SUBSET (1..saved)
  /\ media \in SUBSET ((1..saved) \X Products) /\ film \in SUBSET (1..saved)

\* A delivery is of the storyboards of its job.
LEMMA DeliverFacts ==
  ASSUME ProductionTypeOK, OnSaved, NEW j \in KidIds, Deliver(j)
  PROVE  /\ media' \in SUBSET ((1..saved) \X Products) /\ media \subseteq media'
         /\ film' \in SUBSET (1..saved)
         /\ \/ film' = film
            \/ kid[j].makes = "film" /\ film' = kid[j].shots
         /\ episode' \in {"completed", episode}
<1>1. kid[j].makes \in Products /\ kid[j].shots \subseteq 1..saved
  BY DEF ProductionTypeOK, OnSaved, KidRows
<1>2. media \in SUBSET ((1..saved) \X Products) /\ film \in SUBSET (1..saved)
  BY DEF ProductionTypeOK
<1>3. CASE kid[j].makes = "film"
  BY <1>1, <1>2, <1>3 DEF Deliver
<1>4. CASE kid[j].makes # "film"
  <2> DEFINE made == (kid[j].shots \intersect shots) \X {kid[j].makes}
  <2>1. made \subseteq (1..saved) \X Products
    BY <1>1
  <2>2. media' = media \union made /\ UNCHANGED <<film, episode>>
    BY <1>4 DEF Deliver
  <2> HIDE DEF made
  <2>3. QED
    BY <1>2, <2>1, <2>2
<1>5. QED
  BY <1>3, <1>4

\* What a step does to it: the agent replaces the storyboards, and a job that
\* ends adds what it made.
LEMMA ContentMoves ==
  ASSUME ProductionTypeOK, OnSaved, WorkersInOrder, [Next]_vars
  PROVE  \/ UNCHANGED content
         \/ \E w \in Workers : AgentSaves(w)
         \/ /\ UNCHANGED <<shots, saved, run>>
            /\ \E j \in KidIds : Active(j) /\ Deliver(j)
<1>1. ASSUME NEW w \in Workers, CallDelivers(w)
      PROVE  /\ UNCHANGED <<shots, saved, run>>
             /\ \E j \in KidIds : Active(j) /\ Deliver(j)
  BY <1>1 DEF CallDelivers, WorkersInOrder, WorkerInOrder
<1>2. ASSUME NEW j \in KidIds, KidSucceeds(j)
      PROVE  /\ UNCHANGED <<shots, saved, run>>
             /\ Active(j) /\ Deliver(j)
  BY <1>2 DEF KidSucceeds
<1>3. QED
  BY <1>1, <1>2, WhoWritesContent

LEMMA ContentStaysTyped ==
  ASSUME ProductionTypeOK, OnSaved, WorkersInOrder, [Next]_vars
  PROVE  ContentIsTyped' /\ 1..saved \subseteq 1..saved'
<1>1. ContentIsTyped
  BY DEF ProductionTypeOK, ContentIsTyped
<1>2. CASE UNCHANGED content
  BY <1>1, <1>2 DEF content, ContentIsTyped
<1>3. ASSUME NEW w \in Workers, AgentSaves(w)
      PROVE  ContentIsTyped' /\ 1..saved \subseteq 1..saved'
  <2>1. PICK n \in (saved + 1)..MaxShots : shots' = (saved + 1)..n /\ saved' = n
    BY <1>3 DEF AgentSaves
  <2>2. media' = {} /\ film' = film
    BY <1>3 DEF AgentSaves
  <2>3. saved \in Nat /\ n \in 0..MaxShots /\ saved =< n
    BY <1>1, ProductionAssumption DEF ContentIsTyped
  <2>4. 1..saved \subseteq 1..n /\ (saved + 1)..n \subseteq 1..n
    BY <2>3
  <2>5. QED
    BY <1>1, <2>1, <2>2, <2>3, <2>4 DEF ContentIsTyped
<1>4. ASSUME NEW j \in KidIds, Deliver(j), UNCHANGED <<shots, saved>>
      PROVE  ContentIsTyped' /\ 1..saved \subseteq 1..saved'
  BY <1>1, <1>4, DeliverFacts DEF ContentIsTyped
<1>5. QED
  BY <1>2, <1>3, <1>4, ContentMoves

-----------------------------------------------------------------------------
(***************************************************************************)
(* Workers and requests.                                                   *)
(***************************************************************************)
\* Only one worker works.
LEMMA Alone ==
  ASSUME OneProcess, NEW w \in Workers, worker[w].pc # "idle" \/ life[w] \in Alive
  PROVE  \A v \in Workers : v # w => worker[v].pc = "idle"
BY DEF OneProcess

StagesStay == \A r \in RunIds : run'[r].stage = run[r].stage

LEMMA StagesStayUntilAdvance ==
  ASSUME ProductionTypeOK, OneProcess, WorkersInOrder, CallersInOrder, [Next]_vars,
         NEW w \in Workers, worker[w].pc # "idle" \/ life[w] \in Alive,
         worker[w].pc \notin {"advance", "complete"}
  PROVE  StagesStay
<1>1. \A v \in Workers : worker[v].pc \notin {"advance", "complete"}
  BY Alone
<1>2. \A v \in Workers : ~Advance(v) /\ ~Complete(v)
  BY <1>1 DEF Advance, Complete
<1>3. QED
  BY <1>2, StagesMoveWithWorkers DEF StagesStay

RunsRemain == \A r \in RunIds : run[r].status # "absent" => run'[r].status # "absent"

LEMMA RunsDoRemain ==
  ASSUME OneRunMoves
  PROVE  RunsRemain
BY DEF OneRunMoves, RunsRemain, KeepsPlace, MovesOn, Begins, Advances, Finishes, Aborts, Resumes

\* What is to be shown of the worker that moves.
MovesInOrder(w) ==
  /\ worker' \in [Workers -> WorkerRows]
  /\ \A v \in Workers : v # w => worker'[v] = worker[v]
  /\ worker'[w].todo \subseteq 1..saved
  /\ WorkerInOrder(w)'
  /\ worker[w].pc # "idle" \/ life[w] \in Alive

LEMMA IdleInOrder ==
  ASSUME NEW w \in Workers, GoneIdle(w), worker[w].pc # "idle"
  PROVE  MovesInOrder(w)
BY DEF GoneIdle, MovesInOrder, WorkerInOrder, Fits, Idle, OnStage

LEMMA OnwardsInOrder ==
  ASSUME OnSaved, WorkersInOrder, RunsRemain, NEW w \in Workers, NEW pc \in Pcs \ {"idle", "calling"},
         worker[w].pc # "idle", Onwards(w, pc),
         pc \in OnStage => StagesStay /\ worker[w].pc \in OnStage,
         Fits(pc, worker[w].stage)
  PROVE  MovesInOrder(w)
<1>1. worker[w].run \in RunIds /\ run[worker[w].run].status # "absent"
  BY DEF WorkersInOrder, WorkerInOrder
<1>2. worker[w].pc \in OnStage => worker[w].stage = run[worker[w].run].stage
  BY DEF WorkersInOrder, WorkerInOrder
<1>3. worker'[w].todo \subseteq 1..saved
  BY DEF Onwards, OnSaved
<1>4. WorkerInOrder(w)'
  BY <1>1, <1>2 DEF Onwards, WorkerInOrder, RunsRemain, StagesStay
<1>5. QED
  BY <1>3, <1>4 DEF Onwards, MovesInOrder

\* The steps of a stage.
LEMMA StageStepInOrder ==
  ASSUME ProductionTypeOK, OnSaved, OneProcess, WorkersInOrder, CallersInOrder, RunsRemain,
         [Next]_vars, NEW w \in Workers, StageStep(w)
  PROVE  MovesInOrder(w)
<1> DEFINE pc == worker[w].pc
           stage == worker[w].stage
<1>1. worker \in [Workers -> WorkerRows]
  BY DEF ProductionTypeOK, WorkerRows, Pcs
<1>2. pc # "idle" /\ pc \in OnStage \union {"defer"}
  BY DEF StageStep, AgentReturns, Load, MakeSkip, MakeMedia, MakeShared, MakeRefused, MakeDone,
         CallAccepted, CallDelivers, CallFails, Check, Count, Ensure, Advance, Complete, Defer, OnStage
<1>3. /\ worker[w].run \in RunIds /\ run[worker[w].run].status # "absent"
      /\ (pc \in OnStage => stage = run[worker[w].run].stage) /\ Fits(pc, stage)
  BY <1>2 DEF WorkersInOrder, WorkerInOrder
<1>4. pc \notin {"advance", "complete"} => StagesStay
  BY <1>2, StagesStayUntilAdvance
<1>5. ASSUME NEW next \in {"error", "release", "defer"}, Goto(w, next)
      PROVE  MovesInOrder(w)
  <2>1. Onwards(w, next)
    BY <1>1, <1>5, GotoFacts DEF Pcs
  <2>2. Fits(next, stage) /\ next \notin OnStage
    BY DEF Fits, OnStage
  <2>3. QED
    BY <1>2, <2>1, <2>2, OnwardsInOrder DEF Pcs
<1>6. ASSUME NEW next \in {"make", "check", "count", "ensure", "advance"}, Goto(w, next),
             pc \in OnStage \ {"advance", "complete"}, Fits(next, stage)
      PROVE  MovesInOrder(w)
  <2>1. Onwards(w, next)
    BY <1>1, <1>6, GotoFacts DEF Pcs
  <2>2. QED
    BY <1>2, <1>4, <1>6, <2>1, OnwardsInOrder DEF Pcs
<1>7. CASE AgentReturns(w)
  <2>1. pc = "agent" /\ (Goto(w, "advance") \/ Goto(w, "error"))
    BY <1>7 DEF AgentReturns
  <2>2. Fits("advance", stage)
    BY <1>3, <2>1 DEF Fits, OnStage, ChildStages, Product
  <2>3. QED
    BY <1>5, <1>6, <2>1, <2>2 DEF OnStage
<1>8. CASE Load(w)
  <2> DEFINE next == worker'[w].pc
  <2>1. pc = "load" /\ stage \in ChildStages
    BY <1>3, <1>8 DEF Load, Fits
  <2>2. /\ next \in {"error", "complete", "advance", "make"}
        /\ next = "complete" => stage = "merge"
        /\ next = "advance" => stage = "compose"
    BY <1>1, <1>8 DEF Load, WorkerRows
  <2>3. Work(stage) \subseteq shots
    BY <2>1 DEF Work, Lacking, ChildStages, Product
  <2>4. Work(stage) \in SUBSET (1..saved) /\ Work(stage) \in SUBSET (1..MaxShots)
    <3>1. shots \in SUBSET (1..saved) /\ saved \in 0..MaxShots
      BY DEF ProductionTypeOK
    <3>2. 1..saved \subseteq 1..MaxShots
      BY <3>1, ProductionAssumption
    <3>3. QED
      BY <2>3, <3>1, <3>2
  <2>5. /\ \A v \in Workers : v # w => worker'[v] = worker[v]
        /\ worker'[w] = [worker[w] EXCEPT !.todo = Work(stage), !.pc = next]
    BY <1>1, <1>8 DEF Load, WorkerRows
  <2>6. worker' = [v \in Workers |-> worker'[v]]
    BY <1>1, <1>8 DEF Load
  <2> HIDE DEF next
  <2>7. /\ worker'[w] \in WorkerRows /\ worker'[w].pc = next /\ worker'[w].run = worker[w].run
        /\ worker'[w].stage = stage /\ worker'[w].todo = Work(stage)
    <3> DEFINE todo == Work(stage)
    <3>1. todo \in SUBSET (1..MaxShots) /\ worker'[w] = [worker[w] EXCEPT !.todo = todo, !.pc = next]
      BY <2>4, <2>5
    <3> HIDE DEF todo
    <3>2. /\ worker'[w] \in WorkerRows /\ worker'[w].pc = next /\ worker'[w].run = worker[w].run
          /\ worker'[w].stage = stage /\ worker'[w].todo = todo
      BY <1>1, <2>2, <3>1 DEF WorkerRows, Pcs
    <3>3. QED
      BY <3>2 DEF todo
  <2>8. worker' \in [Workers -> WorkerRows]
    BY <1>1, <2>5, <2>6, <2>7
  <2>9. Fits(next, stage)
    BY <1>3, <2>1, <2>2 DEF Fits, OnStage
  <2>10. StagesStay
    BY <1>4, <2>1
  <2>11. WorkerInOrder(w)'
    BY <1>3, <2>1, <2>2, <2>7, <2>9, <2>10 DEF WorkerInOrder, RunsRemain, StagesStay, OnStage
  <2>12. QED
    BY <1>2, <2>4, <2>5, <2>7, <2>8, <2>11 DEF MovesInOrder
<1>9. ASSUME NEW next \in {"make", "calling"}, NEW j \in KidIds \union {NoKid}, Rework(w, next, j),
             pc = "make", next = "calling" => (j \in KidIds /\ stage \in ProviderStages)
      PROVE  MovesInOrder(w)
  <2>1. /\ worker' \in [Workers -> WorkerRows]
        /\ \A v \in Workers : v # w => worker'[v] = worker[v]
        /\ worker'[w].pc = next /\ worker'[w].run = worker[w].run /\ worker'[w].stage = stage
        /\ worker'[w].todo \subseteq worker[w].todo
    BY <1>1, <1>9, ReworkFacts DEF Pcs
  <2>2. worker'[w].kid = j
    BY <1>1, <1>9 DEF Rework, WorkerRows
  <2>3. worker'[w].todo \subseteq 1..saved
    BY <2>1 DEF OnSaved
  <2>4. StagesStay /\ Fits(next, stage)
    BY <1>3, <1>4, <1>9 DEF Fits, OnStage
  <2>5. WorkerInOrder(w)'
    BY <1>3, <1>9, <2>1, <2>2, <2>4 DEF WorkerInOrder, RunsRemain, StagesStay, OnStage
  <2>6. QED
    BY <1>2, <2>1, <2>3, <2>5 DEF MovesInOrder
<1>10. CASE MakeSkip(w) \/ MakeMedia(w) \/ MakeShared(w)
  BY <1>9, <1>10 DEF MakeSkip, MakeMedia, MakeShared
<1>11. CASE MakeRefused(w) \/ CallFails(w) \/ Defer(w)
  BY <1>5, <1>11 DEF MakeRefused, CallFails, Defer
<1>12. CASE MakeDone(w)
  <2>1. pc = "make" /\ Goto(w, IF stage = "merge" THEN "defer" ELSE "check")
    BY <1>12 DEF MakeDone
  <2>2. stage # "merge" => Fits("check", stage)
    BY <1>3, <2>1 DEF Fits, OnStage
  <2>3. QED
    BY <1>5, <1>6, <2>1, <2>2 DEF OnStage
<1>13. CASE CallAccepted(w) \/ CallDelivers(w)
  <2>1. pc = "calling" /\ (Goto(w, "make") \/ Goto(w, "error"))
    BY <1>13 DEF CallAccepted, CallDelivers
  <2>2. Fits("make", stage)
    BY <1>3, <2>1 DEF Fits, OnStage
  <2>3. QED
    BY <1>5, <1>6, <2>1, <2>2 DEF OnStage
<1>14. CASE Check(w) \/ Count(w) \/ Ensure(w)
  <2>1. /\ pc \in {"check", "count", "ensure"}
        /\ \E next \in {"error", "defer", "count", "ensure", "advance"} : Goto(w, next)
    BY <1>14 DEF Check, Count, Ensure
  <2>2. Fits("count", stage) /\ Fits("ensure", stage) /\ Fits("advance", stage)
    BY <1>3, <2>1 DEF Fits, OnStage
  <2>3. QED
    BY <1>5, <1>6, <2>1, <2>2 DEF OnStage
<1>15. CASE Advance(w)
  BY <1>5, <1>15 DEF Advance
<1>16. CASE Complete(w)
  <2>1. Leave(w) \/ Goto(w, "error")
    BY <1>16 DEF Complete
  <2>2. QED
    BY <1>1, <1>2, <1>5, <2>1, LeaveFacts, IdleInOrder
<1>17. QED
  BY <1>7, <1>8, <1>10, <1>11, <1>12, <1>13, <1>14, <1>15, <1>16 DEF StageStep

\* All the steps of a worker.
LEMMA WorkerStepInOrder ==
  ASSUME ProductionTypeOK, OnSaved, OneProcess, RunsInOrder, WorkersInOrder, CallersInOrder,
         RunsRemain, [Next]_vars, NEW w \in Workers, WorkerStep(w)
  PROVE  MovesInOrder(w)
<1> DEFINE pc == worker[w].pc
           stage == worker[w].stage
<1>1. worker \in [Workers -> WorkerRows] /\ run \in [RunIds -> RunRows]
  BY DEF ProductionTypeOK, WorkerRows, Pcs
<1>2. pc # "idle" => /\ worker[w].run \in RunIds /\ run[worker[w].run].status # "absent"
                     /\ (pc \in OnStage => stage = run[worker[w].run].stage) /\ Fits(pc, stage)
  BY DEF WorkersInOrder, WorkerInOrder
<1>3. ASSUME pc # "idle", Leave(w)
      PROVE  MovesInOrder(w)
  BY <1>1, <1>3, LeaveFacts, IdleInOrder
<1>4. ASSUME pc # "idle", NEW next \in {"error", "fail", "clean", "restore"}, Goto(w, next)
      PROVE  MovesInOrder(w)
  <2>1. Onwards(w, next)
    BY <1>1, <1>4, GotoFacts DEF Pcs
  <2>2. Fits(next, stage) /\ next \notin OnStage
    BY <1>4 DEF Fits, OnStage
  <2>3. QED
    BY <1>4, <2>1, <2>2, OnwardsInOrder DEF Pcs
<1>5. ASSUME pc \in {"selected", "claimed"}, NEW next \in {"claimed", "load", "agent"}, Goto(w, next),
             next = "load" => stage \in ChildStages, next = "agent" => stage \notin ChildStages
      PROVE  MovesInOrder(w)
  <2>1. Onwards(w, next)
    BY <1>1, <1>5, GotoFacts DEF Pcs
  <2>2. Fits(next, stage) /\ StagesStay
    BY <1>2, <1>5, StagesStayUntilAdvance DEF Fits, OnStage
  <2>3. QED
    BY <1>5, <2>1, <2>2, OnwardsInOrder DEF Pcs, OnStage
<1>6. CASE Select(w)
  <2>1. PICK r \in RunIds : /\ Queued(r) /\ pc = "idle" /\ life[w] \in Alive
                            /\ worker' = [worker EXCEPT ![w] = [Idle EXCEPT !.pc = "selected", !.run = r,
                                                                 !.stage = run[r].stage]]
    BY <1>6 DEF Select, Claimable, Alive
  <2>2. run[r].status = "queued" /\ run[r].stage \in Stages /\ run[r].stage # "completed"
    BY <1>1, <2>1 DEF Queued, RunRows, RunsInOrder
  <2>3. StagesStay
    BY <2>1, StagesStayUntilAdvance
  <2> DEFINE row == [Idle EXCEPT !.pc = "selected", !.run = r, !.stage = run[r].stage]
  <2>4. /\ row \in WorkerRows /\ row.pc = "selected" /\ row.run = r /\ row.stage = run[r].stage
        /\ row.todo = {}
    BY <2>2 DEF Idle, WorkerRows, Pcs
  <2>5. worker' = [worker EXCEPT ![w] = row]
    BY <2>1
  <2> HIDE DEF row
  <2>6. /\ worker' \in [Workers -> WorkerRows] /\ worker'[w] = row
        /\ \A v \in Workers : v # w => worker'[v] = worker[v]
    BY <1>1, <2>4, <2>5
  <2>7. WorkerInOrder(w)'
    BY <2>2, <2>3, <2>4, <2>6 DEF WorkerInOrder, Fits, RunsRemain, StagesStay
  <2>8. QED
    BY <2>1, <2>4, <2>6, <2>7 DEF MovesInOrder
<1>7. CASE Claim(w)
  <2>1. pc = "selected" /\ (Goto(w, "claimed") \/ Leave(w))
    BY <1>7 DEF Claim
  <2>2. QED
    BY <1>3, <1>5, <2>1
<1>8. CASE Start(w)
  <2>1. pc = "claimed" /\ \/ Goto(w, "error")
                          \/ stage \in ChildStages /\ Goto(w, "load")
                          \/ stage \notin ChildStages /\ Goto(w, "agent")
    BY <1>8 DEF Start, ChildStages
  <2>2. QED
    BY <1>4, <1>5, <2>1
<1>9. CASE Release(w) \/ HandleError(w)
  BY <1>3, <1>4, <1>9 DEF Release, HandleError
<1>10. CASE QueryFails(w) \/ Abandon(w)
  BY <1>3, <1>4, <1>10 DEF QueryFails, Abandon
<1>11. CASE FailRun(w) \/ FailClean(w) \/ FailRestore(w)
  BY <1>3, <1>4, <1>11 DEF FailRun, FailClean, FailRestore
<1>12. QED
  BY <1>6, <1>7, <1>8, <1>9, <1>10, <1>11, StageStepInOrder DEF WorkerStep

\* Every worker.
LEMMA StepWorkers ==
  ASSUME ProductionTypeOK, OnSaved, OneProcess, RunsInOrder, WorkersInOrder, CallersInOrder,
         RunsRemain, [Next]_vars
  PROVE  /\ worker' \in [Workers -> WorkerRows]
         /\ life' \in [Workers -> {"unborn", "up", "stopping", "gone"}]
         /\ \A w \in Workers : worker'[w].todo \subseteq 1..saved
         /\ OneProcess' /\ WorkersInOrder'
<1> DEFINE Goal == /\ worker' \in [Workers -> WorkerRows]
                   /\ life' \in [Workers -> {"unborn", "up", "stopping", "gone"}]
                   /\ \A w \in Workers : worker'[w].todo \subseteq 1..saved
                   /\ OneProcess' /\ WorkersInOrder'
<1>1. worker \in [Workers -> WorkerRows] /\ life \in [Workers -> {"unborn", "up", "stopping", "gone"}]
  BY DEF ProductionTypeOK, WorkerRows, Pcs
<1>2. \A w \in Workers : worker[w].pc = "idle" => (worker'[w] = worker[w] => WorkerInOrder(w)')
  BY DEF WorkerInOrder, Fits, OnStage
<1>3. ASSUME worker' = worker
      PROVE  WorkersInOrder' /\ \A w \in Workers : worker'[w].todo \subseteq 1..saved
  <2>1. \A w \in Workers : ~Advance(w) /\ ~Complete(w)
    <3>1. ASSUME NEW w \in Workers, Advance(w) \/ Complete(w)
          PROVE  FALSE
      <4>1. \/ Goto(w, "release") \/ Goto(w, "error") \/ Leave(w)
        BY <3>1 DEF Advance, Complete
      <4>2. worker'[w].pc \in {"release", "error", "idle"}
        BY <1>1, <4>1, GotoFacts, LeaveFacts DEF Pcs, Onwards, GoneIdle, Idle
      <4>3. QED
        BY <1>3, <3>1, <4>2 DEF Advance, Complete
    <3>2. QED
      BY <3>1
  <2>2. StagesStay
    BY <2>1, StagesMoveWithWorkers DEF StagesStay
  <2>3. ASSUME NEW w \in Workers
        PROVE  WorkerInOrder(w)'
    <3>1. WorkerInOrder(w)
      BY DEF WorkersInOrder
    <3>2. worker'[w] = worker[w]
      BY <1>3
    <3>3. QED
      BY <2>2, <3>1, <3>2 DEF WorkerInOrder, Fits, OnStage, StagesStay, RunsRemain
  <2>4. QED
    BY <1>3, <2>3 DEF WorkersInOrder, OnSaved
<1>4. CASE worker' = worker /\ life' = life
  <2>1. OneProcess'
    BY <1>4 DEF OneProcess
  <2>2. QED
    BY <1>1, <1>3, <1>4, <2>1
<1>5. CASE worker' = worker /\ LifeStep
  <2>1. PICK w \in Workers : Boot(w) \/ Stop(w) \/ Exit(w) \/ Die(w)
    BY <1>5 DEF LifeStep
  <2>2. life' \in [Workers -> {"unborn", "up", "stopping", "gone"}]
    BY <1>1, <2>1 DEF Boot, Stop, Exit, Die
  <2>3. OneProcess'
    <3>1. CASE Boot(w)
      BY <1>1, <1>5, <3>1 DEF Boot, OneProcess, Alive
    <3>2. CASE Stop(w)
      BY <1>1, <1>5, <3>2 DEF Stop, OneProcess, Alive
    <3>3. CASE Exit(w)
      BY <1>1, <1>5, <3>3 DEF Exit, OneProcess, Alive
    <3>4. CASE Die(w)
      <4>1. worker[w].pc = "idle"
        BY <1>1, <1>5, <3>4, LeaveFacts DEF Die, GoneIdle, Idle
      <4>2. QED
        BY <1>1, <1>5, <3>4, <4>1 DEF Die, OneProcess, Alive
    <3>5. QED
      BY <2>1, <3>1, <3>2, <3>3, <3>4
  <2>4. QED
    BY <1>1, <1>3, <1>5, <2>2, <2>3
<1>6. ASSUME NEW w \in Workers, WorkerStep(w), life' = life
      PROVE  Goal
  <2>1. MovesInOrder(w)
    BY <1>6, WorkerStepInOrder
  <2>2. \A v \in Workers : v # w => worker[v].pc = "idle" /\ worker'[v] = worker[v]
    BY <2>1, Alone DEF MovesInOrder
  <2>3. WorkersInOrder'
    BY <1>2, <2>1, <2>2 DEF MovesInOrder, WorkersInOrder
  <2>4. OneProcess'
    BY <1>6, <2>1, <2>2 DEF MovesInOrder, OneProcess
  <2>5. \A v \in Workers : worker'[v].todo \subseteq 1..saved
    BY <2>1, <2>2 DEF MovesInOrder, OnSaved
  <2>6. QED
    BY <1>1, <1>6, <2>1, <2>3, <2>4, <2>5 DEF MovesInOrder
<1>7. ASSUME NEW w \in Workers, Die(w)
      PROVE  Goal
  <2>1. GoneIdle(w) /\ life[w] \in Alive /\ life' = [life EXCEPT ![w] = "gone"]
    BY <1>1, <1>7, LeaveFacts DEF Die, Alive
  <2>2. \A v \in Workers : v # w => worker[v].pc = "idle" /\ worker'[v] = worker[v]
    BY <2>1, Alone DEF GoneIdle
  <2>3. worker'[w].pc = "idle" /\ worker'[w].todo = {}
    BY <2>1 DEF GoneIdle, Idle
  <2>4. WorkerInOrder(w)'
    BY <2>3 DEF WorkerInOrder, Fits, OnStage
  <2>5. WorkersInOrder'
    BY <1>2, <2>2, <2>4 DEF WorkersInOrder
  <2>6. OneProcess'
    BY <1>1, <2>1, <2>2, <2>3 DEF OneProcess, Alive
  <2>7. QED
    BY <1>1, <2>1, <2>2, <2>3, <2>5, <2>6 DEF GoneIdle, OnSaved
<1>8. QED
  BY <1>4, <1>5, <1>6, <1>7, WhoWritesWorker

\* An ended run is left alone until it is retried.
LEMMA EndedUntilRetried ==
  ASSUME ProductionTypeOK, [Next]_vars, NEW r \in RunIds, Ended(r),
         \A d \in Callers : caller[d].run = r => ~RetryWrite(d)
  PROVE  Ended(r)' /\ run'[r].attempt = run[r].attempt
<1> DEFINE Left == run'[r].status = run[r].status /\ run'[r].attempt = run[r].attempt
<1>1. run \in [RunIds -> RunRows]
  BY DEF ProductionTypeOK
<1>2. ~Queued(r) /\ run[r].status # "absent"
  BY DEF Ended, Queued
<1>3. ASSUME NEW w \in Workers, WritesRun(w)
      PROVE  Left
  <2> DEFINE q == worker[w].run
  <2>1. run' = run \/ Queued(q)
    BY <1>3 DEF WritesRun, Claim, Claimable, Advance, Complete, Defer, Release, HandleError, FailRun, Holds
  <2>2. CASE q # r
    BY <1>1, <1>3, <2>2 DEF WritesRun, Claim, Advance, Complete, Defer, Release, HandleError, FailRun, GiveBack
  <2>3. QED
    BY <1>2, <2>1, <2>2
<1>4. ASSUME NEW q \in RunIds, Create(q)
      PROVE  Left
  BY <1>1, <1>2, <1>4 DEF Create
<1>5. ASSUME NEW c \in Callers, NEW q \in RunIds, Cancel(c, q)
      PROVE  Left
  BY <1>1, <1>2, <1>5 DEF Cancel
<1>6. ASSUME NEW c \in Callers, RetryWrite(c)
      PROVE  Left
  BY <1>1, <1>6 DEF RetryWrite
<1>7. ASSUME TimeStep
      PROVE  Left
  BY <1>1, <1>7 DEF TimeStep, LeaseElapses, LeaseLost, BecomeDue, RunRows
<1>8. Left
  BY <1>3, <1>4, <1>5, <1>6, <1>7, WhoWritesRun
<1>9. QED
  BY <1>8 DEF Ended

\* Every request.
CallerRows == [pc : {"idle", "canceling", "retrying"}, run : RunIds \union {NoRun}]

LEMMA StepCallers ==
  ASSUME ProductionTypeOK, CallersInOrder, RunsRemain, [Next]_vars
  PROVE  caller' \in [Callers -> CallerRows] /\ CallersInOrder'
<1>1. caller \in [Callers -> CallerRows]
  BY DEF ProductionTypeOK, CallerRows
<1>2. ASSUME NEW c \in Callers, NEW r \in RunIds, RetryCheck(c, r)
      PROVE  caller' \in [Callers -> CallerRows] /\ CallersInOrder'
  <2>1. /\ run' = run /\ Ended(r) /\ run[r].attempt < MaxAttempts
        /\ caller' = [caller EXCEPT ![c] = [pc |-> "retrying", run |-> r]]
    BY <1>2 DEF RetryCheck
  <2>2. ASSUME NEW d \in Callers
        PROVE  ~(caller[d].pc = "retrying" /\ caller[d].run = r)
    <3>1. caller[d] # [pc |-> "retrying", run |-> r] /\ caller[d] \in CallerRows
      BY <1>1, <1>2 DEF RetryCheck
    <3>2. QED
      BY <3>1 DEF CallerRows
  <2>3. run[r].status # "absent"
    BY <2>1 DEF Ended
  <2>4. CallersInOrder'
    BY <1>1, <2>1, <2>2, <2>3 DEF CallersInOrder, Ended
  <2>5. QED
    BY <1>1, <2>1, <2>4 DEF CallerRows
<1>3. ASSUME NEW c \in Callers, NEW r \in RunIds, Cancel(c, r)
      PROVE  /\ caller' \in [Callers -> CallerRows]
             /\ caller'[c].pc = "canceling" /\ caller'[c].run = r /\ run[r].status # "absent"
             /\ \A d \in Callers : d # c => caller'[d] = caller[d]
  BY <1>1, <1>3 DEF Cancel, Queued, CallerRows
<1>4. ASSUME NEW c \in Callers, CallerStep(c)
      PROVE  /\ caller' \in [Callers -> CallerRows]
             /\ caller'[c].pc = "idle"
             /\ \A d \in Callers : d # c => caller'[d] = caller[d]
  BY <1>1, <1>4 DEF CallerStep, CancelFinish, RetryWrite, CallerDies, CallerRows, Rest
<1>5. ASSUME caller' \in [Callers -> CallerRows],
             \A c \in Callers : \/ caller'[c] = caller[c] /\ ~(RetryWrite(c))
                                \/ caller'[c].pc = "idle"
                                \/ /\ caller'[c].pc = "canceling" /\ caller'[c].run \in RunIds
                                   /\ run[caller'[c].run].status # "absent"
      PROVE  CallersInOrder'
  <2>1. \A c \in Callers : caller'[c].pc = "retrying" => caller'[c] = caller[c] /\ ~RetryWrite(c)
    BY <1>5
  <2>2. ASSUME NEW c \in Callers, caller'[c].pc # "idle"
        PROVE  caller'[c].run \in RunIds /\ run'[caller'[c].run].status # "absent"
    <3>1. caller'[c].run \in RunIds /\ run[caller'[c].run].status # "absent"
      BY <1>5, <2>2 DEF CallersInOrder
    <3>2. QED
      BY <3>1 DEF RunsRemain
  <2>3. ASSUME NEW c \in Callers, caller'[c].pc = "retrying"
        PROVE  /\ Ended(caller[c].run)' /\ run'[caller'[c].run].attempt < MaxAttempts
               /\ \A d \in Callers : (caller'[d].pc = "retrying" /\ caller'[d].run = caller'[c].run) => d = c
    <3>1. caller'[c] = caller[c] /\ ~RetryWrite(c)
      BY <2>1, <2>3
    <3> PICK r \in RunIds : r = caller[c].run
      BY <2>3, <3>1 DEF CallersInOrder
    <3>2. /\ r \in RunIds /\ Ended(r) /\ run[r].attempt < MaxAttempts
          /\ \A d \in Callers : (caller[d].pc = "retrying" /\ caller[d].run = r) => d = c
      BY <2>3, <3>1 DEF CallersInOrder
    <3>3. \A d \in Callers : caller[d].run = r => ~RetryWrite(d)
      BY <3>1, <3>2 DEF RetryWrite
    <3>4. Ended(r)' /\ run'[r].attempt = run[r].attempt
      BY <3>2, <3>3, EndedUntilRetried
    <3>5. \A d \in Callers : (caller'[d].pc = "retrying" /\ caller'[d].run = r) => d = c
      BY <2>1, <3>2
    <3>6. caller'[c].run = r
      BY <3>1
    <3>7. QED
      BY <3>2, <3>4, <3>5, <3>6 DEF Ended
  <2>4. QED
    BY <2>2, <2>3 DEF CallersInOrder
<1>6. \A c \in Callers : RetryWrite(c) => CallerStep(c)
  BY DEF CallerStep
<1>7. CASE caller' = caller
  <2>1. ASSUME NEW c \in Callers, CallerStep(c)
        PROVE  caller[c].pc = "idle"
    BY <1>4, <1>7, <2>1
  <2>2. QED
    BY <1>1, <1>5, <1>6, <1>7, <2>1
<1>8. ASSUME NEW c \in Callers, NEW r \in RunIds, Cancel(c, r)
      PROVE  caller' \in [Callers -> CallerRows] /\ CallersInOrder'
  <2>1. \A d \in Callers : ~RetryWrite(d)
    <3>1. ASSUME NEW d \in Callers, RetryWrite(d)
          PROVE  FALSE
      <4>1. caller[d].pc = "retrying" /\ caller'[d].pc = "idle"
        BY <1>1, <3>1 DEF RetryWrite, Rest
      <4>2. d # c
        BY <1>3, <1>8, <4>1
      <4>3. QED
        BY <1>3, <1>8, <4>1, <4>2
    <3>2. QED
      BY <3>1
  <2>2. QED
    BY <1>3, <1>5, <1>8, <2>1
<1>9. ASSUME NEW c \in Callers, CallerStep(c)
      PROVE  caller' \in [Callers -> CallerRows] /\ CallersInOrder'
  <2>1. \A d \in Callers : RetryWrite(d) => caller'[d].pc = "idle"
    BY <1>4, <1>6
  <2>2. QED
    BY <1>4, <1>5, <1>9, <2>1
<1>10. QED
  BY <1>1, <1>2, <1>7, <1>8, <1>9, WhoWritesCaller

-----------------------------------------------------------------------------
(***************************************************************************)
(* The inputs of the only run's stage.                                     *)
(***************************************************************************)
\* Whatever the only run's episode had it keeps, until its storyboards are
\* replaced.
Grows == shots' = shots /\ media \subseteq media' /\ (film # {} => film' # {})

LEMMA LackingShrinks ==
  ASSUME Grows, NEW product
  PROVE  Lacking(product)' \subseteq Lacking(product)
BY DEF Grows, Lacking

\* The steps that bring a worker to "advance", "make" or "complete".
LEMMA BearingSteps ==
  ASSUME ProductionTypeOK, NEW w \in Workers, WorkerStep(w),
         worker'[w].pc \in {"advance", "make", "complete"}
  PROVE  \/ AgentReturns(w) \/ Load(w) \/ MakeSkip(w) \/ MakeMedia(w) \/ MakeShared(w)
         \/ CallAccepted(w) \/ CallDelivers(w) \/ Ensure(w)
<1>1. worker \in [Workers -> WorkerRows]
  BY DEF ProductionTypeOK, WorkerRows, Pcs
<1>2. ASSUME NEW next \in {"claimed", "agent", "load", "check", "count", "ensure", "defer", "release",
                           "error", "fail", "clean", "restore"}, Goto(w, next)
      PROVE  FALSE
  BY <1>1, <1>2, GotoFacts DEF Onwards, Pcs
<1>3. ASSUME Leave(w)
      PROVE  FALSE
  BY <1>1, <1>3, LeaveFacts DEF GoneIdle, Idle
<1>4. ~Select(w)
  BY <1>1 DEF Select, Idle, WorkerRows
<1>5. ~Claim(w) /\ ~Start(w) /\ ~MakeRefused(w) /\ ~MakeDone(w) /\ ~CallFails(w)
  BY <1>2, <1>3 DEF Claim, Start, MakeRefused, MakeDone, CallFails
<1>6. ~Check(w) /\ ~Count(w) /\ ~Advance(w) /\ ~Complete(w) /\ ~Defer(w) /\ ~Release(w)
  BY <1>2, <1>3 DEF Check, Count, Advance, Complete, Defer, Release
<1>7. ~QueryFails(w) /\ ~HandleError(w) /\ ~Abandon(w) /\ ~FailRun(w) /\ ~FailClean(w) /\ ~FailRestore(w)
  BY <1>2, <1>3 DEF QueryFails, HandleError, Abandon, FailRun, FailClean, FailRestore
<1>8. QED
  BY <1>4, <1>5, <1>6, <1>7 DEF WorkerStep, StageStep

\* What a worker carries is there while the episode grows.
LEMMA CarriesOn ==
  ASSUME ProductionTypeOK, OnSaved, WorkersInOrder, NEW w \in Workers, Carries(w), Grows,
         worker'[w] = worker[w] \/ WorkerStep(w) \/ Die(w)
  PROVE  Carries(w)'
<1> DEFINE stage == worker[w].stage
<1>1. worker \in [Workers -> WorkerRows]
  BY DEF ProductionTypeOK, WorkerRows, Pcs
<1>2. \A product : Lacking(product)' \subseteq Lacking(product)
  BY LackingShrinks
<1>3. CASE worker'[w] = worker[w]
  BY <1>2, <1>3 DEF Carries, Grows
<1>4. CASE worker'[w].pc \notin {"advance", "make", "complete"}
  BY <1>4 DEF Carries
<1>5. CASE Die(w)
  BY <1>1, <1>4, <1>5, LeaveFacts DEF Die, GoneIdle, Idle
<1>6. ASSUME worker'[w].pc = "make", worker'[w].stage # "merge" \/ worker'[w].todo = {}
      PROVE  Carries(w)'
  BY <1>6 DEF Carries
<1>7. CASE AgentReturns(w)
  <2>1. worker[w].pc = "agent" /\ (Goto(w, "advance") \/ Goto(w, "error"))
    BY <1>7 DEF AgentReturns
  <2>2. stage \notin {"frames", "videos", "compose"}
    BY <2>1 DEF WorkersInOrder, WorkerInOrder, Fits, ChildStages, Product
  <2>3. worker'[w].pc \in {"advance", "error"} /\ worker'[w].stage = stage
    BY <1>1, <2>1, GotoFacts DEF Onwards, Pcs
  <2>4. QED
    BY <2>2, <2>3 DEF Carries
<1>8. CASE Load(w)
  <2> DEFINE next == worker'[w].pc
  <2>1. /\ worker'[w].stage = stage /\ worker'[w].todo = Work(stage)
        /\ next \in {"error", "complete", "advance", "make"}
        /\ next = "complete" => film # {}
        /\ next = "advance" => stage = "compose" /\ ~Unworkable(stage) /\ Work(stage) = {}
    BY <1>1, <1>8 DEF Load, WorkerRows
  <2>2. CASE next = "advance"
    <3>1. stage = "compose" /\ shots # {} /\ Lacking("composed") = {}
      BY <2>1, <2>2 DEF Unworkable, Work
    <3>2. QED
      BY <1>2, <2>1, <2>2, <3>1 DEF Carries, Grows, Product
  <2>3. CASE next = "make"
    <3>1. stage = "merge" => worker'[w].todo = shots
      BY <2>1 DEF Work
    <3>2. QED
      BY <2>1, <2>3, <3>1 DEF Carries, Grows
  <2>4. CASE next = "complete"
    BY <2>1, <2>4 DEF Carries, Grows
  <2>5. QED
    BY <1>4, <2>1, <2>2, <2>3, <2>4
<1>9. CASE MakeSkip(w) \/ MakeMedia(w) \/ MakeShared(w)
  <2>1. PICK next \in {"make", "calling"}, j \in KidIds \union {NoKid} : Rework(w, next, j)
    BY <1>9 DEF MakeSkip, MakeMedia, MakeShared
  <2>2. worker'[w].pc = next /\ worker'[w].stage = stage /\ worker'[w].todo = worker[w].todo \ Piece(w)
    BY <1>1, <2>1, ReworkFacts DEF Pcs
  <2>3. stage = "merge" => Piece(w) = worker[w].todo
    BY DEF Piece
  <2>4. QED
    BY <1>4, <1>6, <2>2, <2>3
<1>10. CASE CallAccepted(w) \/ CallDelivers(w)
  <2>1. worker[w].pc = "calling" /\ (Goto(w, "make") \/ Goto(w, "error"))
    BY <1>10 DEF CallAccepted, CallDelivers
  <2>2. stage # "merge"
    BY <2>1 DEF WorkersInOrder, WorkerInOrder, Fits, ProviderStages
  <2>3. worker'[w].pc \in {"make", "error"} /\ worker'[w].stage = stage
    BY <1>1, <2>1, GotoFacts DEF Onwards, Pcs
  <2>4. QED
    BY <1>4, <1>6, <2>2, <2>3
<1>11. CASE Ensure(w)
  <2>1. \/ Goto(w, "error")
        \/ Goto(w, "advance") /\ Ready(stage)
    BY <1>11 DEF Ensure
  <2>2. CASE Goto(w, "error")
    <3>1. worker'[w].pc = "error"
      BY <1>1, <2>2, GotoFacts DEF Onwards, Pcs
    <3>2. QED
      BY <1>4, <3>1
  <2>3. CASE Goto(w, "advance") /\ Ready(stage)
    <3>1. worker'[w].pc = "advance" /\ worker'[w].stage = stage
      BY <1>1, <2>3, GotoFacts DEF Onwards, Pcs
    <3>2. stage \in {"frames", "videos", "compose"} => shots # {} /\ Lacking(Product[stage]) = {}
      BY <2>3 DEF Ready
    <3>3. QED
      BY <1>2, <3>1, <3>2 DEF Carries, Grows
  <2>4. QED
    BY <2>1, <2>2, <2>3
<1>12. QED
  BY <1>3, <1>4, <1>5, <1>7, <1>8, <1>9, <1>10, <1>11, BearingSteps

\* A job that makes the film is of what its worker has to merge.
LEMMA NewFilms ==
  ASSUME ProductionTypeOK, OnSaved, WorkersInOrder, CallersInOrder, [Next]_vars,
         NEW j \in KidIds, Accepted(j), kid'[j].makes = "film"
  PROVE  \E w \in Workers : /\ worker[w].pc = "make" /\ worker[w].stage = "merge"
                            /\ worker[w].todo # {} /\ kid'[j].shots = worker[w].todo
<1>1. kid \in [KidIds -> KidRows] /\ saved \in 0..MaxShots
  BY DEF ProductionTypeOK
<1>2. ~NothingNew
  BY DEF NothingNew, Accepted
<1>3. PICK w \in Workers : MakeMedia(w) \/ MakeShared(w)
  BY <1>2, OtherWritesOfChildren
<1>4. /\ worker[w].pc = "make" /\ worker[w].todo # {}
      /\ worker[w].run \in RunIds /\ worker[w].stage \in ChildStages
      /\ Product[worker[w].stage] \in Products /\ Piece(w) \in SUBSET (1..saved)
  BY <1>3, MakerFacts DEF MakeMedia, MakeShared
<1>5. ASSUME NEW i \in KidIds, Attaches(w, i)
      PROVE  FALSE
  BY <1>4, <1>5, AttachFacts DEF Stays, Accepted
<1>6. PICK i \in KidIds : NewKid(i, Product[worker[w].stage], Piece(w), worker[w].run)
  BY <1>3, <1>5, SharedFacts DEF MakeMedia
<1>7. /\ kid'[i].makes = Product[worker[w].stage] /\ kid'[i].shots = Piece(w)
      /\ \A k \in KidIds \ {i} : kid'[k] = kid[k]
  <2> DEFINE product == Product[worker[w].stage]
             S == Piece(w)
             r == worker[w].run
  <2>1. product \in Products /\ S \in SUBSET (1..saved) /\ r \in RunIds
    BY <1>4
  <2>2. NewKid(i, product, S, r)
    BY <1>6
  <2> HIDE DEF product, S, r
  <2>3. /\ kid'[i].makes = product /\ kid'[i].shots = S
        /\ \A k \in KidIds \ {i} : kid'[k] = kid[k]
    <3>1. KidsMoveOn /\ kid'[i].makes = product /\ kid'[i].shots = S
      BY <1>1, <2>1, <2>2, NewKidFacts
    <3>2. \A k \in KidIds \ {i} : kid'[k] = kid[k]
      BY <1>1, <2>1, <2>2, NewKidFacts
    <3>3. QED
      BY <3>1, <3>2
  <2>4. QED
    BY <2>3 DEF product, S
<1>8. i = j
  BY <1>7 DEF Accepted
<1>9. worker[w].stage = "merge"
  BY <1>4, <1>7, <1>8 DEF ChildStages, Product
<1>10. QED
  BY <1>4, <1>7, <1>8, <1>9 DEF Piece

\* The only run keeps its inputs, stage by stage.
Orderly ==
  /\ ProductionTypeOK /\ OnSaved /\ OneProcess /\ RunsInOrder /\ CallersInOrder /\ WorkersInOrder

LEMMA StepInputs ==
  ASSUME Orderly, OneRunMoves, [Next]_vars, NEW r \in RunIds, OnlyRun(r), InputsOf(r)
  PROVE  InputsOf(r)'
<1> USE DEF Orderly
<1>1. /\ run \in [RunIds -> RunRows] /\ worker \in [Workers -> WorkerRows]
      /\ kid \in [KidIds -> KidRows]
  BY DEF ProductionTypeOK, WorkerRows, Pcs
<1>2. ASSUME NEW w \in Workers, worker[w].pc # "idle"
      PROVE  worker[w].run = r
  BY <1>2 DEF OnlyRun, WorkersInOrder, WorkerInOrder
<1>3. ASSUME NEW w \in Workers, AgentSaves(w)
      PROVE  InputsOf(r)'
  <2>1. /\ worker[w].pc = "agent" /\ worker[w].stage = "storyboards"
        /\ run' = run /\ kid' = kid /\ film' = film /\ worker' = worker
    BY <1>3 DEF AgentSaves, threads
  <2>2. run[r].stage = "storyboards"
    BY <1>2, <2>1 DEF WorkersInOrder, WorkerInOrder, OnStage
  <2>3. film = {} /\ \A j \in KidIds : ~(kid[j].phase # "absent" /\ kid[j].makes = "film")
    BY <2>2 DEF InputsOf, Furthest
  <2>4. ASSUME NEW v \in Workers
        PROVE  worker'[v].pc \notin {"advance", "make", "complete"}
    BY <2>1, Alone
  <2>5. \A v \in Workers : Carries(v)'
    BY <2>4 DEF Carries
  <2>6. QED
    BY <2>1, <2>2, <2>3, <2>5 DEF InputsOf, After
<1>4. ASSUME Grows, film' # {} => Furthest(r) /\ film' = shots
      PROVE  InputsOf(r)'
  <2>1. \A product : Lacking(product)' \subseteq Lacking(product)
    BY <1>4, LackingShrinks
  <2>2. ASSUME NEW w \in Workers
        PROVE  Carries(w)'
    <3>1. worker'[w] = worker[w] \/ WorkerStep(w) \/ Die(w)
      <4>1. ASSUME NEW v \in Workers, WorkerStep(v)
            PROVE  w # v => worker'[w] = worker[w]
        BY <4>1, WorkerStepInOrder, RunsDoRemain DEF MovesInOrder
      <4>2. ASSUME NEW v \in Workers, Die(v)
            PROVE  w # v => worker'[w] = worker[w]
        BY <1>1, <4>2, LeaveFacts DEF Die, GoneIdle
      <4>3. QED
        BY <4>1, <4>2, WhoWritesWorker
    <3>2. Carries(w)
      BY DEF InputsOf
    <3>3. QED
      BY <1>4, <3>1, <3>2, CarriesOn
  <2>3. Furthest(r) => Furthest(r)'
    BY <1>1 DEF Furthest, OneRunMoves, KeepsPlace, MovesOn, Begins, Advances, Finishes, Aborts, Resumes
  <2>4. ASSUME NEW j \in KidIds, kid'[j].phase # "absent", kid'[j].makes = "film"
        PROVE  Furthest(r) /\ kid'[j].shots = shots
    <3>1. CASE Accepted(j)
      <4>1. PICK w \in Workers : /\ worker[w].pc = "make" /\ worker[w].stage = "merge"
                                 /\ worker[w].todo # {} /\ kid'[j].shots = worker[w].todo
        BY <2>4, <3>1, NewFilms
      <4>2. worker[w].todo = shots
        BY <4>1 DEF InputsOf, Carries
      <4>3. run[r].stage = "merge"
        BY <1>2, <4>1 DEF WorkersInOrder, WorkerInOrder, OnStage
      <4>4. QED
        BY <4>1, <4>2, <4>3 DEF Furthest
    <3>2. CASE Stays(j) \/ Concluded(j) \/ Reopened(j)
      BY <2>4, <3>2 DEF Stays, Concluded, Reopened, KeepsWork, InputsOf
    <3>3. QED
      BY <3>1, <3>2, KidsMove DEF KidsMoveOn
  <2>5. /\ (film' # {} => Furthest(r)' /\ film' = shots')
        /\ \A j \in KidIds : (kid'[j].phase # "absent" /\ kid'[j].makes = "film")
                             => Furthest(r)' /\ kid'[j].shots = shots'
    BY <1>4, <2>3, <2>4 DEF Grows
  <2> DEFINE stage == run'[r].stage
  <2>6. /\ stage \in {"videos", "tts", "compose", "merge", "completed"} => shots # {} /\ Lacking("frame") = {}
        /\ stage \in {"tts", "compose", "merge", "completed"} => Lacking("video") = {}
        /\ stage \in {"merge", "completed"} => Lacking("composed") = {}
        /\ stage \in {"completed"} => film # {}
    <3>1. CASE stage = run[r].stage
      BY <3>1 DEF InputsOf, After
    <3>2. CASE stage # run[r].stage
      <4>1. PICK w \in Workers : Advance(w) \/ Complete(w)
        BY <3>2, StagesMoveWithWorkers
      <4>2. worker[w].pc \in {"advance", "complete"} /\ Carries(w)
        BY <4>1 DEF Advance, Complete, InputsOf
      <4>3. worker[w].stage = run[r].stage /\ Fits(worker[w].pc, worker[w].stage)
        BY <1>2, <4>2 DEF WorkersInOrder, WorkerInOrder, OnStage
      <4>4. Advances(r) \/ Finishes(r)
        BY <3>2 DEF OneRunMoves, KeepsPlace, MovesOn, Begins, Aborts, Resumes
      <4>5. CASE Advances(r)
        <5>1. /\ stage = NextStage[run[r].stage] /\ run[r].stage \notin {"merge", "completed"}
              /\ run[r].stage \in Stages
          BY <1>1, <4>5 DEF Advances, RunRows
        <5>2. worker[w].pc = "advance"
          BY <4>2, <4>3, <5>1 DEF Fits
        <5>3. run[r].stage \in {"frames", "videos", "compose"} =>
                shots # {} /\ Lacking(Product[run[r].stage]) = {}
          BY <4>2, <4>3, <5>2 DEF Carries
        <5> HIDE DEF stage
        <5>4. CASE run[r].stage \in {"script", "extract", "storyboards"}
          BY <5>1, <5>4 DEF NextStage
        <5>5. CASE run[r].stage = "frames"
          BY <5>1, <5>3, <5>5 DEF NextStage, Product
        <5>6. CASE run[r].stage = "videos"
          BY <5>1, <5>3, <5>6 DEF NextStage, Product, InputsOf, After
        <5>7. CASE run[r].stage = "tts"
          BY <5>1, <5>7 DEF NextStage, InputsOf, After
        <5>8. CASE run[r].stage = "compose"
          BY <5>1, <5>3, <5>8 DEF NextStage, Product, InputsOf, After
        <5>9. QED
          BY <5>1, <5>4, <5>5, <5>6, <5>7, <5>8 DEF Stages, NextStage
      <4>6. CASE Finishes(r)
        <5>1. run[r].stage = "merge" /\ stage = "completed"
          BY <4>6 DEF Finishes
        <5>2. worker[w].pc = "complete"
          BY <4>2, <4>3, <5>1 DEF Fits
        <5>3. QED
          BY <4>2, <5>1, <5>2 DEF Carries, InputsOf, After
      <4>7. QED
        BY <4>4, <4>5, <4>6
    <3>3. QED
      BY <3>1, <3>2
  <2>7. QED
    BY <1>4, <2>1, <2>2, <2>5, <2>6 DEF InputsOf, After, Grows
<1>5. CASE UNCHANGED content
  <2>1. film' = film /\ shots' = shots /\ media' = media
    BY <1>5 DEF content
  <2>2. QED
    BY <1>4, <2>1 DEF Grows, InputsOf
<1>6. ASSUME UNCHANGED <<shots, saved, run>>, NEW j \in KidIds, Active(j), Deliver(j)
      PROVE  InputsOf(r)'
  <2>1. media \subseteq media' /\ (film' = film \/ (kid[j].makes = "film" /\ film' = kid[j].shots))
    BY <1>6, DeliverFacts
  <2>2. film # {} => Furthest(r) /\ film = shots
    BY DEF InputsOf
  <2>3. kid[j].makes = "film" => Furthest(r) /\ kid[j].shots = shots
    BY <1>6 DEF InputsOf, Active
  <2>4. QED
    BY <1>4, <1>6, <2>1, <2>2, <2>3 DEF Grows
<1>7. QED
  BY <1>3, <1>5, <1>6, ContentMoves

-----------------------------------------------------------------------------
(***************************************************************************)
(* The invariant.                                                          *)
(***************************************************************************)
LEMMA InitInv == Init => ProductionInv
<1> SUFFICES ASSUME Init PROVE ProductionInv
  OBVIOUS
<1>1. 0 \in 0..MaxShots /\ 0 \in 0..MaxFaults /\ 1 \in 1..MaxAttempts /\ 1 \in 1..MaxTries
  BY ProductionAssumption
<1>2. run \in [RunIds -> RunRows] /\ kid \in [KidIds -> KidRows]
  BY <1>1 DEF Init, RunRows, KidRows, Stages, NextStage, Products, Product
<1>3. worker \in [Workers -> WorkerRows] /\ \A w \in Workers : worker[w].pc = "idle" /\ worker[w].todo = {}
  BY DEF Init, WorkerRows, Idle, Pcs, Stages, NextStage
<1>4. caller \in [Callers -> CallerRows] /\ \A c \in Callers : caller[c].pc = "idle"
  BY DEF Init, CallerRows, Rest
<1>5. ProductionTypeOK
  BY <1>1, <1>2, <1>3, <1>4 DEF Init, ProductionTypeOK, WorkerRows, CallerRows, Pcs
<1>6. OnSaved
  BY <1>3 DEF Init, OnSaved
<1>7. OneProcess /\ RunsInOrder /\ CallersInOrder
  BY <1>3, <1>4 DEF Init, OneProcess, RunsInOrder, CallersInOrder, Alive
<1>8. WorkersInOrder
  BY <1>3 DEF WorkersInOrder, WorkerInOrder, Fits, OnStage
<1>9. SharedOnce /\ NoDuplicateChild
  BY DEF Init, SharedOnce, NoDuplicateChild, Active
<1>10. InputsInOrder
  <2>1. \A w \in Workers : Carries(w)
    BY <1>3 DEF Carries
  <2>2. QED
    BY <2>1 DEF Init, InputsInOrder, InputsOf, After, Furthest
<1>11. QED
  BY <1>5, <1>6, <1>7, <1>8, <1>9, <1>10 DEF ProductionInv

\* The rest of the types.
LEMMA StepCounters ==
  ASSUME ProductionTypeOK, OnSaved, WorkersInOrder, [Next]_vars
  PROVE  /\ episode' \in {"draft", "processing", "completed", "failed"}
         /\ faults' \in 0..MaxFaults
<1>1. episode \in {"draft", "processing", "completed", "failed"} /\ faults \in 0..MaxFaults
  BY DEF ProductionTypeOK
<1>2. Fault => faults' \in 0..MaxFaults
  BY <1>1, ProductionAssumption DEF Fault
<1>3. ASSUME NEW w \in Workers, WorkerStep(w)
      PROVE  /\ faults' = faults \/ Fault
             /\ episode' \in {episode, "completed", "failed"}
  <2>1. CASE CallDelivers(w)
    <3>1. faults' = faults /\ Deliver(worker[w].kid) /\ worker[w].kid \in KidIds
      BY <2>1 DEF CallDelivers, WorkersInOrder, WorkerInOrder
    <3>2. QED
      BY <3>1, DeliverFacts
  <2>2. CASE ~CallDelivers(w)
    <3>1. faults' = faults \/ Fault
      BY <1>3, <2>2 DEF WorkerStep, StageStep, Select, Claim, Start, AgentReturns, Load, MakeSkip,
         MakeMedia, MakeShared, MakeRefused, MakeDone, CallAccepted, CallFails, Check, Count, Ensure,
         Advance, Complete, Defer, Release, QueryFails, HandleError, Abandon, FailRun, FailClean,
         FailRestore
    <3>2. episode' \in {episode, "completed", "failed"}
      BY <1>3, <2>2 DEF WorkerStep, StageStep, Select, Claim, Start, AgentReturns, Load, MakeSkip,
         MakeMedia, MakeShared, MakeRefused, MakeDone, CallAccepted, CallFails, Check, Count, Ensure,
         Advance, Complete, Defer, Release, QueryFails, HandleError, Abandon, FailRun, FailClean,
         FailRestore
    <3>3. QED
      BY <3>1, <3>2
  <2>3. QED
    BY <2>1, <2>2
<1>4. ASSUME NEW j \in KidIds, Settling(j)
      PROVE  faults' = faults /\ episode' \in {episode, "completed"}
  BY <1>4, DeliverFacts DEF Settling, KidSucceeds, KidFails, threads
<1>5. ASSUME UserStep \/ (\E c \in Callers : CallerStep(c))
      PROVE  faults' = faults /\ episode' \in {episode, "processing", "draft"}
  BY <1>5 DEF UserStep, Create, Cancel, RetryCheck, KidCancel, KidRetry, CallerStep, CancelFinish,
              RetryWrite, CallerDies, threads
<1>6. ASSUME LifeStep \/ TimeStep \/ (\E w \in Workers : AgentSaves(w)) \/ UNCHANGED vars
      PROVE  (faults' = faults \/ Fault) /\ episode' = episode
  BY <1>6 DEF LifeStep, Boot, Stop, Exit, Die, TimeStep, LeaseElapses, LeaseLost, BecomeDue,
              AgentSaves, threads, vars
<1>7. QED
  BY <1>1, <1>2, <1>3, <1>4, <1>5, <1>6 DEF Next

LEMMA StepInv ==
  ASSUME ProductionInv, [Next]_vars
  PROVE  ProductionInv'
<1>1. /\ ProductionTypeOK /\ OnSaved /\ OneProcess /\ RunsInOrder /\ CallersInOrder /\ WorkersInOrder
      /\ SharedOnce /\ NoDuplicateChild /\ InputsInOrder
  BY DEF ProductionInv
<1>2. OneRunMoves /\ RunsRemain
  BY <1>1, RunsMove, RunsDoRemain
<1>3. KidsMoveOn
  BY <1>1, KidsMove
<1>4. ContentIsTyped' /\ 1..saved \subseteq 1..saved'
  BY <1>1, ContentStaysTyped
<1>5. /\ worker' \in [Workers -> WorkerRows]
      /\ life' \in [Workers -> {"unborn", "up", "stopping", "gone"}]
      /\ \A w \in Workers : worker'[w].todo \subseteq 1..saved
      /\ OneProcess' /\ WorkersInOrder'
  BY <1>1, <1>2, StepWorkers
<1>6. caller' \in [Callers -> CallerRows] /\ CallersInOrder'
  BY <1>1, <1>2, StepCallers
<1>7. ProductionTypeOK'
  BY <1>1, <1>2, <1>3, <1>4, <1>5, <1>6, StepCounters
     DEF ProductionTypeOK, OneRunMoves, KidsMoveOn, ContentIsTyped, WorkerRows, CallerRows, Pcs
<1>8. OnSaved'
  <2>1. ASSUME NEW j \in KidIds
        PROVE  kid'[j].shots \subseteq 1..saved
    BY <1>1, <1>3 DEF KidsMoveOn, Stays, Accepted, Concluded, Reopened, KeepsWork, OnSaved
  <2>2. QED
    BY <1>4, <1>5, <2>1 DEF OnSaved
<1>9. RunsInOrder'
  BY <1>1, <1>2, RunsStayInOrder
<1>10. SharedOnce' /\ NoDuplicateChild'
  BY <1>1, StepTwins
<1>11. InputsInOrder'
  <2> SUFFICES ASSUME NEW r \in RunIds, \A q \in RunIds \ {r} : run'[q].status = "absent"
               PROVE  InputsOf(r)'
    BY DEF InputsInOrder, OnlyRun
  <2>1. OnlyRun(r)
    BY <1>2 DEF OnlyRun, RunsRemain
  <2>2. InputsOf(r)
    BY <1>1, <2>1 DEF InputsInOrder
  <2>3. QED
    BY <1>1, <1>2, <2>1, <2>2, StepInputs DEF Orderly
<1>12. QED
  BY <1>5, <1>6, <1>7, <1>8, <1>9, <1>10, <1>11 DEF ProductionInv

-----------------------------------------------------------------------------
\* The invariant of production runs: one worker at a time works on the stage
\* its run is in, and the steps, the children and the inputs fit the stage.
THEOREM ProductionIsSound == Spec => []ProductionInv
<1>1. ProductionInv /\ [Next]_vars => ProductionInv'
  BY StepInv
<1>2. QED
  BY InitInv, <1>1, PTL DEF Spec

\* Attempts of runs and children stay within their bounds, media and films
\* belong to storyboards that were saved, whatever fails or is killed.
THEOREM ProductionKeepsItsTypes == Spec => []ProductionTypeOK
<1>1. ProductionInv => ProductionTypeOK
  BY DEF ProductionInv
<1>2. QED
  BY ProductionIsSound, <1>1, PTL

\* A run that left a stage has the inputs of the later ones: no worker, lease or
\* late result can bring a run past frames, videos or compositions that are not
\* there.
THEOREM StagesHaveTheirInputs == Spec => []StageHasInputs
<1>1. ProductionInv => StageHasInputs
  <2> SUFFICES ASSUME ProductionInv, NEW r \in RunIds, OnlyRun(r)
               PROVE  /\ After(r, {"videos", "tts", "compose", "merge", "completed"}) => shots # {} /\ Lacking("frame") = {}
                      /\ After(r, {"tts", "compose", "merge", "completed"}) => Lacking("video") = {}
                      /\ After(r, {"merge", "completed"}) => Lacking("composed") = {}
                      /\ After(r, {"completed"}) => film # {} /\ film = shots
    BY DEF StageHasInputs
  <2>1. InputsOf(r)
    BY DEF ProductionInv, InputsInOrder
  <2>2. QED
    BY <2>1 DEF InputsOf
<1>2. QED
  BY ProductionIsSound, <1>1, PTL

\* A run never pays twice for one storyboard's frame, video, audio, composition
\* or for one film at a time: its second active job of a kind is one that a
\* user reopened.
THEOREM ChildrenAreNotDoubled == Spec => []NoDuplicateChild
<1>1. ProductionInv => NoDuplicateChild
  BY DEF ProductionInv
<1>2. QED
  BY ProductionIsSound, <1>1, PTL

-----------------------------------------------------------------------------
(***************************************************************************)
(* What runs and children promise.                                         *)
(***************************************************************************)
\* A run that moves, moves as its specification has it.
LEMMA RunStep ==
  ASSUME RunsInOrder, ProductionTypeOK, NEW r \in RunIds, MovesOn(r),
         \A q \in RunIds \ {r} : KeepsPlace(q)
  PROVE  Abstract!RNext
<1>1. /\ [q \in RunIds |-> run[q].status]' = [[q \in RunIds |-> run[q].status] EXCEPT ![r] = run'[r].status]
      /\ [q \in RunIds |-> run[q].stage]' = [[q \in RunIds |-> run[q].stage] EXCEPT ![r] = run'[r].stage]
      /\ [q \in RunIds |-> run[q].attempt]' = [[q \in RunIds |-> run[q].attempt] EXCEPT ![r] = run'[r].attempt]
  BY DEF KeepsPlace
<1>2. CASE Begins(r)
  <2>1. run[r].stage = "script" /\ run[r].attempt = 1
    BY <1>2 DEF Begins, RunsInOrder
  <2>2. Abstract!Begin(r)
    BY <1>1, <1>2, <2>1 DEF Abstract!Begin, Abstract!Becomes, Begins
  <2>3. QED
    BY <2>2 DEF Abstract!RNext
<1>3. CASE Advances(r)
  <2>1. Abstract!Advance(r)
    BY <1>1, <1>3 DEF Abstract!Advance, Abstract!Becomes, Advances, Abstract!NextStage, NextStage
  <2>2. QED
    BY <2>1 DEF Abstract!RNext
<1>4. CASE Finishes(r)
  <2>1. Abstract!Finish(r)
    BY <1>1, <1>4 DEF Abstract!Finish, Abstract!Becomes, Finishes
  <2>2. QED
    BY <2>1 DEF Abstract!RNext
<1>5. CASE Aborts(r)
  <2>1. Abstract!Abort(r, run'[r].status) /\ run'[r].status \in {"failed", "canceled"}
    BY <1>1, <1>5 DEF Abstract!Abort, Abstract!Becomes, Aborts
  <2>2. QED
    BY <2>1 DEF Abstract!RNext
<1>6. CASE Resumes(r)
  <2>1. Abstract!Resume(r)
    BY <1>1, <1>6 DEF Abstract!Resume, Abstract!Becomes, Resumes, Ended
  <2>2. QED
    BY <2>1 DEF Abstract!RNext
<1>7. QED
  BY <1>2, <1>3, <1>4, <1>5, <1>6 DEF MovesOn

\* A run works through its stages in order and never back, is completed from the
\* last one only, and an ended one is left alone until it is retried, however
\* workers, leases and requests race: production runs implement ProductionRun.
THEOREM RunsAreProductionRuns == Spec => ImplementsRun
<1>1. Init => Abstract!RInit
  BY DEF Init, Abstract!RInit
<1>2. ProductionInv /\ [Next]_vars =>
        [Abstract!RNext]_<<[r \in RunIds |-> run[r].status], [r \in RunIds |-> run[r].stage],
                           [r \in RunIds |-> run[r].attempt]>>
  <2> SUFFICES ASSUME ProductionInv, [Next]_vars
               PROVE  [Abstract!RNext]_<<[r \in RunIds |-> run[r].status], [r \in RunIds |-> run[r].stage],
                                         [r \in RunIds |-> run[r].attempt]>>
    OBVIOUS
  <2>1. OneRunMoves
    BY RunsMove DEF ProductionInv
  <2>2. CASE \A r \in RunIds : KeepsPlace(r)
    BY <2>2 DEF KeepsPlace
  <2>3. ASSUME NEW r \in RunIds, MovesOn(r), \A q \in RunIds \ {r} : KeepsPlace(q)
        PROVE  Abstract!RNext
    BY <2>3, RunStep DEF ProductionInv
  <2>4. QED
    BY <2>1, <2>2, <2>3 DEF OneRunMoves
<1>3. QED
  BY ProductionIsSound, <1>1, <1>2, PTL DEF Spec, ImplementsRun, Abstract!RSpec

\* Whatever a run, its worker and the users do to a child, it moves as the job
\* service promises: it is settled once per attempt and reopened only after a
\* failure or a cancellation.
THEOREM ChildrenAreJobs == Spec => ChildrenFollowLifecycle
<1>1. Init => ChildLifecycle!LInit
  BY DEF Init, ChildLifecycle!LInit
<1>2. ProductionInv /\ [Next]_vars => ChildLifecycle!LStep
  <2> SUFFICES ASSUME ProductionInv, [Next]_vars, NEW j \in KidIds
               PROVE  \/ ChildLifecycle!Keeps(j) \/ ChildLifecycle!Accept(j)
                      \/ ChildLifecycle!Conclude(j) \/ ChildLifecycle!Reopen(j)
    BY DEF ChildLifecycle!LStep
  <2>1. Stays(j) \/ Accepted(j) \/ Concluded(j) \/ Reopened(j)
    BY KidsMove DEF ProductionInv, KidsMoveOn
  <2>2. CASE Stays(j)
    BY <2>2 DEF Stays, ChildLifecycle!Keeps
  <2>3. CASE Accepted(j)
    BY <2>3 DEF Accepted, ChildLifecycle!Accept
  <2>4. CASE Concluded(j)
    BY <2>4 DEF Concluded, ChildLifecycle!Conclude
  <2>5. CASE Reopened(j)
    BY <2>5 DEF Reopened, ChildLifecycle!Reopen
  <2>6. QED
    BY <2>1, <2>2, <2>3, <2>4, <2>5
<1>3. QED
  BY ProductionIsSound, <1>1, <1>2, PTL DEF Spec, ChildrenFollowLifecycle, ChildLifecycle!LSpec

=============================================================================
