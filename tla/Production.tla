----------------------------- MODULE Production -----------------------------
(***************************************************************************)
(* The automatic production of one episode (services/production): runs,    *)
(* their lease, the worker that takes them from stage to stage, the        *)
(* children they create in the job service, and users who start, cancel    *)
(* and retry runs and their children at any moment.                        *)
(*                                                                         *)
(* Of a child only the phase of JobLifecycle.tla is kept: Jobs.tla shows   *)
(* that the job service implements it.  An agent or a provider may fail at *)
(* any time, which covers a context that was canceled.                     *)
(***************************************************************************)
EXTENDS Integers, FiniteSets, FiniteSetsExt

CONSTANTS MaxRuns,            \* bound: rows of production_runs
          MaxKids,            \* bound: child jobs
          MaxShots,           \* bound: storyboards ever saved
          Voiced,             \* storyboards with dialogue
          MaxAttempts,        \* max_attempts, 3 in Create
          MaxTries,           \* bound: attempts of a child
          Reopenable,         \* bound: the products whose jobs users retry
          Workers, NoWorker,  \* lease_owner: one per life of a process
          Callers,            \* requests inside Cancel or Retry
          MaxFaults           \* bound: single queries that fail

ASSUME ProductionAssumption ==
  /\ MaxRuns \in Nat /\ MaxKids \in Nat /\ MaxShots \in Nat
  /\ MaxAttempts \in Nat \ {0} /\ MaxTries \in Nat \ {0}
  /\ Voiced \subseteq 1..MaxShots
  /\ NoWorker \notin Workers
  /\ MaxFaults \in Nat

VARIABLES
  run,      \* production_runs
  kid,      \* generation_jobs of the episode
  shots,    \* storyboards of the episode that exist
  saved,    \* the largest id of a storyboard so far
  media,    \* what the storyboards have: first frame, video, audio, composed
  film,     \* the storyboards the episode's video_url was merged from
  episode,  \* the episode's status
  worker,   \* what each worker has in memory
  life,     \* of each worker's process
  caller,   \* what each request has in memory
  faults    \* how many queries failed so far

content == <<shots, saved, media, film>>
threads == <<worker, life, caller, faults>>
vars == <<run, kid, shots, saved, media, film, episode, worker, life, caller, faults>>

RunIds == 1..MaxRuns
KidIds == 1..MaxKids
NoRun == 0
NoKid == 0

NextStage == [script |-> "extract", extract |-> "storyboards", storyboards |-> "frames",
              frames |-> "videos", videos |-> "tts", tts |-> "compose", compose |-> "merge",
              merge |-> "completed"]
Stages == DOMAIN NextStage \union {"completed"}

\* what a stage's children make
Product == [frames |-> "frame", videos |-> "video", tts |-> "audio",
            compose |-> "composed", merge |-> "film"]
ProviderStages == {"frames", "videos"}
Products == {Product[g] : g \in DOMAIN Product}

RunRows == [status : {"absent", "queued", "succeeded", "failed", "canceled"}, stage : Stages,
            attempt : 1..MaxAttempts, holder : Workers \union {NoWorker},
            lease : {"none", "live", "expired"}, due : BOOLEAN]
KidRows == [phase : {"absent", "active", "succeeded", "failed", "canceled"}, makes : Products,
            shots : SUBSET (1..MaxShots), run : RunIds \union {NoRun}, tries : 1..MaxTries]
Idle == [pc |-> "idle", run |-> NoRun, stage |-> "script", todo |-> {}, kid |-> NoKid]
Rest == [pc |-> "idle", run |-> NoRun]

\* Types: attempts stay within max_attempts, media and films belong to
\* storyboards that were saved, a worker and a request are where code is.
ProductionTypeOK ==
  /\ run \in [RunIds -> RunRows]
  /\ kid \in [KidIds -> KidRows]
  /\ saved \in 0..MaxShots
  /\ shots \in SUBSET (1..saved)
  /\ media \in SUBSET ((1..saved) \X Products)
  /\ film \in SUBSET (1..saved)
  /\ episode \in {"draft", "processing", "completed", "failed"}
  /\ worker \in [Workers -> [pc : {"idle", "selected", "claimed", "agent", "load", "make", "calling",
                                   "check", "count", "ensure", "advance", "complete", "defer",
                                   "release", "error", "fail", "clean", "restore"},
                             run : RunIds \union {NoRun}, stage : Stages,
                             todo : SUBSET (1..MaxShots), kid : KidIds \union {NoKid}]]
  /\ life \in [Workers -> {"unborn", "up", "stopping", "gone"}]
  /\ faults \in 0..MaxFaults
  /\ caller \in [Callers -> [pc : {"idle", "canceling", "retrying"}, run : RunIds \union {NoRun}]]

Init ==
  /\ run = [r \in RunIds |-> [status |-> "absent", stage |-> "script", attempt |-> 1,
                              holder |-> NoWorker, lease |-> "none", due |-> TRUE]]
  /\ kid = [j \in KidIds |-> [phase |-> "absent", makes |-> "frame", shots |-> {},
                              run |-> NoRun, tries |-> 1]]
  /\ shots = {} /\ saved = 0 /\ media = {} /\ film = {}
  /\ episode = "draft"
  /\ worker = [w \in Workers |-> Idle]
  /\ life = [w \in Workers |-> "unborn"]
  /\ caller = [c \in Callers |-> Rest]
  /\ faults = 0

Queued(r) == run[r].status = "queued"
Ended(r) == run[r].status \in {"failed", "canceled"}
Active(j) == kid[j].phase = "active"
Lacking(product) == {s \in shots : <<s, product>> \notin media}

Fault == faults < MaxFaults /\ faults' = faults + 1

Goto(w, pc) ==
  worker' = [worker EXCEPT ![w].pc = pc, ![w].kid = NoKid,
                           ![w].todo = IF pc = "make" THEN @ ELSE {}]
Leave(w) == worker' = [worker EXCEPT ![w] = Idle]
-----------------------------------------------------------------------------
(***************************************************************************)
(* Children: generation_jobs as JobLifecycle.tla has them.                 *)
(***************************************************************************)
\* create: a new row with the lowest free id
NewKid(j, product, S, r) ==
  /\ kid[j].phase = "absent" /\ \A i \in 1..(j - 1) : kid[i].phase # "absent"
  /\ kid' = [kid EXCEPT ![j] = [phase |-> "active", makes |-> product, shots |-> S,
                                run |-> r, tries |-> 1]]

\* the active rows of a dubbing, composition or merge target
SameTarget(product, S) ==
  {j \in KidIds : Active(j) /\ kid[j].makes = product /\ (product = "audio" => kid[j].shots = S)}

Settle(J, phase) == kid' = [j \in KidIds |-> IF j \in J THEN [kid[j] EXCEPT !.phase = phase] ELSE kid[j]]

\* what the transaction of a success writes besides the job
Deliver(j) ==
  LET made == kid[j].shots \intersect shots IN
  IF kid[j].makes = "film"
  THEN film' = kid[j].shots /\ episode' = "completed" /\ UNCHANGED media
  ELSE media' = media \union (made \X {kid[j].makes}) /\ UNCHANGED <<film, episode>>

CancelActiveChildren_All(r) == Settle({j \in KidIds : kid[j].phase # "absent" /\ kid[j].run = r}, "canceled")

CancelActiveChildren(r) == Settle({j \in KidIds : Active(j) /\ kid[j].run = r}, "canceled")

ChildFailed(r, product) ==
  \E j \in KidIds : /\ kid[j].run = r /\ kid[j].makes = product
                    /\ kid[j].phase \in {"failed", "canceled"}

ActiveChildren(r, product) == {j \in KidIds : Active(j) /\ kid[j].run = r /\ kid[j].makes = product}
-----------------------------------------------------------------------------
(***************************************************************************)
(* The worker.  ProcessAvailable claims one run at a time; process works   *)
(* on the stage it read and gives the run back.                            *)
(***************************************************************************)
Claimable_Unleased(r) == Queued(r) /\ run[r].lease = "none"

Claimable(r) == Queued(r) /\ run[r].lease # "live"

\* the select of claim: the stage read here is the one worked on; a worker may
\* come here once more after Stop, then it gives the run back
Select(w) ==
  /\ life[w] \in {"up", "stopping"} /\ worker[w].pc = "idle"
  /\ \E r \in RunIds :
       /\ Claimable(r) /\ run[r].due
       /\ \A q \in 1..(r - 1) : ~(Claimable(q) /\ run[q].due)
       /\ worker' = [worker EXCEPT ![w] = [Idle EXCEPT !.pc = "selected", !.run = r,
                                                       !.stage = run[r].stage]]
  /\ UNCHANGED <<run, kid, content, episode, life, caller, faults>>

\* the update of claim
Claim(w) ==
  LET r == worker[w].run IN
  /\ worker[w].pc = "selected"
  /\ IF Claimable(r)
     THEN run' = [run EXCEPT ![r].holder = w, ![r].lease = "live"] /\ Goto(w, "claimed")
     ELSE Leave(w) /\ UNCHANGED run
  /\ UNCHANGED <<kid, content, episode, life, caller, faults>>

Holds(w) == Queued(worker[w].run) /\ run[worker[w].run].holder = w

Start(w) ==
  /\ worker[w].pc = "claimed"
  /\ Goto(w, IF ~Holds(w) \/ life[w] = "stopping" THEN "error"
             ELSE IF worker[w].stage \in DOMAIN Product THEN "load" ELSE "agent")
  /\ UNCHANGED <<run, kid, content, episode, life, caller, faults>>

\* save_storyboards, a tool of the storyboards agent: replaces them all
AgentSaves(w) ==
  /\ worker[w].pc = "agent" /\ worker[w].stage = "storyboards"
  /\ \E n \in (saved + 1)..MaxShots : shots' = (saved + 1)..n /\ saved' = n
  /\ media' = {}
  /\ UNCHANGED <<run, kid, film, episode, threads>>

AgentReturns(w) ==
  /\ worker[w].pc = "agent"
  /\ \/ (worker[w].stage = "storyboards" => shots # {}) /\ Goto(w, "advance")
     \/ Goto(w, "error")
  /\ UNCHANGED <<run, kid, content, episode, life, caller, faults>>

\* the storyboards a stage has work for, as the rows were read
Work(stage) ==
  CASE stage = "tts" -> Lacking("audio") \intersect Voiced
    [] stage = "compose" -> IF Lacking("composed") = {} THEN {} ELSE shots
    [] stage = "merge" -> shots
    [] OTHER -> Lacking(Product[stage])

\* no storyboards, or one that the stage's children cannot start from
Unworkable(stage) ==
  \/ shots = {}
  \/ stage = "compose" /\ Lacking("video") # {}
  \/ stage = "merge" /\ Lacking("composed") \intersect Lacking("video") # {}

Load(w) ==
  LET stage == worker[w].stage
      failed == ChildFailed(worker[w].run, Product[stage]) IN
  /\ worker[w].pc = "load"
  /\ worker' = [worker EXCEPT
       ![w].todo = Work(stage),
       ![w].pc = IF failed THEN "error"
                 ELSE IF stage = "merge" /\ film # {} THEN "complete"
                 ELSE IF Unworkable(stage) THEN "error"
                 ELSE IF stage = "compose" /\ Work(stage) = {} THEN "advance" ELSE "make"]
  /\ UNCHANGED <<run, kid, content, episode, life, caller, faults>>

\* one child per storyboard, or one for all of them
Piece(w) == IF worker[w].stage \in {"compose", "merge"} THEN worker[w].todo ELSE {Min(worker[w].todo)}
Rework(w, pc, j) == worker' = [worker EXCEPT ![w].todo = @ \ Piece(w), ![w].pc = pc, ![w].kid = j]

\* hasActiveMediaJob
MakeSkip(w) ==
  /\ worker[w].pc = "make" /\ worker[w].todo # {} /\ worker[w].stage \in ProviderStages
  /\ \E j \in ActiveChildren(worker[w].run, Product[worker[w].stage]) : kid[j].shots = Piece(w)
  /\ Rework(w, "make", NoKid)
  /\ UNCHANGED <<run, kid, content, episode, life, caller, faults>>

MakeMedia_Again(w) ==
  LET product == Product[worker[w].stage] IN
  /\ worker[w].pc = "make" /\ worker[w].todo # {} /\ worker[w].stage \in ProviderStages
  /\ product = "video" => Piece(w) \intersect Lacking("frame") = {}
  /\ \E j \in KidIds : NewKid(j, product, Piece(w), worker[w].run) /\ Rework(w, "calling", j)
  /\ UNCHANGED <<run, content, episode, life, caller, faults>>

\* a frame or a video has a record of its own, so its job is always new; the
\* provider is called before the next storyboard's turn
MakeMedia(w) ==
  LET product == Product[worker[w].stage] IN
  /\ worker[w].pc = "make" /\ worker[w].todo # {} /\ worker[w].stage \in ProviderStages
  /\ \A j \in ActiveChildren(worker[w].run, product) : kid[j].shots # Piece(w)
  /\ product = "video" => Piece(w) \intersect Lacking("frame") = {}
  /\ \E j \in KidIds : NewKid(j, product, Piece(w), worker[w].run) /\ Rework(w, "calling", j)
  /\ UNCHANGED <<run, content, episode, life, caller, faults>>

\* any other job is shared by its target: the active one is attached
MakeShared(w) ==
  LET product == Product[worker[w].stage]
      r == worker[w].run IN
  /\ worker[w].pc = "make" /\ worker[w].todo # {} /\ worker[w].stage \notin ProviderStages
  /\ IF SameTarget(product, Piece(w)) = {}
     THEN \E j \in KidIds : NewKid(j, product, Piece(w), r)
     ELSE LET j == Max(SameTarget(product, Piece(w))) IN
          kid[j].run \in {NoRun, r} /\ kid' = [kid EXCEPT ![j].run = r]
  /\ Rework(w, "make", NoKid)
  /\ UNCHANGED <<run, content, episode, life, caller, faults>>

\* the quota, another run's job, or an input that is not there
MakeRefused(w) ==
  /\ worker[w].pc = "make" /\ worker[w].todo # {}
  /\ Goto(w, "error")
  /\ UNCHANGED <<run, kid, content, episode, life, caller, faults>>

MakeDone(w) ==
  /\ worker[w].pc = "make" /\ worker[w].todo = {}
  /\ Goto(w, IF worker[w].stage = "merge" THEN "defer" ELSE "check")
  /\ UNCHANGED <<run, kid, content, episode, life, caller, faults>>

\* the provider accepted the task, gave the result at once, or failed; a job
\* that was canceled meanwhile refuses each of them
CallAccepted(w) ==
  /\ worker[w].pc = "calling"
  /\ Goto(w, IF Active(worker[w].kid) THEN "make" ELSE "error")
  /\ UNCHANGED <<run, kid, content, episode, life, caller, faults>>

CallDelivers(w) ==
  /\ worker[w].pc = "calling" /\ Active(worker[w].kid)
  /\ Settle({worker[w].kid}, "succeeded") /\ Deliver(worker[w].kid)
  /\ Goto(w, "make")
  /\ UNCHANGED <<run, shots, saved, life, caller, faults>>

CallFails(w) ==
  /\ worker[w].pc = "calling" /\ Active(worker[w].kid)
  /\ Settle({worker[w].kid}, "failed")
  /\ Goto(w, "error")
  /\ UNCHANGED <<run, content, episode, life, caller, faults>>

\* waitOrAdvance reads the failed children, then the active ones
Check(w) ==
  /\ worker[w].pc = "check"
  /\ Goto(w, IF ChildFailed(worker[w].run, Product[worker[w].stage]) THEN "error" ELSE "count")
  /\ UNCHANGED <<run, kid, content, episode, life, caller, faults>>

Count(w) ==
  /\ worker[w].pc = "count"
  /\ Goto(w, IF ActiveChildren(worker[w].run, Product[worker[w].stage]) # {} THEN "defer" ELSE "ensure")
  /\ UNCHANGED <<run, kid, content, episode, life, caller, faults>>

\* ensureStageArtifactsReady
Ready(stage) ==
  CASE stage \in {"frames", "videos", "compose"} -> shots # {} /\ Lacking(Product[stage]) = {}
    [] OTHER -> TRUE

Ensure_Nothing(w) ==
  /\ worker[w].pc = "ensure"
  /\ Goto(w, "advance")
  /\ UNCHANGED <<run, kid, content, episode, life, caller, faults>>

Ensure(w) ==
  /\ worker[w].pc = "ensure"
  /\ Goto(w, IF Ready(worker[w].stage) THEN "advance" ELSE "error")
  /\ UNCHANGED <<run, kid, content, episode, life, caller, faults>>

Advance_Unfenced(w) ==
  /\ worker[w].pc = "advance"
  /\ run' = [run EXCEPT ![worker[w].run].stage = NextStage[worker[w].stage], ![worker[w].run].due = TRUE]
  /\ Goto(w, "release")
  /\ UNCHANGED <<kid, content, episode, life, caller, faults>>

\* advance: fenced by status and lease_owner
Advance(w) ==
  LET r == worker[w].run IN
  /\ worker[w].pc = "advance"
  /\ IF Holds(w)
     THEN run' = [run EXCEPT ![r].stage = NextStage[worker[w].stage], ![r].due = TRUE] /\ Goto(w, "release")
     ELSE Goto(w, "error") /\ UNCHANGED run
  /\ UNCHANGED <<kid, content, episode, life, caller, faults>>

\* complete: the run and its episode in one transaction
Complete(w) ==
  LET r == worker[w].run IN
  /\ worker[w].pc = "complete"
  /\ IF Holds(w)
     THEN /\ run' = [run EXCEPT ![r].status = "succeeded", ![r].stage = "completed",
                                ![r].holder = NoWorker, ![r].lease = "none"]
          /\ episode' = "completed" /\ Leave(w)
     ELSE Goto(w, "error") /\ UNCHANGED <<run, episode>>
  /\ UNCHANGED <<kid, content, life, caller, faults>>

\* deferRun does not say whether it matched
Defer(w) ==
  /\ worker[w].pc = "defer"
  /\ run' = IF Holds(w) THEN [run EXCEPT ![worker[w].run].due = FALSE] ELSE run
  /\ Goto(w, "release")
  /\ UNCHANGED <<kid, content, episode, life, caller, faults>>

GiveBack(r) == run' = [run EXCEPT ![r].holder = NoWorker, ![r].lease = "none"]

Release(w) ==
  /\ worker[w].pc = "release"
  /\ IF Holds(w) THEN GiveBack(worker[w].run) /\ Leave(w) ELSE Goto(w, "error") /\ UNCHANGED run
  /\ UNCHANGED <<kid, content, episode, life, caller, faults>>

\* a query of the stage fails, or a renewal of the lease did meanwhile
QueryFails(w) ==
  /\ worker[w].pc \in {"claimed", "load", "check", "count", "ensure", "advance",
                       "complete", "defer", "release"}
  /\ Fault /\ Goto(w, "error")
  /\ UNCHANGED <<run, kid, content, episode, life, caller>>

\* a worker that is being stopped gives its run back instead of failing it
HandleError(w) ==
  /\ worker[w].pc = "error"
  /\ IF life[w] = "stopping"
     THEN /\ Leave(w)
          /\ IF Holds(w) THEN GiveBack(worker[w].run) ELSE UNCHANGED run
     ELSE Goto(w, "fail") /\ UNCHANGED run
  /\ UNCHANGED <<kid, content, episode, life, caller, faults>>

\* failRun: three writes
FailRun(w) ==
  LET r == worker[w].run IN
  /\ worker[w].pc = "fail"
  /\ IF Holds(w)
     THEN /\ run' = [run EXCEPT ![r].status = "failed", ![r].holder = NoWorker, ![r].lease = "none"]
          /\ Goto(w, "clean")
     ELSE Leave(w) /\ UNCHANGED run
  /\ UNCHANGED <<kid, content, episode, life, caller, faults>>

\* the update of claim, of a release on the way out, or of failRun fails: the
\* lease has to elapse
Abandon(w) ==
  /\ worker[w].pc \in {"selected", "fail"} \/ (worker[w].pc = "error" /\ life[w] = "stopping")
  /\ Fault /\ Leave(w)
  /\ UNCHANGED <<run, kid, content, episode, life, caller>>

\* its error is ignored
FailClean(w) ==
  /\ worker[w].pc = "clean"
  /\ \/ CancelActiveChildren(worker[w].run) /\ UNCHANGED faults
     \/ Fault /\ UNCHANGED kid
  /\ Goto(w, "restore")
  /\ UNCHANGED <<run, content, episode, life, caller>>

FailRestore(w) ==
  /\ worker[w].pc = "restore"
  /\ episode' = IF episode # "processing" THEN episode ELSE IF film # {} THEN "completed" ELSE "failed"
  /\ Leave(w)
  /\ UNCHANGED <<run, kid, content, life, caller, faults>>
-----------------------------------------------------------------------------
(***************************************************************************)
(* Requests.                                                               *)
(***************************************************************************)
Create(r) ==
  /\ run[r].status = "absent" /\ \A q \in 1..(r - 1) : run[q].status # "absent"
  /\ \A q \in RunIds : ~Queued(q)
  /\ run' = [run EXCEPT ![r].status = "queued"]
  /\ episode' = "processing"
  /\ UNCHANGED <<kid, content, threads>>

\* Cancel commits before the children are canceled; no retry holds the row
Cancel(c, r) ==
  /\ caller[c] = Rest /\ Queued(r)
  /\ run' = [run EXCEPT ![r].status = "canceled", ![r].holder = NoWorker, ![r].lease = "none"]
  /\ episode' = IF episode = "processing" /\ film = {} THEN "draft" ELSE episode
  /\ caller' = [caller EXCEPT ![c] = [pc |-> "canceling", run |-> r]]
  /\ UNCHANGED <<kid, content, worker, life, faults>>

CancelFinish(c) ==
  /\ caller[c].pc = "canceling"
  /\ CancelActiveChildren(caller[c].run)
  /\ caller' = [caller EXCEPT ![c] = Rest]
  /\ UNCHANGED <<run, content, episode, worker, life, faults>>

RetryCheck_NoLimit(c, r) ==
  /\ caller[c] = Rest /\ Ended(r)
  /\ \A q \in RunIds \ {r} : ~Queued(q)
  /\ caller' = [caller EXCEPT ![c] = [pc |-> "retrying", run |-> r]]
  /\ UNCHANGED <<run, kid, content, episode, worker, life, faults>>

\* Retry locks its own row and counts the queued runs of the episode; Create
\* locks the episode, so either may commit between the other's two steps
RetryCheck(c, r) ==
  /\ caller[c] = Rest /\ Ended(r) /\ run[r].attempt < MaxAttempts
  /\ \A q \in RunIds \ {r} : ~Queued(q)
  /\ \A d \in Callers : caller[d] # [pc |-> "retrying", run |-> r]
  /\ caller' = [caller EXCEPT ![c] = [pc |-> "retrying", run |-> r]]
  /\ UNCHANGED <<run, kid, content, episode, worker, life, faults>>

RetryWrite(c) ==
  LET r == caller[c].run IN
  /\ caller[c].pc = "retrying"
  /\ kid' = [j \in KidIds |-> IF kid[j].run = r /\ kid[j].phase \in {"failed", "canceled"}
                              THEN [kid[j] EXCEPT !.run = NoRun] ELSE kid[j]]
  /\ run' = [run EXCEPT ![r].status = "queued", ![r].attempt = @ + 1, ![r].due = TRUE]
  /\ episode' = "processing"
  /\ caller' = [caller EXCEPT ![c] = Rest]
  /\ UNCHANGED <<content, worker, life, faults>>

\* the request ends with its process, or its query fails
CallerDies(c) ==
  /\ caller[c] # Rest
  /\ caller' = [caller EXCEPT ![c] = Rest]
  /\ UNCHANGED <<run, kid, content, episode, worker, life, faults>>

\* a user cancels or retries a job
KidCancel(j) ==
  /\ Active(j) /\ Settle({j}, "canceled")
  /\ UNCHANGED <<run, content, episode, threads>>

KidRetry(j) ==
  /\ kid[j].phase \in {"failed", "canceled"} /\ kid[j].tries < MaxTries
  /\ kid[j].makes \in Reopenable
  /\ kid' = [kid EXCEPT ![j].phase = "active", ![j].tries = @ + 1]
  /\ UNCHANGED <<run, content, episode, threads>>

\* the runner settles a job that nobody is submitting
InSubmission(j) == \E w \in Workers : worker[w].pc = "calling" /\ worker[w].kid = j

KidSucceeds(j) ==
  /\ Active(j) /\ ~InSubmission(j)
  /\ Settle({j}, "succeeded") /\ Deliver(j)
  /\ UNCHANGED <<run, shots, saved, threads>>

KidFails(j) ==
  /\ Active(j) /\ ~InSubmission(j)
  /\ Settle({j}, "failed")
  /\ UNCHANGED <<run, content, episode, threads>>
-----------------------------------------------------------------------------
(***************************************************************************)
(* Processes and the clock.  One process runs at a time, and every life    *)
(* has an owner of its own.  The heartbeat keeps the lease live while its  *)
(* worker works.                                                           *)
(***************************************************************************)
Boot(w) ==
  /\ life[w] = "unborn" /\ \A v \in Workers : life[v] \in {"unborn", "gone"}
  /\ life' = [life EXCEPT ![w] = "up"]
  /\ UNCHANGED <<run, kid, content, episode, worker, caller, faults>>

Stop(w) ==
  /\ life[w] = "up"
  /\ \E v \in Workers : life[v] = "unborn"
  /\ life' = [life EXCEPT ![w] = "stopping"]
  /\ UNCHANGED <<run, kid, content, episode, worker, caller, faults>>

Exit(w) ==
  /\ life[w] = "stopping" /\ worker[w].pc = "idle"
  /\ life' = [life EXCEPT ![w] = "gone"]
  /\ UNCHANGED <<run, kid, content, episode, worker, caller, faults>>

Die(w) ==
  /\ life[w] \in {"up", "stopping"}
  /\ \E v \in Workers : life[v] = "unborn"
  /\ life' = [life EXCEPT ![w] = "gone"]
  /\ Leave(w)
  /\ UNCHANGED <<run, kid, content, episode, caller, faults>>

Beating(r) == \E w \in Workers : worker[w].run = r /\ Holds(w) /\ life[w] \in {"up", "stopping"}

LeaseElapses(r) ==
  /\ run[r].lease = "live" /\ ~Beating(r)
  /\ run' = [run EXCEPT ![r].lease = "expired"]
  /\ UNCHANGED <<kid, content, episode, threads>>

\* the renewals come too late
LeaseLost(r) ==
  /\ run[r].lease = "live" /\ Beating(r) /\ Fault
  /\ run' = [run EXCEPT ![r].lease = "expired"]
  /\ UNCHANGED <<kid, content, episode, worker, life, caller>>

BecomeDue(r) ==
  /\ ~run[r].due
  /\ run' = [run EXCEPT ![r].due = TRUE]
  /\ UNCHANGED <<kid, content, episode, threads>>
-----------------------------------------------------------------------------
StageStep(w) ==
  \/ AgentReturns(w) \/ Load(w)
  \/ MakeSkip(w) \/ MakeMedia(w) \/ MakeShared(w) \/ MakeRefused(w) \/ MakeDone(w)
  \/ CallAccepted(w) \/ CallDelivers(w) \/ CallFails(w)
  \/ Check(w) \/ Count(w) \/ Ensure(w) \/ Advance(w) \/ Complete(w) \/ Defer(w)

WorkerStep(w) ==
  \/ Select(w) \/ Claim(w) \/ Start(w) \/ StageStep(w)
  \/ Release(w) \/ QueryFails(w) \/ HandleError(w) \/ Abandon(w)
  \/ FailRun(w) \/ FailClean(w) \/ FailRestore(w)

UserStep ==
  \/ \E r \in RunIds : Create(r)
  \/ \E c \in Callers, r \in RunIds : Cancel(c, r) \/ RetryCheck(c, r)
  \/ \E j \in KidIds : KidCancel(j) \/ KidRetry(j)

CallerStep(c) == CancelFinish(c) \/ RetryWrite(c) \/ CallerDies(c)

Settling(j) == KidSucceeds(j) \/ KidFails(j)
LifeStep == \E w \in Workers : Boot(w) \/ Stop(w) \/ Exit(w) \/ Die(w)
TimeStep == \E r \in RunIds : LeaseElapses(r) \/ LeaseLost(r) \/ BecomeDue(r)

Next ==
  \/ \E w \in Workers : WorkerStep(w) \/ AgentSaves(w)
  \/ UserStep \/ (\E c \in Callers : CallerStep(c))
  \/ (\E j \in KidIds : Settling(j)) \/ LifeStep \/ TimeStep

Spec == Init /\ [][Next]_vars

\* A worker that is up goes on, a stopped one is gone sooner or later and the
\* next process starts, leases elapse, a deferred run becomes due, and every
\* child is settled (Generation.tla); nothing is assumed of users.
FairSpec ==
  /\ Spec
  /\ \A w \in Workers : WF_vars(WorkerStep(w)) /\ WF_vars(Boot(w)) /\ SF_vars(Exit(w))
  /\ \A r \in RunIds : WF_vars(LeaseElapses(r)) /\ WF_vars(BecomeDue(r))
  /\ \A j \in KidIds : WF_vars(Settling(j))
-----------------------------------------------------------------------------
After(r, stages) == run[r].stage \in stages

\* A run that left a stage has what the next ones start from: a first frame
\* of every storyboard after frames, a video after videos, a composed video
\* from merge on; a completed run has a film, made of all the storyboards.
\* This is said of an episode that has one run: the next one replaces the
\* storyboards.  (Users who edit storyboards are left out.)
OnlyRun(r) == \A q \in RunIds \ {r} : run[q].status = "absent"

StageHasInputs ==
  \A r \in RunIds : OnlyRun(r) =>
    /\ After(r, {"videos", "tts", "compose", "merge", "completed"}) => shots # {} /\ Lacking("frame") = {}
    /\ After(r, {"tts", "compose", "merge", "completed"}) => Lacking("video") = {}
    /\ After(r, {"merge", "completed"}) => Lacking("composed") = {}
    /\ After(r, {"completed"}) => film # {} /\ film = shots

\* A run never has two active children that make the same thing of the same
\* storyboards, however often its worker, lease or process is lost: unless a
\* user reopened one of them.
NoDuplicateChild ==
  \A i, j \in KidIds :
    ( /\ i # j /\ Active(i) /\ Active(j) /\ kid[i].run = kid[j].run /\ kid[i].run # NoRun
      /\ kid[i].makes = kid[j].makes /\ kid[i].shots = kid[j].shots )
    => kid[i].tries > 1 \/ kid[j].tries > 1

\* Whatever workers, users and a failing or canceled run do to a child, it
\* moves as JobLifecycle.tla allows: what ended is never overwritten, except
\* by a retry.
ChildLifecycle == INSTANCE JobLifecycle WITH
  Jobs <- KidIds, Workers <- {}, Nobody <- NoWorker, MaxAttempts <- MaxTries,
  phase <- [j \in KidIds |-> kid[j].phase], attempt <- [j \in KidIds |-> kid[j].tries],
  holder <- [j \in KidIds |-> NoWorker]

ChildrenFollowLifecycle == ChildLifecycle!LSpec

\* Runs implement ProductionRun.tla: stages in order and never back, an ended
\* run untouched but for a retry, completed from the last stage only.
Abstract == INSTANCE ProductionRun WITH
  Runs <- RunIds,
  status <- [r \in RunIds |-> run[r].status], stage <- [r \in RunIds |-> run[r].stage],
  attempt <- [r \in RunIds |-> run[r].attempt]

ImplementsRun == Abstract!RSpec

\* A queued run ends, whatever is stopped, killed or failing: it is picked up
\* again after its worker is lost, and its children are waited for.
RunEnds == \A r \in RunIds : Queued(r) ~> ~Queued(r)

\* docs/FUNCTIONAL_PARITY.md: an old failed run is not retried next to a new one.
OneActiveRun == \A q, r \in RunIds : Queued(q) /\ Queued(r) => q = r

\* The comment of ensureStageArtifactsReady: that the jobs ended is not enough
\* to advance; here, past tts every storyboard with dialogue has its audio.
VoicedShotsHaveAudio ==
  \A r \in RunIds : After(r, {"compose", "merge", "completed"}) => Lacking("audio") \intersect Voiced = {}
=============================================================================
