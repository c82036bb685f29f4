---------------------------- MODULE ProductionRun ----------------------------
(***************************************************************************)
(* What a production run promises, without workers, leases or children: it *)
(* works through its stages one after the other and never back, is         *)
(* completed from the last one only, ends once per attempt, and goes on    *)
(* where it stopped when it is retried, as often as its attempts allow.    *)
(* Runs of one episode may move in one step only one at a time.            *)
(***************************************************************************)
EXTENDS Integers

CONSTANTS Runs, MaxAttempts

VARIABLES status, stage, attempt

NextStage == [script |-> "extract", extract |-> "storyboards", storyboards |-> "frames",
              frames |-> "videos", videos |-> "tts", tts |-> "compose", compose |-> "merge",
              merge |-> "completed"]
Stages == DOMAIN NextStage \union {"completed"}

RInit ==
  /\ status = [r \in Runs |-> "absent"]
  /\ stage = [r \in Runs |-> "script"]
  /\ attempt = [r \in Runs |-> 1]

Becomes(r, s, g, n) ==
  /\ status' = [status EXCEPT ![r] = s]
  /\ stage' = [stage EXCEPT ![r] = g]
  /\ attempt' = [attempt EXCEPT ![r] = n]

Begin(r) == status[r] = "absent" /\ Becomes(r, "queued", "script", 1)

Advance(r) ==
  /\ status[r] = "queued" /\ stage[r] \notin {"merge", "completed"}
  /\ Becomes(r, "queued", NextStage[stage[r]], attempt[r])

Finish(r) ==
  /\ status[r] = "queued" /\ stage[r] = "merge"
  /\ Becomes(r, "succeeded", "completed", attempt[r])

Abort(r, s) ==
  /\ status[r] = "queued" /\ s \in {"failed", "canceled"}
  /\ Becomes(r, s, stage[r], attempt[r])

Resume(r) ==
  /\ status[r] \in {"failed", "canceled"} /\ attempt[r] < MaxAttempts
  /\ Becomes(r, "queued", stage[r], attempt[r] + 1)

RNext ==
  \E r \in Runs : \/ Begin(r) \/ Advance(r) \/ Finish(r) \/ Resume(r)
                  \/ \E s \in {"failed", "canceled"} : Abort(r, s)

RSpec == RInit /\ [][RNext]_<<status, stage, attempt>>
=============================================================================
