# FlyAiMovie: specifications and proofs

FlyAiMovie turns scripts into short dramas: it drives image, video, speech and
language-model providers, polls them or takes their webhooks, composes the
results with ffmpeg, and orchestrates whole episodes. The hard part is not any
single call but everything that can happen between two calls: jobs are claimed
under leases, retried, canceled, finished by two routes, and recovered after a
restart, while quotas and money are counted. Around it are shared tables with
the same difficulty on a smaller scale: sessions and invitations, agent runs and
their logs, a cache of files with counted references, the settings of an
organization, and the rows of dramas, episodes, scenes, characters and shots that
everything else works on.

This directory holds TLA+ modules for those parts of the system, TLC
configurations that check them, and theorems that TLAPS proves.

    Jobs.tla              the job service (the core)
    JobLifecycle.tla      what it promises of every job (abstract)
    MCJobs.tla            instances of Jobs for TLC
    JobsProofs.tla        theorems about Jobs
    Generation.tla        requests, runner, webhooks and process around Jobs
    MCGeneration.tla      instances of Generation for TLC
    GenerationProofs.tla  theorems about Generation, by composition
    Production.tla        the production of an episode, its worker and children
    ProductionRun.tla     what a production run promises (abstract)
    ProductionProofs.tla  theorems about Production
    Agents.tla            agent runs: execution, log, cancel, retry, recovery
    AgentsProofs.tla      theorems about Agents
    Media.tla             files, the media cache and its cleaners, their writers
    MediaProofs.tla       theorems about Media
    Accounts.tla          users, sessions, members, invitations, reset tokens
    AccountsProofs.tla    theorems about Accounts
    Settings.tla          services, agents, bundles, prompt templates, skills
    SettingsProofs.tla    theorems about Settings
    Content.tla           dramas, episodes, scenes, characters, shots; agents' saves
    Grid.tla              grids of pictures, composed with Content
    GridProofs.tla        theorems about Grid and Content
    MCAgents.tla, MCMedia.tla, MCAccounts.tla, MCSettings.tla, MCGrid.tla
                          instances of these for TLC

Paths below are relative to `src/backend/internal/`.

## 1. Inventory

| Component | State | Operations | Interacts with |
|---|---|---|---|
| Job service, `services/jobs` | `generation_jobs`: status, target, production run, attempt, provider task, owner and lease, `available_at`, costs; `job_events` | create (with reuse and quota), the `...Current`, `...Owned` and `...ByTarget` transitions, ClaimWaiting, RenewLease, Cancel, Retry, RecoverExpired | called by everything below; one database transaction per operation, except ClaimWaiting (select, then one update per row) |
| Generation services and runner, `services/generation` | `image_generations`, `video_generations`, storyboard columns; in memory: the claimed job, the loaded record, the heartbeat | generate, pollImageJob, pollVideoJob, runTTSJob, runComposeJob, requeue, finalize; Start, Stop | job service (every result is fenced by it), providers, media cache |
| Job requests, `httpapi/jobs.go` | none of its own | retryJob, cancelJob, batchCancelJobs | job service, then generate again |
| Webhooks, `httpapi/pipeline.go`, `webhooks.go` | `webhook_receipts` | verify, deduplicate, save the record, finalize | the records, then the job service by target |
| Production runs, `services/production` | `production_runs`: status, stage, lease; its children in `generation_jobs` | Create, claim, renewLease, nine stages, advance, complete, failRun, Cancel, Retry | creates jobs with `production_run_id`, cancels and releases them in bulk |
| Agent runs, `httpapi/agent_runs.go`, `settings_agent.go`, `services/agents` | `agent_runs`, `agent_run_events`; in memory: the execution and `agentCancels` | chat, retry, cancel, the plan-and-act loop, the observer, recovery at start | skill registry, production worker, content tables through tools |
| Media cache, `services/mediacache` | objects with a reference count, references with expiry | Put, PutValue, Resolve, Release, PurgeExpired | media cleanup, generation services, uploads, library |
| Media cleanup, `services/mediacleanup` | deletion tasks by path | QueueReason, ProcessOrganization | media cache, organization deletion |
| Uploads, library, migration, `httpapi/media_upload.go`, `assets.go`, `services/mediamigrate` | `assets`, the files of the local store | upload an image or a medium, add, delete, migrate an asset | media cache |
| Accounts, `httpapi/auth.go`, `members.go`, `invitations.go`, `password_reset.go`, `platform_settings.go`, `organization_data.go` | users, sessions, memberships, invitations, reset tokens, platform settings | set up, register, log in and out, switch, invite, accept, revoke, resend, reset, change members, delete an organization | each other, through the database |
| Rate limiter, `httpapi/rate_limit.go` | a map from sources to a count and a reset time | Allow | every request |
| Settings, `httpapi/settings.go`, `settings_agent.go`, `service_bundles.go`, `prompt_templates.go`, `services/servicebundle`, `services/skillregistry`, `db/db.go` | service and agent configurations, templates and revisions, skills, versions and publications | create, update, delete, upsert; preview and apply a bundle; restore a template; publish, roll back, archive; seed at boot | generation and agents read them |
| Content, `httpapi/dramas.go`, `episodes.go`, `resources*.go`, `library_scene.go`; `services/agents/runner_tools.go` | `dramas`, `episodes`, `scenes`, `characters`, `storyboards` and their casts, all with marks of deletion | create, copy, move, edit, delete; an agent's save of scenes, characters, storyboards | each other, production, grids |
| Grids, `httpapi/media_grid.go`, `pipeline.go` | `grid_history`: status, cells, assignments; frames of storyboards | generate, split, assign a cell; told by the poller | content, the image and its job |
| Adapters, AI client, media tools, export, configuration, frontend | records and files | CRUD, HTTP, formatting | the above |

What is hard, and what correct means, per component:

* **Job service.** Workers, requests, webhooks and a restart act on one row.
  Correct: a row is held by one worker at a time and only while it runs; a
  settled row changes only by a retry; the row alone tells recovery what to do
  (so provider task, owner, lease and status must agree); one target has one
  active job; a production run's jobs are not taken over; limits and budgets
  hold at their boundary while reservations turn into charges.
* **Generation path.** The provider call lies between two transactions, and the
  record read before it is saved after it. Correct: results appear only with a
  success of the job; a late answer cannot land in another attempt; the task
  that is polled is the one recovery relies on; every job is settled.
* **Production runs.** A run is itself leased, and its children are jobs that
  users can cancel and retry. Correct: one worker advances a run; a run that is
  interrupted, canceled or retried goes on where it stopped, repeats no child and
  skips no stage; it ends.
* **Agent runs.** The row, its log, the goroutine and the registry of cancel
  functions are four places that say whether a run is at work, written one after
  the other. Correct: log and row agree; a completed run is completely recorded;
  a retry does not work beside what it replaces and keeps its skill; a run ends.
* **Media.** One file may be behind many rows, and who removes it knows only a
  path. Correct: a file in use is never removed by a cleaner, an unused one
  eventually is; counts equal references; an object's file holds its content.
* **Accounts.** Every handler reads before its transaction. Correct: a ticket is
  used once; one sign-in is one session; an organization keeps its owner; there
  is one platform administrator.
* **Settings.** Correct: one active default per service type; one live
  configuration per agent; revisions and publications tell the state they led to;
  a bundle changes what its preview named.
* **Content.** Rows refer to each other by id, a deletion is a mark, and every
  request checks first and writes later without a lock. Correct: a shot and its
  parts belong to one drama; a deletion reaches what hangs on the row; numbers
  order siblings.
* **Grids.** Assignments and frames are two records of one thing, and three
  parties write a history. Correct: they agree; a grid is cut once; the history
  tells how its image ended.
* **Webhook receipts.** Correct: a result delivered twice is applied once, and a
  delivery that failed half way can be repeated.
* **Rate limiter.** Correct: a source is never let through more than the limit
  in one window; the table stays bounded.

`PROJECT.json` lists every component with its status, and the hazards of the
code at the lines where they bite, with the properties that cover them.

## 2. How the modules correspond to the code

### Jobs.tla

A row of `generation_jobs` is an index in `1..MaxJobs`; each column that decides
anything is a function on the rows. Rows are inserted in the order of their ids,
as an auto-increment key does, because "newest" and "first" mean ids.

| TLA+ | Code | Abstraction |
|---|---|---|
| `status`, `attempt`, `owner`, `task`, `run`, `actual` | the columns | names are model values; money is in fen |
| `target` | `target_type`, `target_id` | three kinds, because the code branches three ways: provider targets (images, videos) start `running`; dubbing and composition start `queued`; only compositions are requeued when found `waiting` |
| `lease` | `lease_expires_at` against the clock | `none` (NULL), `live`, `expired`; `LeaseElapses` is the clock |
| `due` | `available_at <= now` | a Boolean; `BecomeDue` is the clock |
| `today` | `created_at` within the UTC day | a set; `NewDay` is midnight |
| `candidate` | the rows ClaimWaiting selected | one row per worker and pass: the code's loop over a batch, a row at a time |
| `retrying` | the row Retry read | Retry reads without a lock and updates `WHERE status = <read>`; PostgreSQL's READ COMMITTED lets others in between |

Every function of `service.go` that writes rows is an operator: `CreateNew`,
`CreateReuse`, `SetWaitingCurrent`, `SetCurrent`, `SetOwned`, `SetByTarget`,
`RequeueJob`, `Cancel`, `ClaimSelect`/`ClaimCommit`, `RenewLease`,
`RecoverExpired`, `RetryRead`/`RetryWrite`; `CancelActiveChildren` and
`DetachChildren` are the bulk updates of `services/production`. Each is one step
because each is one transaction that takes the row's lock or one conditional
`UPDATE`. `JobsNext` lets any caller do any of it at any time.

Not in the model: progress, messages, results, `job_events`, and the setters that
nothing reaches (`SetWaiting`, `SetSucceeded`, `SetFailed`,
`AttachProductionRun`). Organization 0, which has no quota, is left out; other
organizations touch no common row. One process is assumed, as
`ecosystem.config.cjs` deploys it (`instances: 1`): `createMu` is a mutex of that
process, and create is a single step for this reason.

### Generation.tla

It EXTENDS Jobs and adds what the callers of the job service remember:

* `call` - a request: `saved` (the record is stored as `processing`),
  `submitted` (its job exists and the provider is being called), and for a retry
  `reopened` and `loaded` before these. `CallWaiting` and `CallFinish` are the
  provider's three answers: a task to poll, a result, an error. Each ends in a
  `...Current` transition whose transaction also saves the record; if the job
  refuses the transition nothing is saved. `CallAbandons` is the way out that
  settles nothing: `requireOwned` finds that the client has gone away while a video
  that the provider gave at once is finalized, or the id of the job cannot be saved
  with the record. `abandoned` remembers these jobs until the next start.
* `runner` - the sequential loop of `async.go`: claim, load the record, poll,
  then finish or requeue; `RunnerLost` is a claim whose context was canceled
  (the heartbeat lost the row or failed, or the process is stopping).
* `hook` - a webhook: load the record by its task, save it, and for a result
  settle the newest job of the target in a second write.
* `up`, `crashes` - the process: `Stop` and `Exit` are a graceful shutdown,
  `Crash` is a kill, `Boot` runs RecoverExpired once. What was in memory is gone.
  A pass that is under way when the stop comes may go on claiming (`RunnerSelect`).

`rec` is the record of an image or a video. The two services differ in their
columns and in one thing that matters here: only a video's synchronous answer is
finalized with the context of the request (`video.go:127`, `:257-260`).
`CallAbandons` allows this to any record, so one kind stands for both; for an
image it is the failed save of `job_id` (`image.go:163`). Provider tasks are
numbered in the order they are issued and never reused, as a provider's ids are.

`SetByTarget`, by which a webhook settles a job, reads the newest job of the target
and settles it by its id in two statements (`service.go:452`), which are one step
here; a job that is created in between would be the newest one and is not touched
by the code.

Three constants say which environment is meant: `Webhooks` (they may arrive),
`Faults` (the heartbeat's or a configuration's query may fail) and
`QuickRestart` (the process may boot before the leases of two minutes elapsed).

### Production.tla

The production of one episode. A child is kept as the phase that
`JobLifecycle.tla` gives it: the property `ChildrenFollowLifecycle` says that this
module uses children as that abstraction allows, and `JobsProofs` that the job
service implements it.

| TLA+ | Code | Abstraction |
|---|---|---|
| `run` | `production_runs` of the episode | status, stage, attempt, `lease_owner`, the lease against the clock, `available_at <= now` |
| `kid` | `generation_jobs` with, or once with, a `production_run_id` | phase, what it makes, of which storyboards, its run, its attempt |
| `shots`, `saved` | the episode's storyboards, their ids | ids only grow; `save_storyboards` (`AgentSaves`) replaces them all |
| `media` | `first_frame_image`, `video_url`, `tts_audio_url`, `composed_video_url` | which are set |
| `film`, `episode` | `video_url` and `status` of the episode | the storyboards it was merged from |
| `worker` | the goroutine of `worker.go` between two queries | where it is, the run and the stage `claim` read, the storyboards it still has to serve |
| `life` | the process: `Boot`, `Stop` (its context is canceled), `Exit`, `Die` | each life is a `lease_owner` of its own, as the uuid in `loop` |
| `caller` | a request inside Cancel or Retry | between the commit and the children, or between the count and the writes |
| `faults` | failed queries | counted, at most `MaxFaults` |

`claim` is two steps (select, update); a stage is its queries one by one: the
failed children and the rows (`Load`), one step per storyboard (`Make...`), the
provider call in between (`Call...`), then `Check`, `Count`, `Ensure` and
`Advance`, so that children, users and clocks act between any two of them.
`failRun` is three writes. Canceling the context of a stage is an agent or a
call that fails, which may happen at any time anyway. `MakeMedia` is two queries
in one step: whether the storyboard has an active child, and the insert of a new
one; a retry by a user that falls between the two is not seen.

Left out: users who edit storyboards or media while a run is under way, jobs
users create on their own, `agent_runs` (a log), progress and messages. `StageHasInputs`
is stated of an episode's only run (`OnlyRun`): a second one, which finding 6 lets
in, replaces the storyboards under the first.

### Agents.tla

| TLA+ | Code | Abstraction |
|---|---|---|
| `run` | `agent_runs` | status, how it began, its source, the recorded skill, `cancel_requested` |
| `log` | `agent_run_events` | number and type of each event |
| `published` | what `ResolvePublished` finds, or the built-in skill | one skill; an episode's other prompts are inputs |
| `exec` | the goroutine, or request, that executes a run | `attach`, `resolve`, `plan`, `tools`, `result`, `finish`, `save`, `fallback`: the points between two writes; the plan it still has to do |
| `cancels` | the map `agentCancels` | the runs a cancel can reach |
| `canceling` | a cancel request between its read and its write | |
| `trouble` | lost events, ended contexts and crashes | counted, at most `MaxTrouble` |

The three ways differ where the code does: only a retry attaches in a goroutine
of its own, has a deadline and a second attempt at its last write (`Fallback`);
only a production's run ends in one transaction (`ProductionSave`) and cannot be
canceled by its id. `Emits` is the observer: an event that fails to be written
silences all later ones. The call and the result of an offline tool are two events
in a row with nothing in between (`emitResultEvents`), and one step (`Offline`). A
cancel reads the status only, so it may come twice. A tool either succeeds or fails;
what it writes belongs to the content (`Content.tla`, and the storyboards of `Production.tla`).

### Media.tla

| TLA+ | Code | Abstraction |
|---|---|---|
| `files` | the local store, or the bucket | the content of a path; a path is new, or a shot's own `composed/shot_<id>.mp4` |
| `object`, `ref` | `media_cache_objects`, `media_cache_references` | by content and by key; `due` stands for `expires_at <= now` |
| `asset` | `assets` | own reference, made by a generation (no reference), remote, deleted |
| `task` | `media_deletion_tasks` | status and attempts |
| `writer` | an upload, a generation's result, a migration | what it holds between two transactions |
| `cleaner` | the hourly loop, a purge request | the tasks it listed; it works on that list |

`Put` is its four cases as functions of the two tables, so that a handler that
puts and releases in one transaction is one step. Removing the writer's own copy
of a content that the cache has already follows the transaction that found it and
is one step with it. Likewise a cleaner removes a file and updates its task in one
step (`ProcessTask`); after a death in between the task is still listed, and the
next pass finds no file, which the code counts as removed. The URLs that storyboards, characters and scenes show hold
no reference and are left out.

### Accounts.tla

| TLA+ | Code | Abstraction |
|---|---|---|
| `orgs`, `users`, `role` | `organizations`, `users`, `memberships` | ids in order; an address, two flags; a role or none |
| `session` | `sessions` that are neither revoked nor expired | `root` is the sign-in it descends from through switches |
| `invitation`, `token` | `organization_invitations`, `password_reset_tokens` | status; `joined` and `spent` count what each did |
| `settings` | `platform_settings` | the two flags that requests read |
| `req` | what a request read before its transaction | |

A handler that authenticates or reads before its transaction is two actions
(`...Begin` and the transaction), with everybody else in between; its error
paths are `Refuse`, which may come at any time. The initial setup takes
`platform_settings` first, which makes setups wait for each other
(`SetupLocked`). Accepting an invitation is three steps, because the user that
its transaction reads may be created by another one.

### Settings.tla

| TLA+ | Code | Abstraction |
|---|---|---|
| `config` | `ai_service_configs` | type, two flags, and an identity for what a bundle compares |
| `agent` | `agent_configs`, deleted rows included | type, model, prompt, flags |
| `template`, `revision` | `prompt_templates`, `prompt_template_revisions` | key, content, version |
| `skill`, `version`, `publication` | `skills`, `skill_versions`, `skill_publications` | numbers and what was done |
| `pending` | what a request read before its lock: an update, a restore, a deletion, a preview and its token | |
| `overtaken` | history: an update was written over a row that had changed | |

`Restart` is the seeding of an organization at boot, which looks at what is
there. A preview is two reads without a lock, its token a digest of both;
`ApplyBundle` compares the token under the lock.

The loops that seed a table, place a bundle and update the agents go over service
types or agents, and what they do for one type reads and writes rows of that type
only. `SeededConfigs`, `SeededAgents`, `SeededTemplates`, `Placed` and `WithModel`
therefore say what becomes of each row and which rows are added (`Added`), instead
of folding over the types. New rows of one loop come in a fixed order that nothing
observes: every lookup is by type and no two of them have the same one.

### Content.tla

| TLA+ | Code | Abstraction |
|---|---|---|
| `drama`, `episode`, `scene`, `character`, `shot` | the tables | inserted or not, `deleted_at`, the parent, the number; a shot's scene, cast and frames; texts and settings are left out |
| `Pictures` | the URL in a frame | `Blank` is none, `ByHand` any picture that belongs to no grid, the others are the cells of grids |
| `"gone"` | rows that `save_storyboards` deletes for good | the other deletions mark a row |
| `req` | what a request has read in its transaction | the operation, and what its writes depend on |
| `CrossDrama` | `allow_cross_drama` | which values are sent |
| `late`, `carried` | none (history) | rows that anybody put under a parent that was deleted or being deleted; shots that a scene took to another episode |
| `edited` in `shot` | none (history) | the slots whose picture a request chose last, not a grid |

PostgreSQL runs a transaction at READ COMMITTED and the handlers take no locks,
so a request is two steps: `Look...` is its reads and checks, the action of the
operation its writes, and anybody acts in between. A request that fails or is
given up is `RollBack`. Handlers of one statement, and `deleteEpisode`, whose
statements all depend on the id alone, are one step: `late` covers what an
insertion between its statements would leave. `deleteDrama` is two, because the
shots it deletes are those of the episodes it read. The agents' saves
(`LookSaveDedup`, `LookSaveShots`) differ from requests in that they look at no
`deleted_at` of the episode. `UpdateShot` sets a frame to what the body holds, as
`updateStoryboard` does: nothing, a picture, or the cell of a grid, which the
organization owns like any other (`LookShowCell` in `Grid.tla`). What a generation
puts into a slot when it completes is one of these updates too.

Left out: props, updates of texts, character templates (their import creates a
character), the links `episode_scenes` and `episode_characters`, the count of a
drama's episodes, and the production runs that a deletion cancels.

### Grid.tla

It EXTENDS Content: grids write the frames of its shots, and its requests act
between any two steps of a grid.

| TLA+ | Code | Abstraction |
|---|---|---|
| `history` | `grid_history` | status, mode, episode, whether `image_gen_id` is set, `assignments_json`; `undone` (history) says that its split was undone |
| `image` | the image of a grid | what its record shows; how it gets there is `Generation.tla` |
| `poller` | `pollImageJob` after it wrote the record | what it is about to tell the history |
| `<<h, i, cut>>` in `frames` | the URL of a cell | `cut` is TRUE for the files of a split that follows an undone one; those of the undone split stay where they are shown and are no cells of the grid any more |

Generating is three steps of one request (`CreateGrid`, `StartImage`,
`SaveGrid`: a `Save` of the whole row as it is in memory). The row is listed by
`GET /grid/history` from its insert on (`pipeline.go:458-478`), so others may split
it between any two of these steps, with any image they own; the save then takes
the split back (`undone`). Splitting is two steps: the checks and the cut, then
`assignGridCellsWithHistory` under a lock of the history. Assigning a cell decides
everything under that lock and is one step. A split without a history writes
frames only, which an update of a shot does too.

## 3. What the runs check

| Run | Configuration | Shows |
|---|---|---|
| `jobs` | `MCJobs.cfg`, about a million states | the job table under arbitrary interleaving: the row protocol, the daily budget, the refinement of `JobLifecycle` |
| `generation` | `MCGeneration.cfg`, with fairness | results need a success; every first attempt is settled across a crash or a stop, or its request left it to itself |
| `generation_hostile` | `MCGenerationHostile.cfg`, about a million states | what survives webhooks, failing queries and quick restarts: claims cover attempts, waiting jobs stay pollable until one of their record's jobs is retried, the active-job limit, the path only uses the job service |
| `production` | `MCProduction.cfg`, 2.8 million states | a production of up to two storyboards with cancels and a retry at any step: no stage without its inputs, no second child for the same work, the lifecycle of `ProductionRun` |
| `production_faults` | `MCProductionFaults.cfg`, with fairness | the same with a process that is stopped or killed, a failing query and a reopened merge: children keep the job lifecycle, every queued run ends |
| `agents` | `MCAgents.cfg`, 2 million states | three runs, the retry of a retry among them: the log tells the run; `RetriesReplaceTheirSource`: a retry waits for its source and for its siblings, and keeps its skill |
| `agents_end` | `MCAgentsEnd.cfg`, 330 thousand states, with fairness | two runs with two tools and two faults: what is completed is completely recorded, every run ends or its last write failed |
| `media` | `MCMedia.cfg`, 520 thousand states | two writers and two cleaners: counts are exact (`MediaInv`, with the types), cleaners spare files in use |
| `media_end` | `MCMediaEnd.cfg`, 130 thousand states, with fairness | cached answers that share an object and expire together; files of orphaned objects go |
| `accounts` | `MCAccounts.cfg`, 890 thousand states | two concurrent requests of any kind: owners, the administrator, and `UsedOnce`: one session per sign-in, tickets that work once |
| `settings` | `MCSettings.cfg`, 1.5 million states | two administrators and a restart: `ConfigurationsAreSound` (defaults, live configurations), `HistoriesTellTheState` (revisions, publications), bundles |
| `grid` | `MCGrid.cfg`, 2.6 million states | two requests at a time on two dramas, or on one with a second grid to generate: shots keep to their drama, deletions reach everything that was there when they began, cells and frames agree in the slots that no request has set since, a grid is cut once unless the request that made it undoes the split |

Further configurations are kept next to these. Each reproduces one finding:
TLC is expected to report the property it names as violated.

| Configuration | Module | Violated | Finding |
|---|---|---|---|
| `MCJobsRetryLimit.cfg` | `MCJobs` | `ActiveWithinLimit` | 1 |
| `MCGenerationQuickRestart.cfg` | `MCGeneration` | `FirstAttemptSettles` | 2 |
| `MCGenerationRetryCrash.cfg` | `MCGeneration` | `EveryAttemptSettles` | 3 |
| `MCGenerationLateWebhook.cfg` | `MCGeneration` | `CancelExcludesResult` | 4 |
| `MCGenerationStaleSubmission.cfg` | `MCGeneration` | `FreshTaskPerAttempt` | 5 |
| `MCProductionRetryRace.cfg` | `Production` | `OneActiveRun` | 6 |
| `MCProductionSilentShot.cfg` | `Production` | `VoicedShotsHaveAudio` | 7 |
| `MCMediaRecompose.cfg` | `MCMedia` | `ObjectsHoldTheirContent` | 8 |
| `MCSettingsStaleUpdate.cfg` | `MCSettings` | `SoundDefaults` | 9 |
| `MCGridCellShownTwice.cfg` | `MCGrid` | `CellsAreShownOnce` | 10 |
| `MCGridHistoryStuck.cfg` | `MCGrid` | `GridFollowsImage` | 11 |
| `MCGridShotNumbers.cfg` | `MCGrid` | `ShotsAreOrdered` | 12 |
| `MCGridCrossDrama.cfg` | `MCGrid` | `ShotsStayInTheirDrama` | 13 |
| `MCGridOrphans.cfg` | `MCGrid` | `NoOrphans` | 14 |
| `MCGenerationUnpollable.cfg` | `MCGeneration` | `PollableWhileWaiting` | 15 |
| `MCGenerationAbandoned.cfg` | `MCGeneration` | `NoJobIsAbandoned` | 16 |
| `MCGridSplitUndone.cfg` | `MCGrid` | `SplitIsFinal` | 17 |

**Bounds, and why they suffice.** In Jobs and Generation: two rows: enough for an older and a newer job
of one target, for a job that holds budget while another is created, and for a
composition next to an image. Two workers in `jobs`: enough for a row selected
twice and a claim lost to the other (the process has one, the code allows more).
Two callers: enough for two retries that read the same row. Two production runs:
an owner and a contender. `MaxAttempts = 2` (3 in the code): a first attempt, a
retried one, and a refusal at the limit. Three provider tasks: one per attempt
and one for a parallel request. One crash or stop: each recovery starts from the
rows alone and every reachable row state is available to the first one; for the
safety properties the proofs lift the bound. Costs: in `jobs` an image costs 3
and a merge 1 against a budget of 3, so both the exact fit and the excess by
one occur. Symmetry is used only where names are interchangeable and no liveness is
checked: `jobs`, `media`, `accounts`, `settings` and `grid`. What the code orders (ids,
paths, versions) is numbered and never in a symmetry set.

In Production: two storyboards in `production`, so that one may have its child
while the other has none, and so that the agent's second save replaces the
first; only one of them has dialogue. Six children: an attempt that goes
through all the stages with one storyboard and a failed child before it, or with two
storyboards up to the composition. Two attempts (3 in the code): one refusal at
the limit. In `production_faults` one storyboard, two lives of the process, one
fault: each recovery starts from the rows. `Reopenable` says which jobs users
retry; the merge job is the one a run still waits for when it is nearly done.
One run in both, since a second one is either refused or finding 6; the content of a film is stated for an episode's first run,
because a remake keeps the previous film on purpose (`service_terminal.go`).

In Agents: one run that somebody starts, its retry and the retry's retry (three
runs), with one tool in all, or two runs with two tools, so that an event can be
lost before, between and after them; two skills, so that what was published can
change under a retry; one cancel request at a time, because a second one finds
`cancel_requested` set or the same run. In Media: two contents of one kind, so
that a key can move and a file can be written over; two writers and two cleaners,
so that each pair of them interleaves; three files written. `media_end` has two
keys that hold one answer, which `media` has not, and one writer. In Accounts:
two organizations, one to delete while its members belong to another; two users,
sessions and invitations; one invitation or token open at a time; six requests,
of which setting up and signing in take one. In Settings: two of the four service
types and two of the five agents, as the code treats all alike; four requests or
restarts, two of which may be under way together: a preview, its application and
the updates in between.

In Grid: an instance starts from one of two workspaces that requests of the module
have prepared (`Workspace` in `MCGrid.tla`), so that three requests reach what would
take ten from an empty database. Both have a drama with two episodes, a scene, a
character, two shots and a grid assigned to them. The wide one adds a second drama
with a grid that was not split yet, and a row to insert into every table; the other
one has a third shot to insert and a second grid to generate, and everything else is
deleted: what generating a grid sees of content is shots that are edited, copied,
deleted and taken along by their scene. Two clients, so that any request overlaps any
other; three requests, so that a third one meets what two made. Two cells, of which a
`first_last` grid has one for each frame.

**Fairness** (`FairSpec`; part of `Spec` in Agents and Media). In Generation: a request's provider call returns, because the HTTP
clients have timeouts; the runner's ticker fires every four seconds; a process
that is stopping exits (strongly fair: the pass under way may claim and give back a
job in turn, but a pass claims forty at most); the clock
moves, so leases elapse unless renewed and waiting jobs become due; the service
manager boots a process that ended (`autorestart`). One
assumption is strong: a job that is polled again and again is at some time
answered with a result or an error (`RunnerFinish`), which no timeout of this
code guarantees but every provider's contract does. Users, crashes and webhook
arrivals are not fair. Liveness is checked with crashes bounded, which is the
usual reading: it says what happens once the crashes stop.

In Production: the worker's ticker fires every second and the queries of a
stage return; a stopped worker exits (strongly fair: in `loop` the ticker may win
against the stop a few times, then it finds its context canceled and gives the
run back); the next process boots; leases elapse unless renewed, and a deferred
run becomes due after two seconds. Every child is settled, which is what
`FirstAttemptSettles` shows of the job service: as there, it needs a restart
after the job leases elapsed (finding 2 is that it does not hold otherwise) and a provider that answers. Users, stops, deaths and faults are not
fair, and at most one process is lost and one query fails: a database that
fails for ever lets no run end.

In Agents: the step that an execution can take is taken, because model calls and
tools have timeouts, and the server that is down is started again. A cancel is
not fair. In Media: an orphaned object falls due after its day, the hourly loop
purges and lists (`cacheLoop`), and a cleaner goes through what it listed; nobody
has to upload or delete, and a purge request need not come.

**Deadlock.** `CHECK_DEADLOCK FALSE` everywhere: with a bounded table, the system
rests when the rows are used up and settled and nobody holds anything; the
requests, files and operations of the other modules are bounded likewise.

**Mutants.** Definitions with a suffix, such as `Settle_KeepsOwner`, are the
seeded faults of `PROJECT.json`: each is the bug that one property is there to
exclude, and TLC finds that property violated when it replaces the original.

### Findings

1. *Retry and the active-job limit* (`MCJobsRetryLimit.cfg`).
   `docs/FUNCTIONAL_PARITY.md` says the one job entry checks the limits
   atomically; Retry does not pass it. What does hold, and is proved for every
   instance, is the limit on first attempts.
2. *Restart within a lease* (`MCGenerationQuickRestart.cfg`). Recovery runs once, at start, and
   skips leases that are still ahead; the rows it skips are never looked at
   again while the process lives.
3. *Crash after Retry* (`MCGenerationRetryCrash.cfg`). Retry sets an image or a video job
   running with a NULL lease, and recovery requires a lease. These rows are the
   only ones recovery can never see: `UnleasedOnlyAfterRetry`, proved.
4. *Webhook after a cancel* (`MCGenerationLateWebhook.cfg`). A webhook saves the record outside
   the job's transaction, against the promise that a cancel and a late result
   never both succeed. Without webhooks the promise behind it is a theorem.
5. *A submission that outlives its attempt* (`MCGenerationStaleSubmission.cfg`). The
   `...Current` transitions compare no attempt number.
6. *Two active runs* (`MCProductionRetryRace.cfg`). Create locks the episode to count its
   active runs, Retry does not.
7. *A silent shot* (`MCProductionSilentShot.cfg`). Between two queries of `waitOrAdvance` a
   dubbing job may end without audio, and the check of the artifacts has no case
   for dubbing. For frames, videos and compositions the check closes the same
   gap: that is what the mutant of `StageHasInputs` removes.
8. *A shared file is composed over* (`MCMediaRecompose.cfg`). Compositions write
   `shot_<id>.mp4` in place, and objects are shared by the hash of what a file
   once held: the second shot with that content shows the first one's new film.
9. *An update by a stale row* (`MCSettingsStaleUpdate.cfg`). `updateAIConfig`
   reads the row before it takes the lock and does not read it again: two updates
   leave a default that is inactive, or two of one type. `DefaultsAreSound`, a part
   of what `settings` checks, says that nothing else does.
10. *A cell shown twice* (`MCGridCellShownTwice.cfg`). A scene takes its shots to
   another episode, frames included; assigning the cell anew clears its old frame
   only within the grid's episode. An update of a shot may also blank an assigned
   slot, or show a cell wherever the user wants it; that is what the user asked for,
   so the properties leave out the slots that a request has set (`edited`).
   `CellsAndFramesAgree` says that in all the other slots nothing but a scene that
   took its shot away lets frames and history disagree; where two grids fight for a
   slot the later one has it.
11. *A grid that processes for good* (`MCGridHistoryStuck.cfg`). Only the poller
   tells a history that its image ended, after it wrote the record, and only if
   the history names the image already. Webhooks, cancels and recovery end images
   too.
12. *Two shots of one number* (`MCGridShotNumbers.cfg`). A new shot is numbered by
   the count of its siblings, which after a deletion is a number in use; no
   concurrency is needed.
13. *A cast of another drama* (`MCGridCrossDrama.cfg`). A scene that is moved to
   another drama takes its shots along but not their characters, and leaves behind
   a shot that was linked to it meanwhile. Without cross-drama moves the property
   is proved.
14. *Rows below a deleted parent* (`MCGridOrphans.cfg`). A request that read the
   parent before the deletion inserts after it, and agents save below a deleted
   episode. `DeletionReachesEverything` says that what was there when the deletion
   began never escapes it; it excuses every row that is put there later, whether or
   not the request that does so looked at the parent.
15. *A waiting job that cannot be polled* (`MCGenerationUnpollable.cfg`). Retry
   clears the task of the record, which may be the one that a later job of the
   record waits for: job 1 fails and is retried, is canceled before its
   request creates again, so that the request gets a job 2, which waits with its
   task; then job 1 is retried once more. The poll of job 2 fails it as
   "image task id missing". It takes three attempts, as the code allows: with the two
   of `generation_hostile` it cannot happen, and the attempt to prove
   `PollableWhileWaiting` found it. `PollableUntilRetried` says that nothing else
   does it, and is proved.
16. *A job left to itself* (`MCGenerationAbandoned.cfg`). A video that the provider
   gives at once is finalized with the context of the request: if the client has
   gone away, `requireOwned` returns before anything is written, and the job stays
   running without an owner, without a crash or a fault, until the next start. Of
   the registered video providers only the synchronous `mock` gets there; a failed
   save of the job's id does the same to images and videos. `FirstAttemptSettles`
   leaves out these jobs until the next start, which settles them.
17. *A split that is undone* (`MCGridSplitUndone.cfg`). A grid can be split while
   the request that makes it is still at the provider, and that request's last write
   is the whole row as it was before: status, cells and assignments of the split are
   gone, the frames show its cells, and the grid can be split again. `SplitOnce`
   says that only this write undoes a split, and only once for a grid.

Met while modelling, without a run of their own:

* With two processes, a stage that `claim` selected may be two stages old when it
  is worked on, and `advance` sets the run back (the deployment has one process,
  which `Boot` assumes). A retry that comes between the writes of `failRun` has
  its children canceled and its episode marked failed.
* A cancel of an agent run between its commit and its registration finds no
  cancel function: the run goes on with `cancel_requested` set, and ends as
  completed or canceled by what it does itself. A chat or a production whose last
  write fails stays `running` until the next start, and what a start fails gets
  no event in its log; `RunsEnd` and `LogTellsTheRun` are stated for this.
* A binding that fails removes the file of its upload unless the cache reused
  another one (`media_upload.go:72-76`); an upload of the same image that came in
  between holds that path. `CleanersSpareUsedFiles` is therefore about cleaners.
* A dubbing done again moves its key to the new content: the old file goes after
  a day while an older row of the library still lists it. An asset that is deleted
  while it is migrated leaves a reference that nothing releases.
* An invitation that is revoked while it is being accepted is accepted: the update
  looks at `accepted_at` only (`invitations.go`). Two requests for a reset at the
  same time leave two outstanding tokens; each works once.
* Updating a configuration that was deleted in between clears the default of the
  others before it answers that there is none. A start adds a second row for an
  agent whose row was deleted; only one is live (`OneLiveAgentConfig`, a part of
  `ConfigurationsAreSound`).

The attempt number may repeat: two retries that read the same failed row can
both write if the row fails again in between. `JobLifecycle` therefore bounds
the number and does not promise that it grows.

## 4. What is proved

All proofs are for arbitrary constants that satisfy the named assumptions of the
modules (`BoundsAssumption`, `CostAssumption`, `KindsAssumption`,
`NullsAssumption`, `RunnerAssumption`, `FaultsAssumption`, `ContentAssumption`,
`GridAssumption`, `AccountsAssumption`, `MediaAssumption`, `AgentsAssumption`,
`ProductionAssumption`, `SettingsAssumption`): bounds are natural numbers, costs are natural numbers per
target, kinds of rows are disjoint, null values are no values, flags are Booleans,
the ids of episodes and shots are finitely many, a blank frame is not one set by hand,
roles and ways are some of those the code has, the runner is the only worker of
the generation path, service types and agents are finitely many, a patch of a
configuration leaves it with a type and two flags, and no draft of a bundle has a
default that is inactive (`validateServiceBundleDraft` and `applyServiceBundle` refuse
those, `service_bundles.go:312` and `:163`). TLC evaluates them for the instances. No theorem bounds the
number of rows, actors, requests or faults beyond what these say.

In each module the proof has one inductive invariant, a conjunction of named
parts; one lemma for each action that disturbs it, and under it one step for each
part; and corollaries for the properties. TLC checked each invariant on the
instances of section 3 before it was proved.

**JobsProofs.** The four row invariants are not inductive one by one: whether a
claim may assume a provider task depends on who may be `waiting`, which depends
on where a task is recorded. `RowProtocol` is their conjunction, stated for a
row, in `Jobs.tla` and checked by `jobs`, with `Typed` (types) and `TableOrder` (ids without gaps, an older active
row was retried); `Inv` joins them and `Invariance` shows `Inv` inductive, one
step per operation. From it follow the invariants (`OwnersHoldRunningRows`,
`RunningRowsAreLeased`, `TasksMatchPhases`, `WorkersRunWorkerJobs`,
`OneActiveRowButForRetry`), the action properties (`TasksKept`, `RunsKept`), the
refinement (`Refinement`: each step is, row by row, a step of `JobLifecycle`) and
the active-job limit (`FirstAttemptsStayWithinLimit`, by cardinalities: only
`CreateNew` adds a first attempt, and it saw fewer active jobs than the limit).
`FirstAttemptsStayWithinBudget` is about sums over sets, which are folds. The
library's induction takes a formula as a parameter, which the provers cannot
instantiate; a set of numbers that contains 0 and every successor serves instead
(`EveryNumber`). By it there is a function that sums over the sets of rows
(`SumsExist`), by which the fold unfolds row by row (`SumUnfolds`). The
invariant adds that rows that are not inserted cost nothing (`Budgeted`).

**GenerationProofs.** The path is proved by composition. `PathUsesJobService`
shows that every step of the path is, on the table, a step of `JobsNext` or none;
so `Spec` implies `JobsSpec`, and each theorem about the service holds of the path
(`PathInvariance`, `PathImplementsLifecycle`, `PathWithinLimit`, `PathWithinBudget`).
`PathTypeInvariant` is proved with it. `ResultsNeedSuccess` is about the records:
without webhooks, a completed record has a succeeded job, for
any number of requests, crashes and faults. Its invariant adds that whatever a
request or the runner holds in memory belongs to a job of that target.
`ClaimsCoverTheirAttempt` and `WaitingJobsCanBePolled` hold with webhooks,
faults and quick restarts. The first rests on the row protocol: a retry needs a
row that left `running`, and such a row has lost the runner's name. The second
needs to know who may still write the record while a job waits: as long as no job
of a record was retried, the record has one request at most, which submits its one
job (`SubmitOnce`), and a poll or a webhook under way carries a task
(`ThreadsHaveTasks`).

**ProductionProofs.** `ProductionInv` is inductive. Its core is that one worker at
a time is at work (`OneProcess`), because processes follow one another; so a worker
works on the stage its run is in until it advances it (`WorkersInOrder`), although
`claim` reads the stage in one query and takes the run in another. `RunsInOrder` and
`CallersInOrder` say what a run and the requests that cancel or retry it may
be between two writes. `SharedOnce` says that two active children for one target
are there only because a user reopened one, which makes attaching a child to a
second run harmless, and `InputsInOrder` carries the check of a stage's artifacts
over the steps between the check and the advance (`Carries`). From it follow `StagesHaveTheirInputs`,
`ChildrenAreNotDoubled`, `ProductionKeepsItsTypes`, and two refinements:
`RunsAreProductionRuns` (each step is, run by run, a step of `ProductionRun`) and
`ChildrenAreJobs` (each step is, child by child, a step of `JobLifecycle`). The
latter and `Refinement` are the two sides of one interface: the job service
implements what production assumes of children.

**AgentsProofs.** `AgentsInv` is local to each run but for its retries. What a run's
row, log and execution say of each other is a predicate on the three values
(`RunOK`): as long as no event was lost the log has one for each thing the
execution did, at its place (`TraceOK`), and nothing terminal while it goes on
(`LogOK`). From it follow `LogsTellTheRun` and `CompletionsAreRecorded`. What a row
says of the row it retries (`RetriesOK`) is stable, because a settled row is never
running again: `RetriesTakeTheirSourcesPlace`.

**MediaProofs.** The first half of `MediaSound` is that counts are exact: each
transaction is a composition of a put, releases and a purge, and each of these
keeps the counts of the tables it is given (`Exact`), by the cardinalities of the
sets of keys that it moves. The second half says who may name a file: a numbered
file holds one content and no other object names it, a writer's file is its own
until it is in the cache (`FreshIn`), the file of a shot belongs to the object that
the shot's key refers to (`Names`), and so a file that was ever queued for removal
is named by no object as long as it is there (`Spared`). That makes `CleanersAreSafe`
independent of how old a cleaner's list is.

**AccountsProofs.** Nothing locks a table between the step in which a request looks
and the step in which it writes, so `AccountsInv` says of every request what is
still true of what it carries: a member about to be changed or removed is not the
owner (`SparesOwner`), although roles, members and organizations may have gone and
come since; a setup under way means that there is no administrator
(`AdminsOK`). `NothingIsUsedTwice` holds because the transaction looks again at the
column that says whether the ticket is spent.

**GridProofs.** Five theorems about the composition of grids and content. No
request locks what it checks, so none of the properties is inductive: each
invariant says what is still true of what a request found.
`ShotsStayInTheirDramaAlways` assumes `TRUE \notin CrossDrama` and nothing about the
number of rows, clients or requests. What a request remembers must still fit when it
writes. `ContentInv` says this of every operation (`ReqFits`), and it holds because an
inserted row never changes its drama: an episode has no operation that does, a
scene only moves within its drama, and a deletion only marks (`Keeps`,
`FittingKept`). Each operation has a lemma; the copy of an episode is the long one.
`GridsAreSplitOnce` is an action property. Its invariant `GridInv` says that one
request at most makes a history and that its split was not undone as long as that
request has not answered (`MadeOnce`): the unconditional save of the request is
therefore the one write that undoes a split, and there is only one such save for a
grid. `PollerTellsEnds` adds that the poller never tells a split.

`GridTypeCorrect` needs more of a request than its types: the rows it
remembers were inserted, and no step takes an inserted row away or an episode out
of its drama (`Lasting`), so its memory stays good (`MemoryLasts`). Numbers are
maxima of sets of numbers, plus one; that a finite set of numbers is bounded
(`FinitelyManyBounded`) and has a highest (`HighestIsNumber`) comes from the least
number principle (`LeastNumber`), by the library's well-founded relation of the
numbers.
`FramesAgreeAlways` says four more things of grids: only a split gives a history
its first cells (`OnlySplitAssigns`), an assigned cell's shot is in the episode of
the grid unless a scene carried it off (`AssignedArePlaced`), and a split under way
assigns no slot twice and its shots are still there or carried off (`SplitsFit`). A
split may follow an undone one: that no frame shows a cell of a cut that is still to
be made (`FreshCut`) is what makes the cells of the undone one harmless to it. Of
content it needs only that whoever else changes a frame marks the slot as edited
(`ShotsMove`).
`DeletionsReachEverything` says of every deletion under way that the shots it will
not reach are noted already (`LeftBehind`): the episodes that `deleteDrama` did not
read did not exist when it began, or were deleted with their shots. For all other
operations one lemma suffices (`PlacedIsKnown`): a row stays where it is, or it is
noted, or its parents are alive and no deletion of them is under way.

**SettingsProofs.** `SettingsInv` has a part for each table and one for the
requests under way.
`ConfigurationsStaySound` is the delicate one: an update decides by a row that it
read before the lock. `UpdateHolds` says what it decided: if the row is still what it
read, a default that it is about to write is active and its type is the one whose
other defaults are cleared. So a write over an unchanged row keeps `Sound`, whatever
happened to other rows in between, and a write over a changed one sets `overtaken`.
For agents the property is not inductive: a start adds a row beside a deleted one,
which is harmless only because upserts and bundles revive the last row of an agent,
never an older one (`LastLives`).
That keys are unique, among deleted templates too, is part of `SettingsTypeCorrect`.
`HistoriesAreTrue` needs for templates that a table and its logs grow together, and
for skills that a version's number counts the versions up to it (`VersionsCount`), from
which the highest number plus one is the count after a new one.
`BundlesKeepToTheirPreview` is an action property: a token that matches under the
lock carries the very configurations that are there, so that what `Placed` touches
is what the preview's conflicts named (`PlacedFacts`).
The lemmas about `Added`, `Undefaulted`, `Placed` and `WithModel` say which rows
change and how; `Max` is the greatest of a bounded set of numbers by the least
number principle, as in `GridProofs`.

**Only model-checked.** Liveness under fairness (`FirstAttemptSettles`, `RunEnds`,
`RunsEnd`, `OrphanedFilesGo`) is out of the prover's reach. Every other property of
a passing run, each safety invariant and each action property, is a theorem. That a
module's runs reach the interesting cases is TLC's to show, too: theorems say nothing
about which steps can be taken.

## 5. What is not modelled, and why

* The bytes of files, downloads and ffmpeg: a composition is the outcome of a
  claimed job in `Generation`, and some content in `Media`.
* Providers and the AI client: a result, a task to poll, or an error; adapters
  only translate formats. Connection tests, and the list of voices that
  `syncVoices` fetches, change nothing that another component decides by.
* Signatures of webhooks, hashes, cookies, CSRF tokens and mail: no state of
  these models.
* Webhook receipts and the rate limiter: planned below.
* Of content: what section 2 lists under `Content.tla`. A prop has no shots that
  refer to it, and updates of texts are single statements.
* Quota settings, export and audit: single statements that nothing depends on,
  except the limits, which are constants of `Jobs`. What an organization's
  deletion does to content is left out, what it does to accounts is `Purge`.
* Tools of an agent that only read; rendering of templates, and the validation
  that skips an old prompt when templates are seeded.
* The frontend.

A job refused by the quota leaves its record `processing` (`CreateRefused`), and
recovery fails a job without touching its record. Both are in the model; what
should eventually be true of a record is not stated in the code or its documents
and is left to the module that has the storyboard's columns.

## 6. Plan

In this order.

1. `Receipts.tla`: webhook receipts and deliveries that fail half way, with the
   abstract promise of applying a result once. `RateLimit.tla`: the window and the
   overflow bucket, against a definition of what a limiter allows.
2. Generation continued: dubbing and composition with the storyboard's columns;
   liveness of records.

## 7. Running it

    tlc -workers 2 -config MCJobs.cfg MCJobs
    tlc -workers 2 -config MCGeneration.cfg MCGeneration
    tlc -workers 2 -config MCGenerationHostile.cfg MCGeneration
    tlc -workers 2 -config MCProduction.cfg Production
    tlc -workers 2 -config MCProductionFaults.cfg Production
    tlc -workers 2 -config MCAgents.cfg MCAgents
    tlc -workers 2 -config MCAgentsEnd.cfg MCAgents
    tlc -workers 2 -config MCMedia.cfg MCMedia
    tlc -workers 2 -config MCMediaEnd.cfg MCMedia
    tlc -workers 2 -config MCAccounts.cfg MCAccounts
    tlc -workers 2 -config MCSettings.cfg MCSettings
    tlc -workers 2 -config MCGrid.cfg MCGrid
    tlapm JobsProofs.tla
    tlapm GenerationProofs.tla
    tlapm ProductionProofs.tla
    tlapm AgentsProofs.tla
    tlapm MediaProofs.tla
    tlapm AccountsProofs.tla
    tlapm GridProofs.tla
    tlapm SettingsProofs.tla

The other configurations are in the second table of section 3.
