# Git Repo Migrator in TLA+

TLA+ models of Git Repo Migrator: of its planning commands, its migration queue,
what its workers write to the targets, and what reports and screen then say.
TLC checks them on small instances; TLAPS proves the results that matter most for
every value of the constants.

Paths below are relative to `src/`. `state.rs`, `runner.rs`, `snapshot.rs`, `errors.rs`
and `ports.rs` are in `apps/desktop/src-tauri/src/`, `executor.rs` is
`crates/application/src/executor.rs`, `process.rs` is `crates/git-runner/src/process.rs`.

## 1. The system

A desktop application (Tauri) copies Git repositories from one forge to another.
The operator connects two platforms, discovers repositories, maps each to a
target, probes the targets, previews and freezes a plan, starts it as a *batch*, and
watches, pauses, resumes, cancels and retries it. All state that must survive is in
one SQLite file; the renderer only shows snapshots of it.

### Inventory

| Part | State | Operations | Hard behaviour | What makes it correct |
|---|---|---|---|---|
| Queue store, `AppState` (`state.rs`) | rows of `batch`, `repository_task`, `checkpoint`, `log_event`, behind one mutex | `set_control`, `retry_tasks`, `claim_next_task`, `begin_stage`, `report_progress`, `fail_stage`, `complete_task`, `refresh_batch_rollup` | decisions span several critical sections: guard/begin, claim/begin, command/launch; no transaction inside one | a task has one executor; counters and control state follow the rows; results are backed by the log |
| Worker pool (`runner.rs`) | per batch: `running` counter, `cancel` flag; one thread per worker | `launch`, `cancel`, `Worker::run`, `work`, `drain_with_error` | relaunch while threads exit, threads the OS refuses, no executor | the counter is the number of live threads; a stopped batch drains; a batch left alone completes |
| Stage executor (`executor.rs`) | local to a run | `run`, `prepare_target`, `git_stage`, `lfs_stage`, `metadata_stage`, `platform_data_stage`, `verify`, `persist_archives`, `guard` | pause and cancel between stages, errors and archives at the end | stages in plan order, a result for every run |
| Leases (`crates/local-store/src/lease_repository.rs`) | `lease_owner`, `lease_expires_at_ms` | `acquire`, `heartbeat`, `release`, `recoverable` | leases expire under long stages and after crashes | in-flight tasks carry a lease, settled ones none |
| Checkpoint log (`checkpoint_repository.rs`) | append-only rows with an idempotency key | `append`, `latest` | the key contains the clock | no lost or merged lines |
| Lifecycle (`crates/domain/src/task_state.rs`, `snapshot.rs`) | – | status classes | – | the promises in `TaskLifecycle` |
| Target preparation and push (`executor.rs`, `crates/git-runner/src/refs.rs`, `platform_gateway.rs`, `ports.rs`) | the target repository, a mirror clone per attempt | probe, create, confirm, clone, push, verify | lost answers, partial pushes, strangers, earlier attempts | private refs stay; nobody else's refs are overwritten; "migrated" means up to date |
| Planning (`state.rs`, `crates/application/src/planning.rs`, `crates/domain/src/plan.rs`) | candidates with mapping and probed state, previews in memory, plans, batches | save a connection, discover, import, map, probe, preview, freeze, start | every step uses what an earlier one read; remote, connection and mapping change in between | what is started was planned, confirmed and acknowledged |
| Planning views (`features/planning/`) | mapping drafts, the preview shown | "save and preflight", probe, freeze and start | one order of the commands out of many | the order gets a batch started |
| Read model and report (`snapshot.rs`, `state.rs`) | derived | task list, report | errors and evidence of earlier attempts, equal timestamps, crashes between statements | what is shown belongs to the current attempt |
| Platform modules and adapters (`platform_gateway.rs`, `executor.rs`, `platform-*`) | the issues of the target | list, scan, create, comment, close, archive | partial copies, repeated attempts, lost answers | nothing copied twice without cause, no claim without its object |
| HTTP transport (`crates/http-transport`) | attempt counter | send with retries | a POST repeated after a lost answer | bounded attempts |
| Git process (`process.rs`) | child, two pipes | run, time out, cancel | timeout against exit, full pipes, helpers that survive | every run returns, alone, with all of the output |
| Events and renderer store (`events/mod.rs`, `migrationStore.ts`, `ipcClient.ts`) | revision, snapshot, `staleRevision` | emit, refresh, mutate, `onEvent` | lost, doubled, reordered events and answers | the screen is never behind without saying so |
| Ref policy, verification (`ref_policy.rs`, `refs.rs`, `verification.rs`) | pure | classify, decide, refspecs, compare, aggregate | – | allowlist and verdict agree |
| Workspace (`crates/workspace`) | lock file, temporary directories | lock, temp_dir, purge | crash with the lock held | no other task's files are removed |
| Connections, credentials (`credential-store`, `git_credentials.rs`) | credential references | save, authorize, askpass | separate processes | secrets stay out of rows and arguments |
| In-memory orchestrator, recovery planner (`orchestrator.rs`, `recovery.rs`) | queue, active set | not called by the desktop application | – | agreement with the queue |
| Generic Git platform, views, view models, wire types | – | – | – | no state machine of their own |

Interactions: commands run one at a time, on the main thread, and call `AppState`;
`set_control`, `start_batch` and `retry_tasks` drop the lock and *then* call the
launcher. Each worker thread loops over `claim_next_task` and `StageExecutor::run`,
which calls back into `AppState` for every begin, report and result, and reads the
batch row at every guard. Workers share the store, the counter and the flag, nothing
else. A worker emits an event after each write; the renderer answers an event that is
news by remembering that its snapshot is stale.

## 2. Plan

1. **done** `Leases`, `TaskStates`, `TaskLifecycle`, `MigrationQueue`: queue, pool,
   executor's control flow; proofs.
2. **done** `TargetWrites`: what attempts write to one target; proofs.
3. **done** `Planning`, proofs; `PlanningViews` over it.
4. **done** `TaskReport`: recording commands statement by statement, idempotency key,
   readers; proofs.
5. **done** `HttpExchange`, `IssueMigration`: transport, issue migration, archives.
6. **done** `GitProcess`; proofs.
7. **done** `Screen`, `RevisionSync`; refinement and proofs.
8. `RefSets`: classification of refs by name, comparison and aggregation as functions
   against a reference definition; the allowlist is so far a constant of `TargetWrites`.
9. **done** Proofs about `IssueMigration` and about the log of `MigrationQueue`. With
   them every invariant and every action property of the passing runs is a theorem.
10. `Planning` composed with `TargetWrites` through the frozen action, to say in one
    property what a stale target state costs.
11. `Workspace` (purge by prefix) and `Orchestrator`, should the application come to
    use the lock or the in-memory queue.

## 3. Modules

| Module | What it is |
|---|---|
| `Leases` | the lease columns of a row and the WHERE clauses over them |
| `TaskStates` | statuses, stages, and their order |
| `TaskLifecycle` | abstract specification: what the queue promises about a batch |
| `MigrationQueue` | the queue: rows, batch, pool, worker threads, operator, clock, crash |
| `TargetWrites` | one task's attempts against its target repository |
| `Planning` | from the candidate list to the batch row |
| `PlanningViews` | `Planning` driven in the order of the two planning views |
| `TaskReport` | the statements of the recording commands, and their readers |
| `HttpExchange` | one request through the retrying transport |
| `IssueMigration` | metadata and platform-data stages of one repository, over `HttpExchange` |
| `GitProcess` | one worker's Git child processes |
| `Screen` | abstract specification: what the renderer's store promises |
| `RevisionSync` | backend, events, calls and the renderer's store |
| `MCQueue`, `MCTarget`, `MCPlanning`, `MCViews`, `MCReport`, `MCIssues` | constants for TLC |
| `*_proofs` | theorems about the module of that name |
| `QueueLog_proofs` | theorems about the checkpoint log of `MigrationQueue`, over `MigrationQueue_proofs` |

Operators commented "Mutant of X" (or "Mutant:") are wrong variants of X, used to
show that a property can fail; no specification uses them.

### MigrationQueue

One batch, from the moment `start_batch` has written its rows.

- `status`, `attempt`, `lease`: columns of `repository_task`. `errLog`: the latest
  error line in `log_event`. `checkpoints`: the log as a set of task, attempt, stage
  and transition.
- `control`, `completed`, `failed`, `ended`: the batch row.
- `op`: what the command thread still owes the launcher after dropping the lock.
  `poolSize`, `cancelFlag`, `running`: the launcher's handle of the batch.
- `pc`, `job`, `stage`, `done`, `outcome`, `executor`: a worker thread.
- `late`: history, counts stages begun after the batch stopped.

A lease is stored as the time it has left, and `Tick` takes one unit off all of
them: only comparisons with the current time are ever made. Every `AppState`
method holds the mutex from beginning to end and is one action: `Claim`
(`claim_next_task`), `Begin` (`begin_stage`), `Report` (`report_progress`), `Fail`
(`fail_stage`), `Complete` (`complete_task`), `Pause`, `Resume`, `Cancel`
(`set_control`), `Retry` (`retry_tasks`). The roll-up is part of the actions whose
code calls it. A crash between the statements of one method is the subject of
`TaskReport`. `Guard`, `WorkSucceeds`, `WorkFails`, `WorkSkips` and `WorkVerifies`
are the executor between those calls; `Build`, `Leave` and `Exit` the rest of a
worker's life. `Launch` is one action although it starts threads in a loop: commands
are serial, and a thread that runs early finds the counter already at the wished
number, which `launch` sets before its loop. The result is as if the others were
just slower; what it takes back for threads refused by the OS is the final value
in the model.

`Crash` forgets everything but the rows. `PromptStart` is an assumption about
scheduling, not about the code: a worker gets from its claim to its first
`begin_stage` within 60 s. Most ownership results need it, or behaviours in which no
lease runs out (`SafeStart`); section 6 says what happens without either.

### TargetWrites

One task, and the decisions of `prepare_target`, `git_stage` and `verify` over all
its attempts. `exists` and `target` are the target repository, `source` the moving
source, `mirror` the clone of this attempt, `attempt`, `begun` and `resumed` the
columns and the derived flag of `claim_next_task`. Content is a version number, so
"at least as new" can be said; `Foreign` is whatever a stranger pushed.

A push is one `PushRef` per ref, because nothing asks for `--atomic`; it may be cut
off between any two. A create request may take effect although its answer is
lost. Five kinds of target gateway are modelled: `contract` is any that does what
the `TargetGateway` trait asks; `generic` is `git ls-remote` without an API; `api`
(GitLab, Gitea), `github` and `gitee` answer through the adapters, which turn a 404 into
an error. Gitee's never says that a repository is empty; GitHub's takes a size of 0 for
empty, a figure in kilobytes that follows a push later, so that `Sees` lets it call any
existing target empty or not. Failures may be retryable, final, or
of a category that settles the task as skipped. A worker whose process dies leaves
the row in flight, where no claim finds it; before its first `begin_stage` the row is
still planned and is claimed again. `AllPlans` holds also plans the current
capability rows never permit (`create`, see section 6): the executor handles them.

### Planning

`candidate` is the table `repository_candidate` with the mapping and the probed state
its metadata column holds; `previews` is `Inner.previews`, lost by `Restart`; `plans` and
`batches` are tables; `target` is the saved connection, known by the fingerprint the
plan stores; `remote` is what the targets really are. Each command is one action,
`SaveConnection`, `Discover`, `Import` (both through `Upsert`, `upsert_candidate`),
`SetMapping`, `ProbeTarget`, `PreviewPlan`, `FreezePlan`, `StartBatch`; `StartBatchCut` is
a `start_batch` that the process's death or a refusing store ends between its statements,
which are not a transaction: `cut` marks the batch it leaves. Synchronous
commands run on the main thread and do not overlap, so the answer of a remote call inside
one cannot be overtaken by another; it can be outdated at once, which `RemoteChanges` and
`ProbeAnswers` say. `Decide` is `decide_action`, `PreviewOf` is `build_preview`, `HashOf` is what
the plan hash covers, and it decides which preview a freeze answers with an older
plan. Names, phrases and hashes are abstracted: a phrase is the set of targets it was
issued for.

`answers` and `agreed` are histories: what probes have said, and which targets the
operator has confirmed by typing.

### PlanningViews

Adds `todo`, `asking` and `shown`, the state of the two views: `RunPreflight`,
`StoreMapping` and `AskForPreview` are `runPreflight` of `MappingView.tsx`; `ProbeShown`,
`FreezeAndStart` and `StartShown` are the buttons of `PreflightView.tsx`. Every action
contains the action of `Planning` that its command is.

### TaskReport

The tables a report is read from, and the recording commands with the number of
their statements that reached the database: `BeginStage` (2), `FailStage` (4),
`CompleteTask` (3). If that is not all of them the process has ended there. The
statement that releases the lease comes last and touches nothing modelled here.
`fresh` marks checkpoints of the current millisecond; two that agree in their key and
differ in their content collide (`Collides`), which the code turns into a failure of
the stage (`FailByCollision`). The readers (`Evidence`, `LoggedError`, `ErrorOf`,
`Line`, `Eligible`) are the queries of `snapshot.rs` and the test of `retry_tasks`; where a
query orders by time and by a hash, any row of the latest millisecond may come first.
`reason` is the error a task last failed with, NONE when its verification failed it, and
`torn` says whose failure a crash kept from the log: both are histories. Rows no reader can prefer any more are left out of
`checkpoint`, which keeps the instance finite without changing an answer.

### HttpExchange and IssueMigration

A request has an answer and an effect of its own (`Outcomes`): executed now, later
or never, and answered, refused or not answered at all. `Settle` is one turn of the loop
of `send`; a request given up on may still arrive (`Arrive`).

`IssueMigration` follows one repository through `run_metadata`, `migrate_module`,
`list_issues`, `existing_migrations`, `target_label_ids`, `create_issue_with_comments`,
`record_module`, `persist_archives`, `verify`. `target` is the repository behind the API,
`pc` where the worker is, `cur`, `made`, `said` the positions of its loops, `loaded`,
`existing`, `migrated`, `failed` its collections, `modules` the reports of the attempt.
Every POST and PATCH is a `Send` and an `Exchange`; reads have no effect and are one step.
`Crash` may come between any two; the row stays in flight, and the next attempt at the
repository is the task of a new batch, with an archive directory of its own. `listed` says whether
the label is on the one page of labels that `target_label_ids` reads; it does not change, and
without it every attempt posts the label again (`LabelMissing`). `lost`
is a history: how often a request was executed whose answer did not come.

### GitProcess

The caller's thread (`caller`: poll every 20 ms, then `wait_with_output`), the child
(`git`), a helper of it that inherits the pipe (`helper`), the pipe (`pipe`, `Capacity`),
the clock and the shared cancel flag. `Kill` reaches the child alone; `Return` needs the
end of the pipe, hence the end of everyone who holds it. Standard output and standard
error are one pipe here.

### RevisionSync and Screen

The backend is the revision counter and the workers between a write and its emit; an
event carries the revision of the moment it is sent. A call of the renderer goes
through phases (`call`), its reply is the revision of the snapshot it brings. `Shown`,
`Refused` and `OnEvent` are the branches of `refresh`, `mutate` and `onEvent`; `snapshot`,
`stale`, `status` the fields of the store. `Listen` is the listener's registration, which
comes after an asynchronous import while the first refresh (`Mount`) may be under way.
`heard` is a history. `Screen` is a register with one hint: it shows some
version, and knows the newest it was told of.

## 4. Runs

`CHECK_DEADLOCK FALSE` is in every configuration because the system really stops: a
settled batch with no retry left, a finished repository or an operator who is done
leave nothing to do.

| Run | Instance | What it asks |
|---|---|---|
| `queue_crash` | 2 tasks, 2 workers, pause, resume, cancel, lease expiry, crash, fair | are rows, batch row, leases and pool consistent at all times, is the lifecycle implemented, and do all workers end after a pause or cancel? |
| `queue_retry` | 2 tasks, 2 workers, retry of any subset at any time, any non-empty set of threads spawned, fair | is every result logged in its own attempt, no stage begun twice in one, no run without an outcome, and does the batch complete? |
| `queue_pipeline` | 1 task, 1 worker, all optional stages and reports, all error classes, refused spawns, missing executor, every command, crash | does the whole pipeline keep its order and its log, and implement the lifecycle? |
| `target_writes` | 1 public and 1 private ref, 3 attempts, all plans and gateways, outages, strangers between attempts or at any time | what is written, skipped and called migrated? |
| `planning` | 2 repositories (1 imported, 1 discovered), 2 targets, 2 policies, every order of the commands within a budget, a start cut off at any row | what may a batch contain? |
| `report` | 2 tasks, up to 3 attempts of one, 2 modules, one error of each class, 1 crash after any statement | what do report, task list and retry command then say? |
| `issues` | 2 issues, 2 attempts, 2 requests per write, 2 lost answers, crashes, fair | what is duplicated, what does a finished row claim, does an attempt end? |
| `git_process` | 2 commands, output up to 3 units over a pipe of 2, fair | what does a run return, and does it? |
| `sync` | 2 calls, 2 workers, 3 revisions, emits that fail, snapshots that are refused, fair | is the screen ever behind what it was told without saying so, and does it come to show what a command wrote? |
| `queue_doc_resume`, `planning_doc_views`, `issues_doc_half_done` | minimal | the disagreements of section 6 |

**Properties.**

- *Queue.* One executor per task (`ExclusiveJob`); batch row against task rows
  (`RollupExact`, `EndedIffOver`, `NoOpenBatchWithoutWork`); `InFlightIsRecoverable`; the log
  behind the results (`ResultIsLogged`, `StartsInOrder`, `StageBegunOncePerAttempt`,
  `RunRecordsOutcome`); the pool (`PoolExact`, `NoThreadReplaced`); stopping
  (`AtMostOneLateStage`, `StopDrains`); `BatchCompletes`; `ImplementsLifecycle`.
- *Target.* `PrivateRefsStay`, `OwnTargetNotSkipped`, `MigratedIsCurrent` under every gateway;
  `FirstAttemptSpares` under every gateway but GitHub's, where it does not hold (section 6).
- *Planning.* A probed state belongs to the URL beside it (`StateIsOfItsUrl`); a batch has
  all rows of its plan unless it was cut off, and then some of them (`BatchIsComplete`); what overwrites was confirmed by name
  (`OverwriteIsConfirmed`); what is dropped was acknowledged (`DegradedIsAcknowledged`).
- *Report.* A success shows the verification that said so (`SuccessShowsItsVerification`), a
  failure of a stage its own error (`StageErrorIsOfThisFailure`); a failed task may be retried
  exactly if its verification failed it or its error is retryable
  (`RetryJudgesThisFailure`), both unless a crash kept the error from the log; the counters heal (`CountersHeal`); a finished line is final
  (`FinishedLineIsFinal`).
- *Issues.* No more copies than lost answers explain (`CopiesAreLostAnswers`), of labels as long as
  they fit on a page; what a
  finished row claims is there (`ClaimsAreThere`, `ArchiveIsOnDisk`); `EveryAttemptEnds`.
- *Git process.* `ReturnedAloneInTheMirror`, `OkIsAllOfIt`, `EveryRunReturns`.
- *Screen.* `NeverSilentlyBehind`, `OwnCommandIsSeen`, and the refinement `ImplementsScreen`.

`TypeOK` is a theorem for every module with proofs; a run checks it for `IssueMigration`.

**Bounds.** *Queue:* the lease lasts one clock unit: it is fresh or expired, and no code
looks at more. Two workers and two tasks give every race between two owners, between an
owner and an operator, and between the last and the next-to-last task of a batch. One
progress report stands for three except in `queue_pipeline`, since what may happen
between two reports does not depend on their number. One retry (`MaxAttempt = 1`) gives an
attempt with a history; `target_writes` takes two, so that an attempt follows one that
followed another. *Target:* two versions of a ref (`MaxVersion = 2`) tell a stale mirror
from a fresh one; one allowed ref is enough for a push that is cut off, since it may be cut
off before or after it; pushes that are partial over several refs are covered by the
theorems. *Planning:* the budget `Round` allows one of each event and two probes, previews
and freezes: each repository probed, one changed, planned and frozen again, so that a freeze
can meet a plan of its own hash. Discovery, mapping and remote may each change once in
between; `Init` starts from any mapped, unprobed table, so that what precedes the first probe
needs no budget. The targets' names are symmetric. In `planning_doc_views` the events the
operator repeats are `Unbounded`; the states stay finite. *Report:* three attempts put two
older errors and an older verify row behind the current ones; two modules let a second
report meet the first within a millisecond; one crash is enough, since what a crash leaves
is what the next commands start from. *Issues:* one issue takes three writes (issue,
comment, close), the other one and the label; two attempts give a scan of what another
left; two lost answers allow a duplicate of a duplicate. *Git process:* output is below, at
and above the pipe's capacity; the second command meets what the first left. *Sync:* with two
calls and three revisions a reply can overtake a newer one, and a hint both.

**Fairness.** *Queue:* a worker that can take a step takes it (weak fairness per worker):
its steps are store calls and external work, and every Git child (see `EveryRunReturns`)
and HTTP call has a timeout. A command that dropped the lock goes on to its launcher call.
The operator, the clock and a crash are never obliged to happen. *Issues:* the worker's
thread runs on, and a request has an outcome within `timeout_ms`; the network is not obliged
to deliver what was given up on. *Git process:* the caller polls, reads and returns, time
passes, and a helper that survived a kill ends some day; nothing is assumed of git, which may
hang. *Sync:* a call that went out is answered and its reply handled; nobody has to press a
button, and no event has to arrive.
*Planning views* (`Persistent`): an operator who never gives up, as strong fairness of
whatever the views keep offering, and probes that keep answering in the end answer what is
there; the strongest fairness one may ask for, to give the refuted claim its best chance.

## 5. Proofs

The assumptions on constants (`QueueAssumption`, `TargetAssumption`, `PlanningAssumption`,
`ReportAssumption`, `TransportAssumption`, `SourceAssumption`, `ProcessAssumption`,
`SyncAssumption`) are evaluated by TLC in every run of their module. Apart from them the
theorems have no bound on tasks, workers, repositories, targets, attempts, refs, calls,
issues, lost answers, crashes or sizes.

`MigrationQueue_proofs`: the invariants are not inductive on their own; they are proved in
layers, each using the ones before.

1. *Base*: `TypeOK`, `JobIffBusy`, `OutcomeReady`, `PoolExact`. Needed first, because
   what a worker writes to a row is what it carries in `outcome`, and because launch
   replaces threads only when the counter, hence the set of live threads, is empty.
2. *LateInv*: `AtMostOneLateStage` with `LateReset`; a worker past a guard has begun
   nothing since the batch stopped.
3. *Ownership* (needs `SafeStart`: prompt workers, or no clock): a task being worked on is open, its lease
   carries its worker's name, and is unexpired while the row shows `planned`, which is
   what `Claimable` looks for. From this: `ExclusiveJob`.
4. *BatchRow*: `RollupExact`, `EndedIffOver`, `NoOpenBatchWithoutWork`. Needs Ownership,
   since a stale worker could begin a stage of a settled task.
5. *LeaseRow*: `InFlightIsRecoverable`.
6. *StatusFollowsStage*, then the refinement: initial states map to initial states, and
   every step is one of `TaskLifecycle` or a stutter, with
   `active` = the tasks some worker has.

| Theorem | Property | Assumes |
|---|---|---|
| `TypeCorrect` | `TypeOK` | – |
| `PoolCounterExact` | `PoolExact` | – |
| `LaunchIsExclusive` | `NoThreadReplaced` | – |
| `StopIsPrompt` | `AtMostOneLateStage` | – |
| `InFlightNeverLost` | `InFlightIsRecoverable` | – |
| `NoTaskTwice` | `ExclusiveJob` | `SafeStart` |
| `CountersExact` | `RollupExact` | `SafeStart` |
| `EndIsConsistent` | `EndedIffOver` | `SafeStart` |
| `NothingLeftOpen` | `NoOpenBatchWithoutWork` | `SafeStart` |
| `QueueImplementsLifecycle` | `ImplementsLifecycle` | `SafeStart` |

`QueueLog_proofs`: nobody reads the log back while a batch runs, so no guard keeps it in
agreement with the rows. `LogInv` says what it contains: nothing about attempts to come
(`LogOfThePast`); no stage of the current attempt of a task that waits
(`WaitingUnstarted`, which is why a claim and a retry are harmless); and for a worker at
work the planned stages before the one it is in, all of them and no others
(`StartedSoFar`). `StartedSoFar` is about one worker per task: every step of its proof
uses `ExclusiveJob` and Ownership. `EveryRunRecorded` needs that an owner keeps an
unexpired lease until it has recorded its result, which is why it excludes the clock; with
the clock it is false (section 6).

| Theorem | Property | Assumes |
|---|---|---|
| `LogIsPlanPrefix` | `StartsInOrder` | `SafeStart` |
| `SettledIsLogged` | `ResultIsLogged` | `SafeStart` |
| `NoStageRedone` | `StageBegunOncePerAttempt` | `SafeStart` |
| `EveryRunRecorded` | `RunRecordsOutcome` | no lease runs out (`"tick" \notin Events`) |

`TargetWrites_proofs`:

| Theorem | Property | Inductive invariant | Assumes |
|---|---|---|---|
| `TargetTypeCorrect` | `TypeOK` | itself | – |
| `PrivateRefsAreSafe` | `PrivateRefsStay` | pending refs are allowed refs | – |
| `OwnTargetIsResumed` | `OwnTargetNotSkipped` | a push lies behind a begun git stage, so a later claim resumes | – |
| `MigratedTargetIsCurrent` | `MigratedIsCurrent` | a mirror is at least as new as the source at the claim | – |
| `FirstAttemptIsSafe` | `FirstAttemptSpares` | past the probe nothing foreign is in front of a first attempt | strangers who leave running attempts alone (the `"between"` behaviours), a gateway other than `"github"`; both are premises of the property |

`Planning_proofs`: `IInv` carries, through each table, what the next command relies on. Tables
are typed and `StateIsOfItsUrl` holds; every preview's actions have a URL, its overwrites are
named by its phrase and its dropped modules listed (`GoodPreview`); every plan's overwrites
were typed and its dropped modules acknowledged (`Frozen`), which a freeze obtains from the
preview; every batch has the rows of its plan, or fewer if it was cut off (`Started`), where
`StateIsOfItsUrl` is what guarantees that `start_batch` finds a URL in each.

| Theorem | Property |
|---|---|
| `PlanningTypes` | `TypeOK` |
| `StateBelongsToUrl` | `StateIsOfItsUrl` |
| `BatchHasItsTasks` | `BatchIsComplete` |
| `OverwriteHasItsPhrase` | `OverwriteIsConfirmed` |
| `DegradationHasItsAcknowledgement` | `DegradedIsAcknowledged` |

`TaskReport_proofs`: `IInv` says of the tables that they are typed, of the batch that
`CountersHeal`, and of each task that its row shows the stage its worker is in (`JobRow`),
that the last line of its log is what it failed with unless torn (`ReasonRow`), that a
success has its evidence and no other (`EvidenceRow`), and that a log which ends in an error
that cannot be retried belongs to a task settled with it (`LogRow`), which is why the
older error a failed verification is judged by never forbids its retry. Every command is about one task;
`Apart` says once that it leaves what is said of the others alone.

| Theorem | Property |
|---|---|
| `ReportTypes` | `TypeOK` |
| `CountersAgree` | `CountersHeal` |
| `SuccessHasItsEvidence` | `SuccessShowsItsVerification` |
| `StageErrorIsShown` | `StageErrorIsOfThisFailure` |
| `RetryIsJudged` | `RetryJudgesThisFailure` |
| `FinishedStays` | `FinishedLineIsFinal` |

`GitProcess_proofs` and `RevisionSync_proofs`:

| Theorem | Property | Inductive invariant |
|---|---|---|
| `ProcessTypes` | `TypeOK` | below |
| `ReturnsAlone` | `ReturnedAloneInTheMirror` | a git that ended well has no helper left and nothing left to write; a caller who is idle has emptied the pipe |
| `OkIsComplete` | `OkIsAllOfIt` | the same, with: a verdict of ok is about a git that ended well |
| `SyncTypes` | `TypeOK` | below |
| `BehindIsFlagged` | `NeverSilentlyBehind` | nothing under way or shown is newer than the database, and `staleRevision` is the newest of what has arrived |
| `StoreImplementsScreen` | `ImplementsScreen` | the same |

`IssueMigration_proofs`: for any source, any numbers of attempts, repeats and lost answers.
Three invariants, each with the ones before it:

1. *Base*: types and references. The target only grows, so a request that is on its way,
   being sent or given up on, goes on naming copies that exist, and a comment only copies of
   its own issue; `existing` and `made` name copies of the issue they are for.
2. *Counted*: the reason why `CopiesAreLostAnswers` holds. Define the surplus of an object as
   what is on the target, plus what still waits in the network, less what was
   charged to lost answers. A request that is executed unheard, delayed or arrives late
   leaves the surplus as it is; only an answer that is heard adds to it. It is at most 1 for an
   issue and the label, at most the number of copies of its issue for a comment, and one
   less while the worker is still to send it: when the scan did not find the issue and the
   loop is not past it (`Due`), when the comment is not yet said (`Owed`), when the label is
   asked for (`LabelAsked`). For the label this takes a target whose labels fit on one page. That the scan finds whatever was heard to be there is the
   step that carries the bound from one attempt to the next.
3. *Claimed*: what `migrated`, `modules` and `archived` say is true of the target and the disk
   of this attempt, at every place the loops can be, so that the row that is written
   from them at the end says nothing else.

| Theorem | Property | Inductive invariant |
|---|---|---|
| `TypeCorrect` | `TypeOK` | *Base* |
| `NoNeedlessCopy` | `CopiesAreLostAnswers` | *Base* and *Counted* |
| `ClaimsHold` | `ClaimsAreThere` | *Base* and *Claimed* |
| `ArchiveKept` | `ArchiveIsOnDisk` | *Base* and *Claimed* |

**Only model-checked**: liveness (`StopDrains`, `BatchCompletes`, `EveryAttemptEnds`,
`EveryRunReturns`, `OwnCommandIsSeen`), which is out of the prover's reach.

## 6. Where the code and its documentation differ

Each of these is a run in which TLC finds the documented claim violated.

- `queue_doc_resume`: "`launch` is idempotent" is used to restart workers on resume. A
  worker that has left its loop but not yet decremented the counter makes launch return:
  the batch runs with nobody working on it.
- `planning_doc_views`: an unprobed target's text tells the operator to probe it. "Save and
  preflight" stores every mapping, which forgets the probed states, and then asks for the
  only preview there is; probing afterwards changes the candidates but not the preview on
  the screen, whose blocked rows keep the start button off. Saving again for a new preview
  forgets the states again.
- `issues_doc_half_done`: a repeated attempt is documented to pick up "where it left off" and
  to complete what exists (`platform-gitea/src/lib.rs:385-387`, `architecture.md:384`). In the
  trace a first attempt dies between an issue and its comment, and the second one finds the
  issue by its marker and counts it as migrated as it is. Comments and closing that failed
  or never happened do not come. The property leaves out issues whose comments the second
  attempt could not read.

What the code does apart from that and a reader of the models should know. These are
behaviours of the models, some of which a property has to exempt; they have no run of
their own.

*Queue.* If the 60 s lease expires under a long clone or push, report, failure and
completion are all refused and the error of the last refusal is dropped (`executor.rs:474`):
the task stays in flight. A pause that meets a task in progress makes it `skipped`, which is
final (`executor.rs:977`). If a worker stalls between claim and first stage for longer than
its lease, a second one claims the task (`state.rs:1440`); that is what `PromptStart`
excludes. After a crash an in-flight task is not continued: claiming selects `planned` rows
only, and nothing in the application takes over an expired lease. `launch` clears the
cancel flag of threads still on their way out. If the OS refuses every thread the batch
stays running with nobody (`runner.rs:294`).

*Target.* `resumed_attempt` is documented as "already reached the Git stage"; the code takes
any later attempt for one (`state.rs:1531`), so that a retry of a failed preparation
overwrites what a stranger pushed in between. An unreadable repository on an API platform is
documented as `Missing`; the adapters turn a 404 into an error and the probe into `Unknown`
(`runner.rs:331`), so that a planned creation is refused. A target that exists and is not
empty is documented to be skipped without a write (`architecture.md:252`, `prd.md:35` and
404). The GitHub adapter takes `size == 0` for empty (`platform-github/src/lib.rs:302`): a
repository pushed to a moment ago, or a very small one, is then pushed over by a first attempt.
`FirstAttemptSpares` exempts that gateway.

*Planning.* A freeze that finds a plan of the same hash returns it, although the hash covers
neither actions nor capabilities nor the ref policy (`state.rs:882`). The task rows take
their target from the mapping of the moment of the start and their action from the plan: if
the mapping changes and is probed between freeze and start, a task may overwrite a target
that its phrase did not name. `OverwriteIsConfirmed` is therefore about the target in the
plan. A plan can be started twice, and two repositories may be mapped to one target after
the freeze. A batch of an empty selection stays running. The batch row and the task rows of a start
are single statements (`state.rs:1028-1061`), where `architecture.md:46` and 262 speak of
transactions. A start that dies or fails between them leaves a running batch with fewer rows
than its total and no workers; paused and resumed it runs and ends as completed with
completed and failed below the total, since the roll-up counts rows. `MigrationQueue` and
`TaskReport` start from a whole batch. A policy that allows overwriting is
refused at the start if the plan has nothing to overwrite and so no phrase. `capabilities_for`
never permits repository creation, so that "create" is not planned.

*Report.* The report of a success shows the error of an older attempt beside it.
`complete_task` with a failed verdict makes the row `retryable_failed` without code or log
line (`state.rs:1755-1763`), and the task list then shows an error that an earlier attempt
logged as if it were this one's (`snapshot.rs:352-364`), with no crash involved:
`StageErrorIsOfThisFailure` is about stages only. After a crash between a task's row and its log line the error is looked up in an
older line, and a retry may be granted that the actual error forbids (`errors.rs:126`). Two
progress reports of one stage within a millisecond collide and fail it (`state.rs:1812`).
A retry request that names a task twice raises its attempt twice (`state.rs:1181`).

*Issues.* `lib.rs:385-387` of the Gitea adapter and `architecture.md:384`, 387 and 411-412
rule duplicates out. Two things make them all the same. The transport repeats a POST whose
answer was lost; this is what `CopiesAreLostAnswers` counts, so that the property is weaker
than the documents. And `target_label_ids` reads one page of labels (`lib.rs:550-563`): where
the target has more, every attempt posts the label again without any loss, which the property
exempts. A comment says that failures are tolerated per comment (`lib.rs:633`); the code
returns the first one and the issue counts as failed. Issues that failed have no field in the module's row and do
not change the verdict. Comments that cannot be read are left out silently.

*Git process.* Nothing reads the pipes before git has ended, so that an output larger than the
pipe makes both wait until the timeout; a kill does not reach helpers, and the run returns
only when they have closed the pipe. If `try_wait` or the reading itself fails, the run
returns at once and git may go on (`process.rs:210`); the model leaves those errors out.

*Screen.* Comments of the backend say that the renderer refetches when an event is ahead of
its snapshot (`events/mod.rs:23-24`), re-reads on its next poll after a failed emit (33-34), and
asks on window focus and on events (`commands/mod.rs:48-49`). It does none of that: a snapshot
is asked for on mount, after a command that succeeded and by a button. A stale screen says so
and stays stale until then; and an event that is emitted before the listener is registered, or
whose emit fails, is heard by nobody, and the screen is behind without knowing, for as
long as the operator does nothing. The properties say no more than that: the screen
knows what it was told (`NeverSilentlyBehind`), and is told of the operator's own commands
(`OwnCommandIsSeen`).

## 7. Not modelled, and why

- Errors of the store itself (disk, locked database), except where `IssueMigration`,
  `TaskReport` and `RevisionSync` let a call be refused; the sleep after them.
- What lfs moves: one command of git-lfs per stage, its errors are those of
  `MigrationQueue`'s stage; its content is the business of git-lfs.
- The archive's contents and its formats, export of reports, clean-up messages,
  pagination, URLs, headers, JSON: data and wording no property tells apart.
- Classification of refs by name (planned, `RefSets`): `TargetWrites` takes the two
  classes as constants.
- Delays, redirects, proxies and certificate pinning of the transport: they change when and
  whether a request fails, which is nondeterministic here. The transport does not repeat a
  request the client could not build; `HttpExchange` lets any failure without an answer be
  repeated, which is more than the code does.
- The GitHub, GitLab and Gitee adapters beyond probe, create and the read-only archive: they
  write no items to a target. The generic Git platform answers "unsupported" to all of them.
- Entering and storing credentials: processes and stores of the operating system.
- The in-memory orchestrator, the recovery planner, the transition table of the domain
  crate and the workspace lock: no caller in the application.
- Database schema and migration beyond the columns the modules use: I/O.
- View models, views and wire types: no state of their own. Commands running one at a
  time is what the modules take from them.
