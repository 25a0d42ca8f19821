--------------------------- MODULE MigrationQueue ---------------------------
(***************************************************************************)
(* One started batch of the desktop application: the rows AppState keeps   *)
(* in SQLite (state.rs), the worker threads of ThreadPoolLauncher          *)
(* (runner.rs), each running the stages of StageExecutor (executor.rs),    *)
(* the operator's commands, the lease clock and a crash of the process.    *)
(*                                                                         *)
(* Every AppState method holds one mutex from its first statement to its   *)
(* last, so a method is one action.  What the code does outside the mutex  *)
(* is a separate action: the guard of a stage and its begin_stage, the     *)
(* external work of a stage, the launcher call a command makes after       *)
(* dropping the lock, and a worker's decision to exit and its decrement of *)
(* the pool counter.                                                       *)
(***************************************************************************)
EXTENDS TaskStates, FiniteSets

CONSTANTS
  Task,         \* the batch's task ids; naturals, because claiming is ORDER BY id
  Concurrency,  \* workers per pool (BatchStartInput.concurrency)
  TTL,          \* LEASE_TTL_MS in clock units
  Selected,     \* the optional stages of the frozen plan
  Reports,      \* progress reports a stage makes
  Faults,       \* error classes external work may end with
  MaxAttempt,   \* bound of the model: retries per task
  Events,       \* what the environment of this instance may do
  PromptStart,  \* TRUE: a worker gets from its claim to its first begin_stage
                \* (or to recording that it could not) within the lease it claimed
  Spawns        \* the sets of workers the OS may manage to spawn

Worker  == 0 .. Concurrency - 1
NoOwner == -1
NoTask  == -1

EventKind == {"pause", "resume", "cancel", "retry", "crash", "tick"}

ASSUME QueueAssumption ==
  /\ Task \subseteq Nat /\ IsFiniteSet(Task) /\ Task # {}
  /\ Concurrency \in Nat \ {0}
  /\ TTL \in Nat \ {0}
  /\ Selected \subseteq OptionalStage
  /\ Reports \in [Stage -> Nat]
  /\ Faults \subseteq {"conflict", "transient", "permanent"}
  /\ MaxAttempt \in Nat
  /\ Events \subseteq EventKind
  /\ PromptStart \in BOOLEAN
  /\ Spawns \subseteq SUBSET Worker

\* Error classes, by what the queue does with them: Permission and Conflict end
\* a task as skipped; of the others only "transient" may be retried.
SkipError == {"paused", "cancelled", "conflict"}
Error     == SkipError \cup {"transient", "permanent"}
Verdict   == {"succeeded", "partial", "failed", "skipped"}

VARIABLES
  \* repository_task, log_event and checkpoint rows
  status, attempt, lease, errLog, checkpoints,
  \* the batch row
  control, completed, failed, ended,
  \* the operator's command thread and ThreadPoolLauncher's batch handle
  op, poolSize, cancelFlag, running,
  \* worker threads: control point, assignment, current stage, reports made in
  \* it, the result to be recorded, and whether an executor could be built
  pc, job, stage, done, outcome, executor,
  \* history: begin_stage calls since the batch stopped running, by worker
  late

L == INSTANCE Leases WITH Owner <- Worker

rows    == <<status, attempt, lease, errLog, checkpoints>>
batch   == <<control, completed, failed, ended>>
pool    == <<op, poolSize, cancelFlag, running>>
threads == <<pc, job, stage, done, outcome, executor>>
vars    == <<rows, batch, pool, threads, late>>

ControlPoint ==
  {"off", "start", "idle", "guard", "begin", "run", "report", "fail", "complete", "exit"}
Busy == {"guard", "begin", "run", "report", "fail", "complete"}

Transition == {"started", "heartbeat", "failed", "succeeded"}
Checkpoint == [task : Task, attempt : Nat, stage : Stage, transition : Transition]

RowTypes ==
  /\ status \in [Task -> Status]
  /\ attempt \in [Task -> Nat]
  /\ lease \in [Task -> L!Lease]
  /\ errLog \in [Task -> Error \cup {"none"}]
  /\ checkpoints \subseteq Checkpoint
BatchTypes ==
  /\ control \in Control
  /\ completed \in Nat /\ failed \in Nat
  /\ ended \in BOOLEAN
PoolTypes ==
  /\ op \in {"idle", "launch", "cancel"}
  /\ poolSize \in {1, Concurrency}
  /\ cancelFlag \in BOOLEAN
  /\ running \in Nat
ThreadTypes ==
  /\ pc \in [Worker -> ControlPoint]
  /\ job \in [Worker -> Task \cup {NoTask}]
  /\ stage \in [Worker -> Stage]
  /\ done \in [Worker -> Nat]
  /\ outcome \in [Worker -> Error \cup Verdict \cup {"none"}]
  /\ executor \in [Worker -> {"ready", "transient", "permanent"}]
  /\ late \in [Worker -> Nat]

\* Every variable has its type, in every part of the state.
TypeOK == RowTypes /\ BatchTypes /\ PoolTypes /\ ThreadTypes

-----------------------------------------------------------------------------
(***************************************************************************)
(* The rows.                                                               *)
(***************************************************************************)

AllSettled(st) == \A t \in Task : st[t] \in Settled

\* Mutant of Rollup: the failed counter is left to fail_stage.
RollupKeepsFailed(st) ==
  /\ completed' = Cardinality({t \in Task : st[t] \in Done})
  /\ failed' = failed
  /\ control' = IF control # "cancelled" /\ AllSettled(st) THEN "completed" ELSE control
  /\ ended' = (ended \/ AllSettled(st))

\* Mutant of Rollup: completing the batch forgets the end time.
RollupKeepsEnd(st) ==
  /\ completed' = Cardinality({t \in Task : st[t] \in Done})
  /\ failed' = Cardinality({t \in Task : st[t] = "retryable_failed"})
  /\ control' = IF control # "cancelled" /\ AllSettled(st) THEN "completed" ELSE control
  /\ ended' = ended

\* Mutant of Rollup: only a running batch is completed.
RollupOnlyRunning(st) ==
  /\ completed' = Cardinality({t \in Task : st[t] \in Done})
  /\ failed' = Cardinality({t \in Task : st[t] = "retryable_failed"})
  /\ control' = IF control = "running" /\ AllSettled(st) THEN "completed" ELSE control
  /\ ended' = (ended \/ AllSettled(st))

\* refresh_batch_rollup over the task rows st: both counters are derived, and
\* an open batch with no open task left is completed.
Rollup(st) ==
  /\ completed' = Cardinality({t \in Task : st[t] \in Done})
  /\ failed' = Cardinality({t \in Task : st[t] = "retryable_failed"})
  /\ control' = IF control # "cancelled" /\ AllSettled(st) THEN "completed" ELSE control
  /\ ended' = (ended \/ AllSettled(st))

\* Mutant of Append: the attempt the assignment started with is not read.
AppendFirstAttempt(t, s, tr) ==
  checkpoints' = checkpoints \cup
    {[task |-> t, attempt |-> 0, stage |-> s, transition |-> tr]}

\* append_checkpoint, for the owner of an unexpired lease.
Append(t, s, tr) ==
  checkpoints' = checkpoints \cup
    {[task |-> t, attempt |-> attempt[t], stage |-> s, transition |-> tr]}

\* Mutant of Claimable: the lease filter is missing.
ClaimableAnyLease == {t \in Task : status[t] = "planned"}

\* What claim_next_task selects from: planned, and free or expired.
Claimable == {t \in Task : status[t] = "planned" /\ L!Unclaimed(lease[t])}

\* The tasks the recovery query lists (LeaseRepository::recoverable).
Recoverable ==
  {t \in Task : status[t] \in Open /\ lease[t].owner # NoOwner /\ lease[t].left = 0}

\* The stages a task of this batch goes through.
Planned == Stage \ (OptionalStage \ Selected)

Before(s, n) == Rank[StateOf[s]] < Rank[StateOf[n]]

\* Mutant of Follows: stages of the plan may be skipped.
FollowsLater(s, n) == n \in Planned /\ Before(s, n)

\* n is the next planned stage after s.
Follows(s, n) ==
  /\ n \in Planned /\ Before(s, n)
  /\ \A m \in Planned : ~(Before(s, m) /\ Before(m, n))

\* Mutant of Retryable: a skipped task may be retried as well.
RetryableSkipped(t) == status[t] \in {"retryable_failed", "skipped"}

\* A new attempt is possible for a failed task whose latest logged error (if
\* any) is retryable and outside the categories that are never blindly retried.
Retryable(t) == status[t] = "retryable_failed" /\ errLog[t] \in {"none", "transient"}

-----------------------------------------------------------------------------
(***************************************************************************)
(* A worker thread.                                                        *)
(***************************************************************************)

\* build_executor; a worker without one drains the queue with the error.
Build(w) ==
  /\ pc[w] = "start"
  /\ pc' = [pc EXCEPT ![w] = "idle"]
  /\ \E e \in {"ready"} \cup (Faults \ {"conflict"}) : executor' = [executor EXCEPT ![w] = e]
  /\ UNCHANGED <<rows, batch, pool, job, stage, done, outcome, late>>

\* The loop heads of work and drain_with_error; only the former reads the flag.
MayClaim(w) == executor[w] # "ready" \/ ~cancelFlag

\* claim_next_task: the first claimable task by id, leased in the same call.  A
\* draining worker has its result at once: the stage it names is git.
Claim(w) ==
  /\ pc[w] = "idle"
  /\ MayClaim(w)
  /\ control = "running"
  /\ \E t \in Claimable :
       /\ \A u \in Claimable : t <= u
       /\ lease' = [lease EXCEPT ![t] = L!Fresh(w)]
       /\ job' = [job EXCEPT ![w] = t]
  /\ IF executor[w] = "ready"
     THEN /\ pc' = [pc EXCEPT ![w] = "guard"]
          /\ stage' = [stage EXCEPT ![w] = "prepare_target"]
          /\ UNCHANGED outcome
     ELSE /\ pc' = [pc EXCEPT ![w] = "fail"]
          /\ stage' = [stage EXCEPT ![w] = "git"]
          /\ outcome' = [outcome EXCEPT ![w] = executor[w]]
  /\ UNCHANGED <<status, attempt, errLog, checkpoints, batch, pool, done, executor, late>>

\* Mutant of Leave: a worker of a paused batch waits instead of leaving.
LeaveWhenDrained(w) ==
  /\ pc[w] = "idle"
  /\ ~MayClaim(w) \/ Claimable = {}
  /\ pc' = [pc EXCEPT ![w] = "exit"]
  /\ UNCHANGED <<rows, batch, pool, job, stage, done, outcome, executor, late>>

\* Mutant of Leave: a worker gives up on the batch after the first failure.
LeaveAfterFailure(w) ==
  /\ pc[w] = "idle"
  /\ ~MayClaim(w) \/ control # "running" \/ Claimable = {} \/ failed > 0
  /\ pc' = [pc EXCEPT ![w] = "exit"]
  /\ UNCHANGED <<rows, batch, pool, job, stage, done, outcome, executor, late>>

\* The batch is not running, nothing is claimable, or the flag is raised: the
\* loop ends.  The pool counter still counts this worker.
Leave(w) ==
  /\ pc[w] = "idle"
  /\ ~MayClaim(w) \/ control # "running" \/ Claimable = {}
  /\ pc' = [pc EXCEPT ![w] = "exit"]
  /\ UNCHANGED <<rows, batch, pool, job, stage, done, outcome, executor, late>>

\* Mutant of Exit: an early return skips the decrement.
ExitUncounted(w) ==
  /\ pc[w] = "exit"
  /\ pc' = [pc EXCEPT ![w] = "off"]
  /\ executor' = [executor EXCEPT ![w] = "ready"]
  /\ UNCHANGED <<rows, batch, pool, job, stage, done, outcome, late>>

\* running.fetch_sub, the last thing a worker does to shared state.
Exit(w) ==
  /\ pc[w] = "exit"
  /\ pc' = [pc EXCEPT ![w] = "off"]
  /\ running' = running - 1
  /\ executor' = [executor EXCEPT ![w] = "ready"]
  /\ UNCHANGED <<rows, batch, op, poolSize, cancelFlag, job, stage, done, outcome, late>>

\* An archive document was recorded by a module that ran before.  Documents are
\* written after run_stages, whether it succeeded or not, and an error of that
\* replaces the outcome of the stages.
Archived(w) ==
  \/ stage[w] = "platform_data" /\ ("metadata" \in Selected \/ done[w] > 0)
  \/ stage[w] = "verify" /\ Selected \cap {"metadata", "platform_data"} # {}
ArchiveError(w) == IF Archived(w) THEN Faults \ {"conflict"} ELSE {}

\* Mutant of MayRun: the guard trusts the flag alone.
MayRunByFlag == ~cancelFlag

MayRun == ~cancelFlag /\ control = "running"
Refusal == IF cancelFlag \/ control = "cancelled" THEN "cancelled" ELSE "paused"

\* StageExecutor::guard: reads the flag and the batch row, nothing else.
Guard(w) ==
  /\ pc[w] = "guard"
  /\ \/ /\ MayRun
        /\ pc' = [pc EXCEPT ![w] = "begin"]
        /\ UNCHANGED <<stage, outcome>>
     \/ /\ ~MayRun
        /\ pc' = [pc EXCEPT ![w] = "fail"]
        /\ outcome' = [outcome EXCEPT ![w] = Refusal]
        /\ UNCHANGED stage
     \/ /\ ~MayRun \/ stage[w] = "verify"     \* persist_archives fails
        /\ pc' = [pc EXCEPT ![w] = "fail"]
        /\ \E e \in ArchiveError(w) : outcome' = [outcome EXCEPT ![w] = e]
        /\ stage' = [stage EXCEPT ![w] = "platform_data"]
  /\ UNCHANGED <<rows, batch, pool, job, done, executor, late>>

\* begin_stage: takes or renews the lease, appends "started", sets the status.
Begin(w) ==
  /\ pc[w] = "begin"
  /\ LET t == job[w] IN
     IF L!Acquirable(lease[t], w)
     THEN /\ lease' = [lease EXCEPT ![t] = L!Fresh(w)]
          /\ Append(t, stage[w], "started")
          /\ status' = [status EXCEPT ![t] = StateOf[stage[w]]]
          /\ pc' = [pc EXCEPT ![w] = "run"]
          /\ late' = [late EXCEPT ![w] = IF control = "running" THEN 0 ELSE @ + 1]
          /\ UNCHANGED outcome
     ELSE /\ pc' = [pc EXCEPT ![w] = "fail"]
          /\ outcome' = [outcome EXCEPT ![w] = "conflict"]
          /\ UNCHANGED <<status, lease, checkpoints, late>>
  /\ UNCHANGED <<attempt, errLog, batch, pool, job, stage, done, executor>>

\* Which errors the body of a stage can end with.  The optional stages degrade
\* every module error to a report; what is left is storing it, or the archive.
\* A raised flag kills the clone and the ls-remote of verify, but not the push.
WorkError(w) ==
  IF stage[w] \in OptionalStage THEN (Faults \cap {"transient"}) \cup ArchiveError(w)
  ELSE Faults \cup
       (IF cancelFlag /\ (stage[w] = "verify" \/ (stage[w] = "git" /\ done[w] = 0))
        THEN {"cancelled"} ELSE {})

\* The external work of a stage fails.  Errors of all optional stages are
\* recorded under platform_data.
WorkFails(w) ==
  /\ pc[w] = "run"
  /\ \E e \in WorkError(w) : outcome' = [outcome EXCEPT ![w] = e]
  /\ pc' = [pc EXCEPT ![w] = "fail"]
  /\ stage' = [stage EXCEPT ![w] = IF @ \in OptionalStage THEN "platform_data" ELSE @]
  /\ UNCHANGED <<rows, batch, pool, job, done, executor, late>>

\* prepare_target returns None: nothing is written and the task is skipped.
WorkSkips(w) ==
  /\ pc[w] = "run"
  /\ stage[w] = "prepare_target"
  /\ pc' = [pc EXCEPT ![w] = "complete"]
  /\ outcome' = [outcome EXCEPT ![w] = "skipped"]
  /\ UNCHANGED <<rows, batch, pool, job, stage, done, executor, late>>

\* The worker is through with its stage and turns to the next one.
NextStage(w) ==
  /\ pc' = [pc EXCEPT ![w] = "guard"]
  /\ \E n \in Stage : Follows(stage[w], n) /\ stage' = [stage EXCEPT ![w] = n]
  /\ done' = [done EXCEPT ![w] = 0]

\* A unit of external work succeeds: a report follows, or the next stage.
WorkSucceeds(w) ==
  /\ pc[w] = "run"
  /\ stage[w] # "verify"
  /\ IF done[w] < Reports[stage[w]]
     THEN pc' = [pc EXCEPT ![w] = "report"] /\ UNCHANGED <<stage, done>>
     ELSE NextStage(w)
  /\ UNCHANGED <<rows, batch, pool, job, outcome, executor, late>>

\* verify compared the refs; the aggregate decides the verdict.
WorkVerifies(w) ==
  /\ pc[w] = "run"
  /\ stage[w] = "verify"
  /\ \E v \in {"succeeded", "partial", "failed"} : outcome' = [outcome EXCEPT ![w] = v]
  /\ pc' = [pc EXCEPT ![w] = "complete"]
  /\ UNCHANGED <<rows, batch, pool, job, stage, done, executor, late>>

\* report_progress: the heartbeat's verdict is ignored, the append's is not.
\* After a stage's last report the next stage follows at once.
Report(w) ==
  /\ pc[w] = "report"
  /\ LET t == job[w] IN
     IF L!Held(lease[t], w)
     THEN /\ lease' = [lease EXCEPT ![t] = L!Fresh(w)]
          /\ Append(t, stage[w], "heartbeat")
          /\ IF done[w] + 1 < Reports[stage[w]]
             THEN /\ pc' = [pc EXCEPT ![w] = "run"]
                  /\ done' = [done EXCEPT ![w] = @ + 1]
                  /\ UNCHANGED stage
             ELSE NextStage(w)
          /\ UNCHANGED outcome
     ELSE /\ pc' = [pc EXCEPT ![w] = "fail"]
          /\ outcome' = [outcome EXCEPT ![w] = "transient"]
          /\ UNCHANGED <<lease, checkpoints, done, stage>>
  /\ UNCHANGED <<status, attempt, errLog, batch, pool, job, executor, late>>

\* The worker is done with its task and returns to the loop.
BackToLoop(w) ==
  /\ pc' = [pc EXCEPT ![w] = "idle"]
  /\ job' = [job EXCEPT ![w] = NoTask]
  /\ outcome' = [outcome EXCEPT ![w] = "none"]
  /\ stage' = [stage EXCEPT ![w] = "prepare_target"]
  /\ done' = [done EXCEPT ![w] = 0]

\* Mutant of StatusAfterError: a transient failure goes back to the queue.
StatusAfterErrorRequeue(e) ==
  IF e \in SkipError THEN "skipped"
  ELSE IF e = "transient" THEN "planned" ELSE "retryable_failed"

\* The status fail_stage writes for an error.
StatusAfterError(e) == IF e \in SkipError THEN "skipped" ELSE "retryable_failed"

\* fail_stage under run's "let _ =": without the lease the append is refused and
\* the whole call is dropped.
Fail(w) ==
  /\ pc[w] = "fail"
  /\ LET t == job[w] IN
     IF L!Held(lease[t], w)
     THEN /\ Append(t, stage[w], "failed")
          /\ status' = [status EXCEPT ![t] = StatusAfterError(outcome[w])]
          /\ errLog' = [errLog EXCEPT ![t] = outcome[w]]
          /\ Rollup(status')
          /\ lease' = [lease EXCEPT ![t] = L!Released(@, w)]
     ELSE UNCHANGED <<status, errLog, checkpoints, lease, batch>>
  /\ BackToLoop(w)
  /\ UNCHANGED <<attempt, pool, executor, late>>

\* The status complete_task writes for an aggregate verdict.
StatusAfterVerdict(v) == IF v = "failed" THEN "retryable_failed" ELSE v

\* complete_task; without the lease its error takes the failure path.
Complete(w) ==
  /\ pc[w] = "complete"
  /\ LET t == job[w] IN
     IF L!Held(lease[t], w)
     THEN /\ Append(t, "verify", "succeeded")
          /\ status' = [status EXCEPT ![t] = StatusAfterVerdict(outcome[w])]
          /\ Rollup(status')
          /\ lease' = [lease EXCEPT ![t] = L!Released(@, w)]
          /\ BackToLoop(w)
     ELSE /\ pc' = [pc EXCEPT ![w] = "fail"]
          /\ outcome' = [outcome EXCEPT ![w] = "transient"]
          /\ UNCHANGED <<status, checkpoints, lease, batch, job, stage, done>>
  /\ UNCHANGED <<attempt, errLog, pool, executor, late>>

WorkerStep(w) ==
  \/ Build(w) \/ Claim(w) \/ Leave(w) \/ Exit(w)
  \/ Guard(w) \/ Begin(w)
  \/ WorkFails(w) \/ WorkSkips(w) \/ WorkSucceeds(w) \/ WorkVerifies(w)
  \/ Report(w) \/ Fail(w) \/ Complete(w)

-----------------------------------------------------------------------------
(***************************************************************************)
(* The operator.  Commands run one at a time on the command thread; the    *)
(* launcher call is made after the AppState lock is dropped.               *)
(***************************************************************************)

Pause ==
  /\ "pause" \in Events
  /\ op = "idle" /\ control = "running"
  /\ control' = "paused"
  /\ UNCHANGED <<rows, completed, failed, ended, pool, threads, late>>

Resume ==
  /\ "resume" \in Events
  /\ op = "idle" /\ control = "paused"
  /\ control' = "running"
  /\ op' = "launch"
  /\ late' = [w \in Worker |-> 0]
  /\ UNCHANGED <<rows, completed, failed, ended, poolSize, cancelFlag, running, threads>>

Cancel ==
  /\ "cancel" \in Events
  /\ op = "idle" /\ control \in {"running", "paused"}
  /\ control' = "cancelled"
  /\ ended' = TRUE
  /\ op' = "cancel"
  /\ UNCHANGED <<rows, completed, failed, poolSize, cancelFlag, running, threads, late>>

\* retry_tasks: the eligible ones of the chosen tasks are re-queued, a completed
\* batch reopens, the roll-up is refreshed, and a running batch is launched.
Retry ==
  /\ "retry" \in Events
  /\ op = "idle" /\ control # "cancelled"
  /\ \E chosen \in SUBSET Task :
       LET S == {t \in chosen : Retryable(t)} IN
       /\ S # {}
       /\ \A t \in S : attempt[t] < MaxAttempt
       /\ status'  = [t \in Task |-> IF t \in S THEN "planned" ELSE status[t]]
       /\ attempt' = [t \in Task |-> IF t \in S THEN attempt[t] + 1 ELSE attempt[t]]
       /\ lease'   = [t \in Task |-> IF t \in S THEN L!NoLease ELSE lease[t]]
  /\ control' = IF control = "completed" THEN "running" ELSE control
  /\ ended' = IF control = "completed" THEN FALSE ELSE ended
  /\ completed' = Cardinality({t \in Task : status'[t] \in Done})
  /\ failed' = Cardinality({t \in Task : status'[t] = "retryable_failed"})
  /\ op' = IF control' = "running" THEN "launch" ELSE "idle"
  /\ late' = IF control' = "running" THEN [w \in Worker |-> 0] ELSE late
  /\ UNCHANGED <<errLog, checkpoints, poolSize, cancelFlag, running, threads>>

\* Mutant of Launch: a second pool is spawned next to a live one.
LaunchAlways ==
  /\ op = "launch"
  /\ op' = "idle"
  /\ cancelFlag' = FALSE
  /\ \E S \in Spawns :
       LET spawned == S \cap (0 .. poolSize - 1) IN
       /\ running' = Cardinality(spawned)
       /\ pc' = [w \in Worker |-> IF w \in spawned THEN "start" ELSE pc[w]]
  /\ UNCHANGED <<rows, batch, poolSize, job, stage, done, outcome, executor, late>>

\* ThreadPoolLauncher::launch: a pool that still counts a worker is left as it
\* is; otherwise a pool is spawned, minus the threads the OS refuses.
Launch ==
  /\ op = "launch"
  /\ op' = "idle"
  /\ cancelFlag' = FALSE
  /\ IF running > 0
     THEN UNCHANGED <<running, pc>>
     ELSE \E S \in Spawns :
            LET spawned == S \cap (0 .. poolSize - 1) IN
            /\ running' = Cardinality(spawned)
            /\ pc' = [w \in Worker |-> IF w \in spawned THEN "start" ELSE pc[w]]
  /\ UNCHANGED <<rows, batch, poolSize, job, stage, done, outcome, executor, late>>

\* ThreadPoolLauncher::cancel.  (A batch never launched since the process started
\* has no flag, and after a cancel nobody would read it.)
RaiseFlag ==
  /\ op = "cancel"
  /\ op' = "idle"
  /\ cancelFlag' = TRUE
  /\ UNCHANGED <<rows, batch, poolSize, running, threads, late>>

-----------------------------------------------------------------------------
(***************************************************************************)
(* Time and the process.                                                   *)
(***************************************************************************)

\* A worker that has claimed its task but not begun a stage of it.
Starting(w) == job[w] # NoTask /\ status[job[w]] = "planned"

Tick ==
  /\ "tick" \in Events
  /\ PromptStart => \A w \in Worker : Starting(w) => lease[job[w]].left > 1
  /\ lease' = [t \in Task |-> L!Aged(lease[t])]
  /\ UNCHANGED <<status, attempt, errLog, checkpoints, batch, pool, threads, late>>

\* The process dies and is started again: the rows survive, nothing in memory
\* does, nothing is relaunched, and the pool size falls back to one.
Crash ==
  /\ "crash" \in Events
  /\ op' = "idle" /\ poolSize' = 1 /\ cancelFlag' = FALSE /\ running' = 0
  /\ pc' = [w \in Worker |-> "off"]
  /\ job' = [w \in Worker |-> NoTask]
  /\ outcome' = [w \in Worker |-> "none"]
  /\ stage' = [w \in Worker |-> "prepare_target"]
  /\ done' = [w \in Worker |-> 0]
  /\ executor' = [w \in Worker |-> "ready"]
  /\ late' = [w \in Worker |-> 0]
  /\ UNCHANGED <<rows, batch>>

-----------------------------------------------------------------------------

\* start_batch has written the rows and dropped the lock; the launch is due.
Init ==
  /\ status  = [t \in Task |-> "planned"]
  /\ attempt = [t \in Task |-> 0]
  /\ lease   = [t \in Task |-> L!NoLease]
  /\ errLog  = [t \in Task |-> "none"]
  /\ checkpoints = {}
  /\ control = "running" /\ completed = 0 /\ failed = 0 /\ ended = FALSE
  /\ op = "launch" /\ poolSize = Concurrency /\ cancelFlag = FALSE /\ running = 0
  /\ pc       = [w \in Worker |-> "off"]
  /\ job      = [w \in Worker |-> NoTask]
  /\ stage    = [w \in Worker |-> "prepare_target"]
  /\ done     = [w \in Worker |-> 0]
  /\ outcome  = [w \in Worker |-> "none"]
  /\ executor = [w \in Worker |-> "ready"]
  /\ late     = [w \in Worker |-> 0]

Command == Pause \/ Resume \/ Cancel \/ Retry

Next ==
  \/ \E w \in Worker : WorkerStep(w)
  \/ Command
  \/ Launch \/ RaiseFlag
  \/ Tick \/ Crash

Spec == Init /\ [][Next]_vars
(***************************************************************************)
(* Fairness.  A thread that can take a step takes it: Git children and     *)
(* HTTP calls are bounded by timeouts, so a stage always ends.  A command  *)
(* that dropped the lock goes on to its launcher call.  The operator, the  *)
(* clock and a crash are never obliged to happen.                          *)
(***************************************************************************)
FairSpec ==
  /\ Spec
  /\ \A w \in Worker : WF_vars(WorkerStep(w))
  /\ WF_vars(Launch \/ RaiseFlag)

-----------------------------------------------------------------------------
(***************************************************************************)
(* Safety.                                                                 *)
(***************************************************************************)

\* No two workers work on the same task, although a lease expires under a
\* stage that runs longer than it (claim_next_task, begin_stage).  Needs
\* PromptStart.
ExclusiveJob ==
  \A v, w \in Worker : job[v] # NoTask /\ v # w => job[v] # job[w]

\* The batch row's counters equal a count over the task rows at all times, also
\* between commands and workers (refresh_batch_rollup is called by every
\* operation that changes what it counts).
RollupExact ==
  /\ completed = Cardinality({t \in Task : status[t] \in Done})
  /\ failed = Cardinality({t \in Task : status[t] = "retryable_failed"})

\* An end time is shown exactly for a batch that is over, and a batch that is
\* "completed" has no task left to do; cancel, retry and the roll-up write
\* these columns independently of each other.
EndedIffOver ==
  /\ ended <=> control \in {"completed", "cancelled"}
  /\ control = "completed" => AllSettled(status)

\* A batch whose last task settles does not stay open: nothing would ever run
\* the roll-up again (fail_stage, complete_task).
NoOpenBatchWithoutWork == AllSettled(status) => control \in {"completed", "cancelled"}

\* A task in the middle of a stage always carries a lease, so once its owner is
\* gone the recovery query can find it; a settled task carries none, so it is
\* never listed as interrupted (begin_stage, fail_stage, complete_task,
\* retry_tasks, recoverable).
InFlightIsRecoverable ==
  \A t \in Task :
    /\ status[t] \in InFlight => lease[t].left > 0 \/ t \in Recoverable
    /\ status[t] \in Settled => lease[t] = L!NoLease

\* What the task row claims is backed by the append-only log of the very same
\* attempt: a result needs its "failed" or "succeeded" line, and a migrated
\* repository needs a verification that was started after all stages of the plan.
Logged(t, s, tr) ==
  [task |-> t, attempt |-> attempt[t], stage |-> s, transition |-> tr] \in checkpoints
ResultIsLogged ==
  \A t \in Task :
    /\ status[t] \in Settled =>
         \E s \in Stage, tr \in {"failed", "succeeded"} : Logged(t, s, tr)
    /\ status[t] \in {"succeeded", "partial"} =>
         Logged(t, "verify", "succeeded") /\ \A s \in Planned : Logged(t, s, "started")

\* The log of an attempt is a prefix of the plan: no stage starts before the
\* planned stages ahead of it (run_stages; claim and retry never resume midway).
StartsInOrder ==
  \A c \in checkpoints : c.transition = "started" =>
    \A s \in Planned : Before(s, c.stage) =>
      [c EXCEPT !.stage = s] \in checkpoints

\* The pool counter equals the number of live threads, so a second pool is never
\* started next to one, and the counter does not stay high (launch, Worker::run).
PoolExact == running = Cardinality({w \in Worker : pc[w] # "off"})

\* After pause or cancel a worker begins at most the one stage whose guard it
\* had already passed (StageExecutor::guard then begin).
AtMostOneLateStage == \A w \in Worker : late[w] <= 1

(***************************************************************************)
(* What a step may never do.                                               *)
(***************************************************************************)

\* Within one attempt no stage is begun twice, whatever is claimed, lost, paused,
\* crashed or retried in between: redoing a stage needs a new attempt.
StageBegunOncePerAttempt ==
  [][\A w \in Worker : pc[w] = "begin" /\ pc'[w] = "run" =>
       ~Logged(job[w], stage[w], "started")]_vars

\* A launch never replaces a thread that is still alive.
NoThreadReplaced ==
  [][\A w \in Worker : pc[w] # "start" /\ pc'[w] = "start" => pc[w] = "off"]_vars

\* A worker that returns to its loop leaves a settled task behind.  The
\* exception is a lease that ran out under a stage (see RunRecordsOutcome).
RunRecordsOutcome ==
  [][\A w \in Worker : pc[w] \in Busy /\ pc'[w] = "idle" => status'[job[w]] \in Settled]_vars

(***************************************************************************)
(* Liveness, under FairSpec.                                               *)
(***************************************************************************)

\* Every worker of a batch that stops running gets back to the end of its loop,
\* unless the batch is started again meanwhile (guard, work).
StopDrains ==
  control \in {"paused", "cancelled"} ~> control = "running" \/ \A w \in Worker : pc[w] = "off"

\* A batch left alone completes: no worker leaves while a task it could claim is
\* open, and the last one settles the batch (claim_next_task, refresh_batch_rollup).
BatchCompletes == <>(control = "completed")

-----------------------------------------------------------------------------
(***************************************************************************)
(* The abstract lifecycle of a batch, implemented by this module.          *)
(***************************************************************************)
Lifecycle == INSTANCE TaskLifecycle WITH
  active <- {t \in Task : \E w \in Worker : job[w] = t}

\* Leases, threads and the database keep the promises of TaskLifecycle.
ImplementsLifecycle == Lifecycle!Spec

-----------------------------------------------------------------------------
(***************************************************************************)
(* The strengthenings that make the invariants above inductive.            *)
(***************************************************************************)

\* A worker has a task exactly while it is inside a run of the executor.
JobIffBusy == \A w \in Worker : job[w] \in Task <=> pc[w] \in Busy

\* What a worker is about to record is something that can be recorded.
OutcomeReady ==
  \A w \in Worker :
    /\ pc[w] = "fail" => outcome[w] \in Error
    /\ pc[w] = "complete" => outcome[w] \in Verdict

\* Every task being worked on is open and carries its worker's name; as long as
\* it shows "planned", which is what claiming looks for, the lease is unexpired.
Ownership ==
  \A w \in Worker : job[w] \in Task =>
    /\ status[job[w]] \in Open
    /\ lease[job[w]].owner = w
    /\ status[job[w]] = "planned" => lease[job[w]].left > 0

\* The status of a task tells the stage its worker is in, or was in before.
StatusFollowsStage ==
  \A w \in Worker : job[w] \in Task =>
    /\ pc[w] \in {"run", "report"} => status[job[w]] = StateOf[stage[w]]
    /\ pc[w] \in {"guard", "begin"} => Rank[status[job[w]]] < Rank[StateOf[stage[w]]]
    /\ pc[w] = "complete" /\ outcome[w] \in {"succeeded", "partial"} =>
         status[job[w]] = "verifying"

\* No stage begun in the past counts while the batch is running, and a worker
\* past a guard has begun none since the batch stopped.
LateReset ==
  \A w \in Worker : control = "running" \/ pc[w] = "begin" => late[w] = 0

-----------------------------------------------------------------------------
(***************************************************************************)
(* What the repository says and the code does not do (the violation runs). *)
(***************************************************************************)

\* state.rs: resuming starts the workers again, "launch is idempotent".  A
\* running batch whose commands are done has workers, as long as there is a
\* task to claim.
NoLostWakeup ==
  control = "running" /\ op = "idle" /\ Claimable # {} =>
    \E w \in Worker : pc[w] \notin {"off", "exit"}
=============================================================================
