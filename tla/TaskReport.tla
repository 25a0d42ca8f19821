----------------------------- MODULE TaskReport -----------------------------
(***************************************************************************)
(* What AppState writes about the tasks of one batch and what the report,  *)
(* the task list and the retry command read back.                          *)
(*                                                                         *)
(* A recording command holds the state lock for its whole length but runs  *)
(* its statements one by one, without a transaction: here it is an action  *)
(* with the number n of statements that reach the database, and when that  *)
(* is not all of them the process has ended. Leases are left out: the job  *)
(* of a task belongs to one worker (MigrationQueue.ExclusiveJob).          *)
(***************************************************************************)
EXTENDS Naturals, Sequences, FiniteSets, SequencesExt

CONSTANTS
  Task,
  Skips,    \* tasks planned to skip a target that is not empty
  Work,     \* stages before the verification
  Error,    \* what a stage may fail with: [code, class]
  Verdict,  \* what a completed task may be
  Steps,    \* modules a work stage reports one by one
  Retries,  \* how often each task may be retried
  MaxCrash,
  NONE

\* What any error of the store is reported as.
StoreError == [code |-> "ipc.store", class |-> "retryable"]

ASSUME ReportAssumption ==
  /\ IsFiniteSet(Task) /\ Skips \subseteq Task /\ "counters" \notin Task
  /\ Retries \in [Task -> Nat] /\ MaxCrash \in Nat /\ Steps \in Nat
  /\ \A e \in Error : /\ e.class \in {"retryable", "forbidden", "skip"}
                       /\ e.code # NONE /\ e # NONE
  /\ Verdict \subseteq {"succeeded", "partial", "skipped", "retryable_failed"}
  /\ Work # {}
  /\ Work \cap {"planned", "idle", "verify", "succeeded", "partial", "skipped",
               "retryable_failed"} = {}
  /\ NONE \notin Work \cup {"idle", "verify", StoreError.code} /\ NONE # StoreError

VARIABLES
  row,        \* table repository_task: [status, attempt, code]
  checkpoint, \* table checkpoint, the rows a later command can still read
  log,        \* table log_event, one sequence per task
  module,     \* table module_result: [task, attempt]
  batch,      \* the counters of table batch: [completed, failed]
  job,        \* the stage a worker has a task in, "idle" at its start, or NONE
  sent,       \* modules the work stage of a task has reported
  reason,     \* history: the error each task last failed with, or NONE
  torn,       \* history: tasks whose last failure was not logged, and
              \* "counters" while a crash has kept them from being refreshed
  crashes

db == <<row, checkpoint, log, module, batch>>
vars == <<db, job, sent, reason, torn, crashes>>

Done == {"succeeded", "partial", "skipped"}
Settled == Done \cup {"retryable_failed"}
Stage == Work \cup {"verify"}

----------------------------------------------------------------------------
(* The readers.                                                            *)

\* The verify row ORDER BY created_at_ms DESC, id DESC may put first: the id is
\* a hash, so any of the latest millisecond.
Evidence(t) ==
  {[attempt |-> c.attempt, verdict |-> c.verdict] :
     c \in {d \in checkpoint : d.task = t /\ d.stage = "verify"}}

\* Mutant of LoggedError: the oldest log first.
LoggedErrorOldest(t) == IF log[t] = <<>> THEN NONE ELSE Head(log[t])

\* The latest error that was ever logged for the task, whichever its attempt.
LoggedError(t) == IF log[t] = <<>> THEN NONE ELSE Last(log[t])

\* The task list falls back to the code of the row, not retryable by itself.
ErrorOf(t) ==
  IF LoggedError(t) # NONE THEN LoggedError(t)
  ELSE IF row[t].code # NONE THEN [code |-> row[t].code, class |-> "forbidden"]
  ELSE NONE

\* One line of the report; a task still under way has none.
Line(t) ==
  [status |-> row[t].status, evidence |-> Evidence(t), error |-> ErrorOf(t),
   modules |-> {m \in module : m.task = t}]

\* Mutant of Eligible: the category of the error is not looked at.
EligibleByStatus(t) == row[t].status = "retryable_failed"

\* Mutant of Eligible: a skipped task may be retried.
EligibleSkipped(t) ==
  /\ row[t].status \in {"retryable_failed", "skipped"}
  /\ ErrorOf(t) # NONE => ErrorOf(t).class \in {"retryable", "skip"}

Eligible(t) ==
  /\ row[t].status = "retryable_failed"
  /\ ErrorOf(t) # NONE => ErrorOf(t).class = "retryable"

----------------------------------------------------------------------------
(* The statements.                                                         *)

Entry(t, stage, transition, verdict, progress) ==
  [task |-> t, stage |-> stage, attempt |-> row[t].attempt,
   transition |-> transition, verdict |-> verdict, progress |-> progress,
   fresh |-> TRUE]

\* The key holds the millisecond: rows of the current one are fresh.
Key(c) == <<c.task, c.stage, c.attempt, c.transition, c.fresh>>

\* INSERT OR IGNORE under the idempotency key: the same entry again is nothing
\* new, another entry under the same key is an error.
Collides(table, c) == \E d \in table : Key(d) = Key(c) /\ d # c

\* A row is left out once another of its task and stage is later, which every
\* reader prefers, or, for a work stage, once no entry can collide with it.
Appended(table, c) ==
  {d \in table : d.fresh \/ (d.stage = "verify" /\ <<d.task, d.stage>> # <<c.task, c.stage>>)}
  \cup {c}

\* Mutant of MuchLater: timestamps in seconds.
MuchLaterSeconds == checkpoint

\* The clock moves with the reports that follow work. Work that needs no call to
\* the remote may end in the millisecond it began in.
MuchLater == {[c EXCEPT !.fresh = FALSE] : c \in checkpoint}
Later == {checkpoint, MuchLater}

Rolled(rows) ==
  [completed |-> Cardinality({t \in Task : rows[t].status \in Done}),
   failed |-> Cardinality({t \in Task : rows[t].status = "retryable_failed"})]

\* A report ends with all its statements, or the process ends within it.
Ends(t, whole) ==
  IF whole THEN /\ job' = [job EXCEPT ![t] = NONE] /\ UNCHANGED crashes
  ELSE /\ crashes < MaxCrash /\ crashes' = crashes + 1
       /\ job' = [u \in Task |-> NONE]

----------------------------------------------------------------------------
(* The commands.                                                           *)

Claim(t) ==
  /\ row[t].status = "planned" /\ job[t] = NONE
  /\ job' = [job EXCEPT ![t] = "idle"]
  /\ UNCHANGED <<db, sent, reason, torn, crashes>>

\* begin_stage: checkpoint, task row.
BeginStage(t, stage, n) ==
  /\ t \notin Skips
  /\ job[t] = "idle" \/ (job[t] \in Work /\ sent[t] = Steps /\ stage = "verify")
  /\ checkpoint' = Appended(checkpoint, Entry(t, stage, "started", "none", 0))
  /\ IF n = 2
     THEN /\ row' = [row EXCEPT ![t].status = stage, ![t].code = NONE]
          /\ job' = [job EXCEPT ![t] = stage]
          /\ UNCHANGED crashes
     ELSE row' = row /\ Ends(t, FALSE)
  /\ sent' = [sent EXCEPT ![t] = 0]
  /\ UNCHANGED <<log, module, batch, reason, torn>>

\* record_module_result.
RecordModule(t) ==
  /\ job[t] \in Work /\ sent[t] < Steps
  /\ module' = module \cup {[task |-> t, attempt |-> row[t].attempt]}
  /\ UNCHANGED <<row, checkpoint, log, batch, job, sent, reason, torn, crashes>>

\* report_progress after each module: one statement.
ReportProgress(t) ==
  /\ job[t] \in Work /\ sent[t] < Steps
  /\ [task |-> t, attempt |-> row[t].attempt] \in module
  /\ sent' = [sent EXCEPT ![t] = @ + 1]
  /\ \E table \in Later :
       LET c == Entry(t, job[t], "heartbeat", "none", sent'[t])
       IN ~Collides(table, c) /\ checkpoint' = Appended(table, c)
  /\ UNCHANGED <<row, log, module, batch, job, reason, torn, crashes>>

StatusOf(e) == IF e.class = "skip" THEN "skipped" ELSE "retryable_failed"

\* fail_stage: checkpoint, task row, log, roll-up; the lease is the fifth.
FailStage(t, e, n) ==
  LET stage == IF job[t] = "idle" THEN CHOOSE s \in Work : TRUE ELSE job[t]
      failed == [row EXCEPT ![t].status = StatusOf(e), ![t].code = e.code]
  IN /\ job[t] # NONE
     /\ \E table \in Later :
          checkpoint' = Appended(table, Entry(t, stage, "failed", "none", 0))
     /\ row' = IF n >= 2 THEN failed ELSE row
     /\ log' = IF n >= 3 THEN [log EXCEPT ![t] = Append(@, e)] ELSE log
     /\ batch' = IF n >= 4 THEN Rolled(failed) ELSE batch
     /\ reason' = IF n >= 2 THEN [reason EXCEPT ![t] = e] ELSE reason
     /\ torn' = IF n = 1 THEN torn
                ELSE (torn \ {t, "counters"}) \cup (IF n = 2 THEN {t} ELSE {})
                       \cup (IF n < 4 THEN {"counters"} ELSE {})
     /\ Ends(t, n = 4)
     /\ UNCHANGED <<module, sent>>

\* Progress that is refused fails the stage like any other store error.
FailByCollision(t) ==
  /\ job[t] \in Work /\ sent[t] < Steps
  /\ Collides(checkpoint, Entry(t, job[t], "heartbeat", "none", sent[t] + 1))
  /\ FailStage(t, StoreError, 4)

\* complete_task: checkpoint, task row, roll-up; the lease is the fourth. It
\* follows a verification, or without one the decision to skip; both have asked
\* the remote, which takes a millisecond at least.
CompleteTask(t, verdict, n) ==
  LET finished == [row EXCEPT ![t].status = verdict, ![t].code = NONE]
  IN /\ job[t] = (IF t \in Skips THEN "idle" ELSE "verify")
     /\ t \in Skips <=> verdict = "skipped"
     /\ checkpoint' = Appended(MuchLater, Entry(t, "verify", "succeeded", verdict, 0))
     /\ row' = IF n >= 2 THEN finished ELSE row
     /\ batch' = IF n >= 3 THEN Rolled(finished) ELSE batch
     /\ reason' = IF n >= 2 THEN [reason EXCEPT ![t] = NONE] ELSE reason
     /\ torn' = IF n = 1 THEN torn
                ELSE (torn \ {t, "counters"}) \cup (IF n < 3 THEN {"counters"} ELSE {})
     /\ Ends(t, n = 3)
     /\ UNCHANGED <<log, module, sent>>

\* Mutant of RetryTask: the counters are left as they were.
RetryTaskNoRefresh(t) ==
  /\ Eligible(t) /\ row[t].attempt < Retries[t]
  /\ row' = [row EXCEPT ![t] = [status |-> "planned", attempt |-> @.attempt + 1,
                                code |-> NONE]]
  /\ torn' = torn \ {t, "counters"}
  /\ UNCHANGED <<checkpoint, log, module, batch, job, sent, reason, crashes>>

\* retry_tasks over one task: judged by what the task list says of it.
RetryTask(t) ==
  /\ Eligible(t) /\ row[t].attempt < Retries[t]
  /\ row' = [row EXCEPT ![t] = [status |-> "planned", attempt |-> @.attempt + 1,
                                code |-> NONE]]
  /\ batch' = Rolled(row')
  /\ torn' = torn \ {t, "counters"}
  /\ UNCHANGED <<checkpoint, log, module, job, sent, reason, crashes>>

Crash ==
  /\ crashes < MaxCrash /\ \E t \in Task : job[t] # NONE
  /\ crashes' = crashes + 1
  /\ job' = [t \in Task |-> NONE]
  /\ UNCHANGED <<db, sent, reason, torn>>

Init ==
  /\ row = [t \in Task |-> [status |-> "planned", attempt |-> 0, code |-> NONE]]
  /\ checkpoint = {} /\ log = [t \in Task |-> <<>>] /\ module = {}
  /\ batch = [completed |-> 0, failed |-> 0]
  /\ job = [t \in Task |-> NONE]
  /\ sent = [t \in Task |-> 0]
  /\ reason = [t \in Task |-> NONE] /\ torn = {} /\ crashes = 0

Next ==
  \/ \E t \in Task :
       \/ Claim(t) \/ RecordModule(t) \/ ReportProgress(t) \/ RetryTask(t)
       \/ FailByCollision(t)
       \/ \E stage \in Stage, n \in 1..2 : BeginStage(t, stage, n)
       \/ \E e \in Error, n \in 1..4 : FailStage(t, e, n)
       \/ \E verdict \in Verdict, n \in 1..3 : CompleteTask(t, verdict, n)
  \/ Crash

Spec == Init /\ [][Next]_vars

----------------------------------------------------------------------------
(* Properties.                                                             *)

\* Type correctness of the tables the report is read from.
TypeOK ==
  /\ row \in [Task -> [status: {"planned"} \cup Stage \cup Settled,
                        attempt: Nat,
                        code: {NONE, StoreError.code} \cup {e.code : e \in Error}]]
  /\ \A c \in checkpoint : c.stage \in Stage /\ c.attempt \in 0..Retries[c.task]
  /\ \A t \in Task : \A i \in DOMAIN log[t] : log[t][i] \in Error \cup {StoreError}
  /\ batch \in [completed: 0..Cardinality(Task), failed: 0..Cardinality(Task)]
  /\ job \in [Task -> Stage \cup {"idle", NONE}]
  /\ torn \subseteq Task \cup {"counters"}

\* A task the report calls migrated carries the evidence of the verification
\* that said so, never that of an earlier attempt or the empty evidence of a
\* stage that began: whatever crashes, retries and equal timestamps came before
\* (complete_task, read_report).
SuccessShowsItsVerification ==
  \A t \in Task : row[t].status \in {"succeeded", "partial"} =>
    /\ Evidence(t) # {}
    /\ \A c \in Evidence(t) :
         c.attempt = row[t].attempt /\ c.verdict = row[t].status

\* For a task that a stage failed, the error shown is the one of that failure,
\* though it is looked up among the logs of all attempts, unless a crash kept it
\* from being logged (fail_stage, read_task_error). A task that its verification
\* failed has no error of its own: complete_task writes neither code nor log, and
\* the lookup then finds what an earlier attempt failed with.
StageErrorIsOfThisFailure ==
  \A t \in Task : row[t].code # NONE /\ t \notin torn => ErrorOf(t) = reason[t]

\* The counters of the batch agree with its tasks; after a crash between a task
\* row and the roll-up the next report of any task repairs them
\* (refresh_batch_rollup).
CountersHeal == "counters" \notin torn => batch = Rolled(row)

\* What the report says of a finished task is final: no later report, retry or
\* crash changes its status, its evidence, its error or its modules.
FinishedLineIsFinal ==
  [][\A t \in Task : row[t].status \in Done => Line(t)' = Line(t)]_vars

\* Whether a failed task may be retried is decided by the failure it is in, though
\* the command judges by the latest error of any attempt: one that a stage failed
\* with an error that is not retryable is refused, one that its verification
\* failed is granted, whatever error of an earlier attempt is shown for it. Only a
\* crash that keeps an error from the log leaves the decision to an older one
\* (retry_tasks, read_task_error).
RetryJudgesThisFailure ==
  \A t \in Task : row[t].status = "retryable_failed" /\ t \notin torn =>
    (Eligible(t) <=> reason[t] = NONE \/ reason[t].class = "retryable")
=============================================================================
