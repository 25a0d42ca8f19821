-------------------------- MODULE TaskReport_proofs --------------------------
(***************************************************************************)
(* The properties of TaskReport, for every number of tasks, stages, errors *)
(* and retries, with a crash between any two statements.  What a report    *)
(* shows of a task is settled while no worker has the task; the invariant  *)
(* ties the row to the job, the counters to the rows, the code in a row to *)
(* the last line of the log, the verdict to the one verify row that is     *)
(* still to be read, and a log that ends in an error that cannot be        *)
(* retried to a task that is settled with it.                              *)
(***************************************************************************)
EXTENDS TaskReport, FiniteSetTheorems, TLAPS

Transitions == {"started", "heartbeat", "failed", "succeeded"}

Checkpoint ==
  [task: Task, stage: Stage, attempt: Nat, transition: Transitions,
   verdict: Verdict \cup {"none"}, progress: Nat, fresh: BOOLEAN]

InTime(table) == \A c \in table : c.attempt <= Retries[c.task]

Failure == Error \cup {StoreError}

TaskRow ==
  [status: {"planned"} \cup Stage \cup Settled, attempt: Nat,
   code: {NONE, StoreError.code} \cup {e.code : e \in Error}]

Tables ==
  /\ row \in [Task -> TaskRow]
  /\ \A t \in Task : row[t].attempt <= Retries[t]
  /\ checkpoint \in SUBSET Checkpoint /\ InTime(checkpoint)
  /\ log \in [Task -> Seq(Failure)]
  /\ batch \in [completed: 0..Cardinality(Task), failed: 0..Cardinality(Task)]
  /\ job \in [Task -> Stage \cup {"idle", NONE}]
  /\ sent \in [Task -> Nat]
  /\ reason \in [Task -> Failure \cup {NONE}]
  /\ torn \subseteq Task \cup {"counters"}

JobRow(t) ==
  /\ job[t] = "idle" => row[t].status = "planned"
  /\ job[t] \in Stage => row[t].status = job[t]

ReasonRow(t) ==
  /\ row[t].code # NONE /\ t \notin torn => log[t] # <<>> /\ Last(log[t]) = reason[t]
  /\ row[t].status = "retryable_failed" /\ reason[t] # NONE => row[t].code # NONE

EvidenceRow(t) ==
  row[t].status \in {"succeeded", "partial"} =>
    /\ Evidence(t) # {}
    /\ \A c \in Evidence(t) : c.attempt = row[t].attempt /\ c.verdict = row[t].status

(* A task goes on after a failure only if that could be retried, so an error *)
(* that could not is the last of its task.                                  *)
LogRow(t) ==
  log[t] # <<>> /\ Last(log[t]).class # "retryable"
    => row[t].status \in Settled /\ reason[t] = Last(log[t]) /\ t \notin torn

TaskInv(t) == JobRow(t) /\ ReasonRow(t) /\ EvidenceRow(t) /\ LogRow(t)

IInv == Tables /\ CountersHeal /\ \A t \in Task : TaskInv(t)

(* A step about t changes nothing that is said of other tasks, but for the  *)
(* workers a crash ends.                                                    *)
Apart(t) ==
  \A u \in Task \ {t} :
    /\ row'[u] = row[u] /\ log'[u] = log[u] /\ reason'[u] = reason[u]
    /\ Evidence(u)' = Evidence(u)
    /\ u \in torn' <=> u \in torn
    /\ job'[u] \in {job[u], NONE}

(* ---- the operators ---------------------------------------------------- *)

(* The verify rows a reader may prefer, in any table of checkpoints.       *)
EvidenceIn(table, t) ==
  {[attempt |-> c.attempt, verdict |-> c.verdict] :
     c \in {d \in table : d.task = t /\ d.stage = "verify"}}

LEMMA EvidenceIsIn == \A t : Evidence(t) = EvidenceIn(checkpoint, t)
BY DEF Evidence, EvidenceIn

(* Time alone keeps what a reader finds. *)
LEMMA TimeKeeps ==
  ASSUME checkpoint \in SUBSET Checkpoint, InTime(checkpoint), NEW table \in Later
  PROVE  /\ table \in SUBSET Checkpoint /\ InTime(table)
         /\ \A t : EvidenceIn(table, t) = Evidence(t)
<1>1. CASE table = checkpoint
  BY <1>1, EvidenceIsIn
<1>2. CASE table = MuchLater
  <2>1. \A c \in checkpoint :
          LET d == [c EXCEPT !.fresh = FALSE]
          IN  /\ d \in Checkpoint /\ d.attempt = c.attempt /\ d.task = c.task
              /\ d.stage = c.stage /\ d.verdict = c.verdict
    BY DEF Checkpoint
  <2>2. table = {[c EXCEPT !.fresh = FALSE] : c \in checkpoint}
    BY <1>2 DEF MuchLater
  <2>3. table \in SUBSET Checkpoint /\ InTime(table)
    BY <2>1, <2>2 DEF InTime
  <2>4. ASSUME NEW t
        PROVE  EvidenceIn(table, t) = Evidence(t)
    <3> HIDE DEF MuchLater
    <3>1. ASSUME NEW x \in EvidenceIn(table, t)
          PROVE  x \in Evidence(t)
      <4>1. PICK d \in table : /\ d.task = t /\ d.stage = "verify"
                               /\ x = [attempt |-> d.attempt, verdict |-> d.verdict]
        BY DEF EvidenceIn
      <4>2. PICK c \in checkpoint : d = [c EXCEPT !.fresh = FALSE]
        BY <2>2
      <4>3. /\ c.task = t /\ c.stage = "verify"
            /\ x = [attempt |-> c.attempt, verdict |-> c.verdict]
        BY <2>1, <4>1, <4>2
      <4> QED
        BY <4>3 DEF Evidence
    <3>2. ASSUME NEW x \in Evidence(t)
          PROVE  x \in EvidenceIn(table, t)
      <4>1. PICK c \in checkpoint : /\ c.task = t /\ c.stage = "verify"
                                    /\ x = [attempt |-> c.attempt, verdict |-> c.verdict]
        BY DEF Evidence
      <4> DEFINE d == [c EXCEPT !.fresh = FALSE]
      <4>2. /\ d \in table /\ d.task = t /\ d.stage = "verify"
            /\ x = [attempt |-> d.attempt, verdict |-> d.verdict]
        BY <2>1, <2>2, <4>1
      <4> QED
        BY <4>2 DEF EvidenceIn
    <3> QED
      BY <3>1, <3>2
  <2> QED
    BY <2>3, <2>4
<1> QED
  BY <1>1, <1>2 DEF Later

(* A checkpoint of another task or of a work stage changes no evidence. *)
LEMMA OthersEvidenceStays ==
  ASSUME NEW table, NEW c, NEW t, c.task # t \/ c.stage # "verify"
  PROVE  EvidenceIn(Appended(table, c), t) = EvidenceIn(table, t)
BY DEF EvidenceIn, Appended

(* The checkpoint of a completion is the only one a reader finds then. *)
LEMMA CompletionIsEvidence ==
  ASSUME checkpoint \in SUBSET Checkpoint, NEW c, c.stage = "verify"
  PROVE  EvidenceIn(Appended(MuchLater, c), c.task)
           = {[attempt |-> c.attempt, verdict |-> c.verdict]}
<1>1. \A d \in MuchLater : ~d.fresh
  BY DEF MuchLater, Checkpoint
<1>2. {d \in Appended(MuchLater, c) : d.task = c.task /\ d.stage = "verify"} = {c}
  <2> HIDE DEF MuchLater
  <2> QED
    BY <1>1 DEF Appended
<1> QED
  BY <1>2 DEF EvidenceIn

LEMMA AppendedTypes ==
  ASSUME NEW table \in SUBSET Checkpoint, InTime(table),
         NEW c \in Checkpoint, c.attempt <= Retries[c.task]
  PROVE  Appended(table, c) \in SUBSET Checkpoint /\ InTime(Appended(table, c))
BY DEF Appended, InTime

(* A roll-up counts tasks. *)
LEMMA RolledTypes ==
  ASSUME NEW rows
  PROVE  Rolled(rows) \in [completed: 0..Cardinality(Task), failed: 0..Cardinality(Task)]
<1>1. \A S \in SUBSET Task : Cardinality(S) \in 0..Cardinality(Task)
  BY ReportAssumption, FS_Subset, FS_CardinalityType DEF ReportAssumption
<1> QED
  BY <1>1 DEF Rolled

(* It counts the same while no task is settled or requeued. *)
LEMMA RolledSame ==
  ASSUME NEW old, NEW new,
         \A t \in Task : /\ old[t].status \in Done <=> new[t].status \in Done
                         /\ old[t].status = "retryable_failed" <=> new[t].status = "retryable_failed"
  PROVE  Rolled(new) = Rolled(old)
<1>1. {t \in Task : new[t].status \in Done} = {t \in Task : old[t].status \in Done}
  OBVIOUS
<1>2. {t \in Task : new[t].status = "retryable_failed"}
        = {t \in Task : old[t].status = "retryable_failed"}
  OBVIOUS
<1> QED
  BY <1>1, <1>2 DEF Rolled

(* ---- the steps -------------------------------------------------------- *)

LEMMA InitInv == Init => IInv
<1> SUFFICES ASSUME Init PROVE IInv
  OBVIOUS
<1> USE ReportAssumption DEF ReportAssumption
<1>1. Tables
  <2>1. row \in [Task -> TaskRow] /\ \A t \in Task : row[t].attempt <= Retries[t]
    BY DEF Init, TaskRow
  <2>2. checkpoint \in SUBSET Checkpoint /\ InTime(checkpoint)
    BY DEF Init, InTime
  <2>3. log \in [Task -> Seq(Failure)]
    BY DEF Init
  <2>4. Cardinality(Task) \in Nat
    BY FS_CardinalityType
  <2>5. batch \in [completed: 0..Cardinality(Task), failed: 0..Cardinality(Task)]
    BY <2>4 DEF Init
  <2> QED
    BY <2>1, <2>2, <2>3, <2>5 DEF Init, Tables
<1>2. CountersHeal
  <2>1. {t \in Task : row[t].status \in Done} = {}
    BY DEF Init, Done
  <2>2. {t \in Task : row[t].status = "retryable_failed"} = {}
    BY DEF Init
  <2> QED
    BY <2>1, <2>2, FS_EmptySet DEF Init, CountersHeal, Rolled
<1>3. \A t \in Task : TaskInv(t)
  BY DEF Init, TaskInv, JobRow, ReasonRow, EvidenceRow, LogRow, Stage
<1> QED
  BY <1>1, <1>2, <1>3 DEF IInv

(* What is said of the other tasks stays true. *)
LEMMA OthersKeep ==
  ASSUME NEW t \in Task, Apart(t), TaskInv(t)', \A u \in Task : TaskInv(u)
  PROVE  \A u \in Task : TaskInv(u)'
<1> SUFFICES ASSUME NEW u \in Task \ {t} PROVE TaskInv(u)'
  OBVIOUS
<1>1. JobRow(u)'
  BY ReportAssumption DEF ReportAssumption, Apart, TaskInv, JobRow, Stage
<1>2. ReasonRow(u)'
  BY DEF Apart, TaskInv, ReasonRow
<1>3. EvidenceRow(u)'
  BY DEF Apart, TaskInv, EvidenceRow
<1>4. LogRow(u)'
  BY DEF Apart, TaskInv, LogRow
<1> QED
  BY <1>1, <1>2, <1>3, <1>4 DEF TaskInv

(* A report appends a checkpoint of its task. *)
LEMMA AppendKeeps ==
  ASSUME Tables, NEW t \in Task, NEW table \in Later, NEW stage \in Stage,
         NEW transition \in Transitions, NEW verdict \in Verdict \cup {"none"}, NEW progress \in Nat,
         checkpoint' = Appended(table, Entry(t, stage, transition, verdict, progress))
  PROVE  /\ (checkpoint \in SUBSET Checkpoint)' /\ InTime(checkpoint)'
         /\ \A u \in Task \ {t} : Evidence(u)' = Evidence(u)
<1> DEFINE c == Entry(t, stage, transition, verdict, progress)
<1>1. c \in Checkpoint /\ c.attempt <= Retries[c.task] /\ c.task = t
  BY DEF Entry, Checkpoint, Tables, TaskRow
<1> HIDE DEF c
<1>2. table \in SUBSET Checkpoint /\ InTime(table)
      /\ \A u : EvidenceIn(table, u) = Evidence(u)
  BY TimeKeeps DEF Tables
<1>3. checkpoint' = Appended(table, c)
  BY DEF c
<1>4. checkpoint' \in SUBSET Checkpoint /\ InTime(checkpoint')
  BY <1>1, <1>2, <1>3, AppendedTypes
<1>5. InTime(checkpoint)'
  BY <1>4 DEF InTime
<1>6. ASSUME NEW u \in Task \ {t}
      PROVE  Evidence(u)' = Evidence(u)
  <2>1. Evidence(u)' = EvidenceIn(checkpoint', u)
    BY DEF Evidence, EvidenceIn
  <2>2. EvidenceIn(Appended(table, c), u) = EvidenceIn(table, u)
    BY <1>1, OthersEvidenceStays
  <2> QED
    BY <1>2, <1>3, <2>1, <2>2
<1> QED
  BY <1>4, <1>5, <1>6

(* However a report ends, its worker is done. *)
LEMMA EndsJob ==
  ASSUME Tables, NEW t \in Task, NEW whole \in BOOLEAN, Ends(t, whole)
  PROVE  /\ job' \in [Task -> Stage \cup {"idle", NONE}] /\ job'[t] = NONE
         /\ \A u \in Task : job'[u] \in {job[u], NONE}
BY DEF Tables, Ends

(* A worker has a task that is not settled. *)
LEMMA HeldIsOpen ==
  ASSUME Tables, NEW t \in Task, JobRow(t), job[t] # NONE
  PROVE  row[t].status \notin Settled
BY ReportAssumption, Zenon DEF ReportAssumption, Tables, JobRow, Stage, Settled, Done

LEMMA ClaimKeeps == ASSUME IInv, NEW t \in Task, Claim(t) PROVE IInv' /\ Apart(t)
<1> USE ReportAssumption DEF ReportAssumption
<1>1. Tables'
  BY DEF IInv, Claim, db, Tables, InTime
<1>2. Apart(t)
  BY DEF IInv, Claim, db, Tables, Apart, Evidence
<1>3. CountersHeal'
  BY DEF IInv, Claim, db, CountersHeal, Rolled
<1>4. TaskInv(t)'
  <2>1. job'[t] = "idle" /\ row'[t].status = "planned" /\ "idle" \notin Stage
    BY DEF IInv, Claim, db, Tables, Stage
  <2>2. ReasonRow(t)' /\ EvidenceRow(t)' /\ LogRow(t)'
    BY DEF IInv, Claim, db, TaskInv, ReasonRow, EvidenceRow, LogRow, Evidence
  <2> QED
    BY <2>1, <2>2 DEF TaskInv, JobRow
<1> QED
  BY <1>1, <1>2, <1>3, <1>4, OthersKeep DEF IInv

LEMMA RecordKeeps == ASSUME IInv, NEW t \in Task, RecordModule(t) PROVE IInv' /\ Apart(t)
<1>1. Tables'
  BY DEF IInv, RecordModule, Tables, InTime
<1>2. Apart(t)
  BY DEF IInv, RecordModule, Tables, Apart, Evidence
<1>3. CountersHeal'
  BY DEF IInv, RecordModule, CountersHeal, Rolled
<1>4. \A u \in Task : TaskInv(u)'
  BY DEF IInv, RecordModule, TaskInv, JobRow, ReasonRow, EvidenceRow, LogRow, Evidence
<1> QED
  BY <1>1, <1>2, <1>3, <1>4 DEF IInv

LEMMA ProgressKeeps == ASSUME IInv, NEW t \in Task, ReportProgress(t) PROVE IInv' /\ Apart(t)
<1> USE ReportAssumption DEF ReportAssumption
<1>0. Tables /\ TaskInv(t) /\ CountersHeal
  BY DEF IInv
<1>1. PICK table \in Later :
        checkpoint' = Appended(table, Entry(t, job[t], "heartbeat", "none", sent'[t]))
  BY DEF ReportProgress
<1>2. /\ job[t] \in Stage /\ sent' \in [Task -> Nat]
      /\ UNCHANGED <<row, log, module, batch, job, reason, torn, crashes>>
  BY <1>0 DEF ReportProgress, Stage, Tables
<1>3. /\ (checkpoint \in SUBSET Checkpoint)' /\ InTime(checkpoint)'
      /\ \A u \in Task \ {t} : Evidence(u)' = Evidence(u)
  <2>1. sent'[t] \in Nat /\ "heartbeat" \in Transitions /\ "none" \in Verdict \cup {"none"}
    BY <1>2 DEF Transitions
  <2> QED
    BY <1>0, <1>1, <1>2, <2>1, AppendKeeps
<1>4. Tables'
  BY <1>0, <1>2, <1>3 DEF Tables
<1>5. Apart(t)
  BY <1>2, <1>3 DEF Apart
<1>6. CountersHeal'
  BY <1>0, <1>2 DEF CountersHeal, Rolled
<1>7. TaskInv(t)'
  <2>1. JobRow(t)' /\ ReasonRow(t)' /\ LogRow(t)'
    BY <1>0, <1>2 DEF TaskInv, JobRow, ReasonRow, LogRow
  <2>2. row'[t].status \notin Settled
    BY <1>0, <1>2, HeldIsOpen DEF TaskInv, Stage
  <2> QED
    BY <2>1, <2>2 DEF TaskInv, EvidenceRow, Settled, Done
<1> QED
  BY <1>4, <1>5, <1>6, <1>7, OthersKeep DEF IInv

LEMMA BeginKeeps ==
  ASSUME IInv, NEW t \in Task, NEW stage \in Stage, NEW n \in 1..2, BeginStage(t, stage, n)
  PROVE  IInv' /\ Apart(t)
<1> USE ReportAssumption DEF ReportAssumption
<1>0. Tables /\ TaskInv(t) /\ CountersHeal
  BY DEF IInv
<1>1. /\ checkpoint' = Appended(checkpoint, Entry(t, stage, "started", "none", 0))
      /\ sent' = [sent EXCEPT ![t] = 0] /\ job[t] # NONE
      /\ UNCHANGED <<log, module, batch, reason, torn>>
  BY DEF BeginStage
<1>2. /\ (checkpoint \in SUBSET Checkpoint)' /\ InTime(checkpoint)'
      /\ \A u \in Task \ {t} : Evidence(u)' = Evidence(u)
  <2>1. "started" \in Transitions /\ "none" \in Verdict \cup {"none"} /\ checkpoint \in Later
    BY DEF Transitions, Later
  <2> QED
    BY <1>0, <1>1, <2>1, AppendKeeps
<1>3. row[t].status \notin Settled
  BY <1>0, <1>1, HeldIsOpen DEF TaskInv
<1>4. CASE n = 2
  <2>1. /\ row' = [row EXCEPT ![t] = [@ EXCEPT !.status = stage, !.code = NONE]]
        /\ job' = [job EXCEPT ![t] = stage]
    BY <1>4 DEF BeginStage
  <2>2. /\ row'[t] = [row[t] EXCEPT !.status = stage, !.code = NONE]
        /\ row'[t].status = stage /\ row'[t].code = NONE /\ row'[t].attempt = row[t].attempt
        /\ row'[t] \in TaskRow
        /\ \A u \in Task \ {t} : row'[u] = row[u]
    <3>1. row[t] \in TaskRow /\ row \in [Task -> TaskRow]
      BY <1>0 DEF Tables
    <3>2. [row[t] EXCEPT !.status = stage, !.code = NONE] \in TaskRow
      BY <3>1 DEF TaskRow
    <3>3. /\ row'[t] = [row[t] EXCEPT !.status = stage, !.code = NONE]
          /\ \A u \in Task \ {t} : row'[u] = row[u]
      <4> HIDE DEF TaskRow
      <4> QED
        BY <2>1, <3>1
    <3>4. row'[t].status = stage /\ row'[t].code = NONE /\ row'[t].attempt = row[t].attempt
      BY <3>1, <3>3 DEF TaskRow
    <3> QED
      BY <3>2, <3>3, <3>4
  <2>3. Tables'
    <3>1. row' \in [Task -> TaskRow]
      <4> HIDE DEF TaskRow
      <4> QED
        BY <1>0, <2>1, <2>2 DEF Tables
    <3>2. \A u \in Task : row'[u].attempt <= Retries[u]
      BY <1>0, <2>2 DEF Tables
    <3>3. job' \in [Task -> Stage \cup {"idle", NONE}] /\ sent' \in [Task -> Nat]
      BY <1>0, <1>1, <2>1 DEF Tables
    <3> QED
      BY <1>0, <1>1, <1>2, <3>1, <3>2, <3>3 DEF Tables
  <2>4. Apart(t)
    BY <1>0, <1>1, <1>2, <2>1, <2>2 DEF Apart, Tables
  <2>5. stage \notin Settled
    BY DEF Stage, Settled, Done
  <2>6. CountersHeal'
    <3>1. \A u \in Task : /\ row[u].status \in Done <=> row'[u].status \in Done
                          /\ row[u].status = "retryable_failed" <=> row'[u].status = "retryable_failed"
      BY <1>3, <2>2, <2>5 DEF Settled
    <3>2. Rolled(row') = Rolled(row)
      BY <3>1, RolledSame
    <3> QED
      BY <1>0, <1>1, <3>2 DEF CountersHeal, Rolled
  <2>7. TaskInv(t)'
    <3>1. JobRow(t)' /\ ReasonRow(t)' /\ EvidenceRow(t)'
      BY <1>0, <2>1, <2>2, <2>5 DEF TaskInv, JobRow, ReasonRow, EvidenceRow, Settled, Done, Tables, Stage
    <3>2. LogRow(t)'
      BY <1>0, <1>1, <1>3 DEF TaskInv, LogRow
    <3> QED
      BY <3>1, <3>2 DEF TaskInv
  <2> QED
    BY <2>3, <2>4, <2>6, <2>7, OthersKeep DEF IInv
<1>5. CASE n = 1
  <2>1. row' = row /\ Ends(t, FALSE)
    <3>1. n # 2
      BY <1>5
    <3> QED
      BY <3>1, Zenon DEF BeginStage
  <2>2. /\ job' \in [Task -> Stage \cup {"idle", NONE}] /\ job'[t] = NONE
        /\ \A u \in Task : job'[u] \in {job[u], NONE}
    BY <1>0, <2>1, EndsJob
  <2>3. Tables'
    BY <1>0, <1>1, <1>2, <2>1, <2>2 DEF Tables
  <2>4. Apart(t)
    BY <1>1, <1>2, <2>1, <2>2 DEF Apart
  <2>5. CountersHeal'
    BY <1>0, <1>1, <2>1 DEF CountersHeal, Rolled
  <2>6. TaskInv(t)'
    <3>1. JobRow(t)'
      BY <2>2 DEF JobRow, Stage
    <3>2. ReasonRow(t)'
      BY <1>0, <1>1, <2>1 DEF TaskInv, ReasonRow
    <3>3. EvidenceRow(t)'
      BY <1>3, <2>1 DEF EvidenceRow, Settled, Done
    <3>4. LogRow(t)'
      BY <1>0, <1>1, <2>1 DEF TaskInv, LogRow
    <3> QED
      BY <3>1, <3>2, <3>3, <3>4 DEF TaskInv
  <2> QED
    BY <2>3, <2>4, <2>5, <2>6, OthersKeep DEF IInv
<1> QED
  BY <1>4, <1>5

LEMMA FailKeeps ==
  ASSUME IInv, NEW t \in Task, NEW e \in Failure, NEW n \in 1..4, FailStage(t, e, n)
  PROVE  IInv' /\ Apart(t)
<1> USE ReportAssumption DEF ReportAssumption
<1> DEFINE stage == IF job[t] = "idle" THEN CHOOSE s \in Work : TRUE ELSE job[t]
           failed == [row EXCEPT ![t].status = StatusOf(e), ![t].code = e.code]
<1>0. Tables /\ TaskInv(t) /\ CountersHeal
  BY DEF IInv
<1>1. /\ row' = IF n >= 2 THEN failed ELSE row
      /\ log' = IF n >= 3 THEN [log EXCEPT ![t] = Append(@, e)] ELSE log
      /\ batch' = IF n >= 4 THEN Rolled(failed) ELSE batch
      /\ reason' = IF n >= 2 THEN [reason EXCEPT ![t] = e] ELSE reason
      /\ torn' = IF n = 1 THEN torn
                 ELSE (torn \ {t, "counters"}) \cup (IF n = 2 THEN {t} ELSE {})
                        \cup (IF n < 4 THEN {"counters"} ELSE {})
      /\ job[t] # NONE /\ Ends(t, n = 4) /\ UNCHANGED <<module, sent>>
  BY DEF FailStage
<1>2. PICK table \in Later : checkpoint' = Appended(table, Entry(t, stage, "failed", "none", 0))
  BY DEF FailStage
<1>3. /\ (checkpoint \in SUBSET Checkpoint)' /\ InTime(checkpoint)'
      /\ \A u \in Task \ {t} : Evidence(u)' = Evidence(u)
  <2>1. stage \in Stage
    BY <1>0, <1>1 DEF Tables, Stage
  <2>2. "failed" \in Transitions /\ "none" \in Verdict \cup {"none"}
    BY DEF Transitions
  <2> HIDE DEF stage
  <2> QED
    BY <1>0, <1>2, <2>1, <2>2, AppendKeeps
<1>4. /\ job' \in [Task -> Stage \cup {"idle", NONE}] /\ job'[t] = NONE
      /\ \A u \in Task : job'[u] \in {job[u], NONE}
  BY <1>0, <1>1, EndsJob
<1>5. row[t].status \notin Settled
  BY <1>0, <1>1, HeldIsOpen DEF TaskInv
<1>6. /\ failed[t].status = StatusOf(e) /\ failed[t].code = e.code
      /\ failed[t].attempt = row[t].attempt /\ failed[t] \in TaskRow
      /\ \A u \in Task \ {t} : failed[u] = row[u]
      /\ failed \in [Task -> TaskRow]
  <2>1. StatusOf(e) \in {"skipped", "retryable_failed"}
    BY DEF StatusOf
  <2>2. e.code \in {NONE, StoreError.code} \cup {x.code : x \in Error}
    BY DEF Failure
  <2>3. row[t] \in TaskRow /\ row \in [Task -> TaskRow]
    BY <1>0 DEF Tables
  <2>4. /\ [row[t] EXCEPT !.status = StatusOf(e), !.code = e.code] \in TaskRow
        /\ [row[t] EXCEPT !.status = StatusOf(e), !.code = e.code].status = StatusOf(e)
        /\ [row[t] EXCEPT !.status = StatusOf(e), !.code = e.code].code = e.code
        /\ [row[t] EXCEPT !.status = StatusOf(e), !.code = e.code].attempt = row[t].attempt
    BY <2>1, <2>2, <2>3 DEF TaskRow, Settled, Done
  <2> HIDE DEF TaskRow
  <2> QED
    BY <2>3, <2>4
<1> HIDE DEF failed
<1>7. e.code # NONE /\ e # NONE
  BY DEF Failure, StoreError
<1>8. Tables'
  <2>1. row' \in [Task -> TaskRow] /\ \A u \in Task : row'[u].attempt <= Retries[u]
    BY <1>0, <1>1, <1>6 DEF Tables
  <2>2. log' \in [Task -> Seq(Failure)]
    BY <1>0, <1>1 DEF Tables
  <2>3. batch' \in [completed: 0..Cardinality(Task), failed: 0..Cardinality(Task)]
    BY <1>0, <1>1, RolledTypes DEF Tables
  <2>4. reason' \in [Task -> Failure \cup {NONE}]
    BY <1>0, <1>1 DEF Tables
  <2>5. torn' \subseteq Task \cup {"counters"}
    BY <1>0, <1>1 DEF Tables
  <2> QED
    BY <1>0, <1>1, <1>3, <1>4, <2>1, <2>2, <2>3, <2>4, <2>5 DEF Tables
<1>9. Apart(t)
  <2> SUFFICES ASSUME NEW u \in Task \ {t}
               PROVE  /\ row'[u] = row[u] /\ log'[u] = log[u] /\ reason'[u] = reason[u]
                      /\ u \in torn' <=> u \in torn
    BY <1>3, <1>4 DEF Apart
  <2>1. row'[u] = row[u] /\ log'[u] = log[u] /\ reason'[u] = reason[u]
    BY <1>0, <1>1, <1>6 DEF Tables
  <2>2. u \in torn' <=> u \in torn
    BY <1>1
  <2> QED
    BY <2>1, <2>2
<1>10. CountersHeal'
  <2>1. CASE n = 1
    BY <1>0, <1>1, <2>1 DEF CountersHeal, Rolled
  <2>2. CASE n \in {2, 3}
    BY <1>1, <2>2 DEF CountersHeal
  <2>3. CASE n = 4
    BY <1>1, <2>3 DEF CountersHeal, Rolled
  <2> QED
    BY <2>1, <2>2, <2>3
<1>11. TaskInv(t)'
  <2>1. JobRow(t)'
    BY <1>4 DEF JobRow, Stage
  <2>2. row'[t].status \notin {"succeeded", "partial"}
    BY <1>1, <1>5, <1>6 DEF StatusOf, Settled, Done
  <2>3. ReasonRow(t)'
    <3>1. CASE n = 1
      BY <1>0, <1>1, <3>1 DEF TaskInv, ReasonRow
    <3>2. CASE n # 1
      <4>1. reason'[t] = e /\ row'[t].code # NONE
        BY <1>0, <1>1, <1>6, <1>7, <3>2 DEF Tables
      <4>2. CASE n = 2
        BY <1>1, <4>1, <4>2 DEF ReasonRow
      <4>3. CASE n \in {3, 4}
        <5>1. log'[t] = Append(log[t], e) /\ log[t] \in Seq(Failure)
          BY <1>0, <1>1, <4>3 DEF Tables
        <5>2. log'[t] # <<>> /\ Last(log'[t]) = e
          BY <5>1 DEF Last
        <5> QED
          BY <4>1, <5>2 DEF ReasonRow, Last
      <4> QED
        BY <3>2, <4>2, <4>3
    <3> QED
      BY <3>1, <3>2
  <2>4. LogRow(t)'
    <3>1. log[t] = <<>> \/ Last(log[t]).class = "retryable"
      BY <1>0, <1>5 DEF TaskInv, LogRow
    <3>2. CASE n \in {1, 2}
      BY <1>1, <3>1, <3>2 DEF LogRow
    <3>3. CASE n \in {3, 4}
      <4>1. log'[t] = Append(log[t], e) /\ log[t] \in Seq(Failure)
        BY <1>0, <1>1, <3>3 DEF Tables
      <4>2. Last(log[t])' = e
        BY <4>1 DEF Last
      <4>3. reason'[t] = e /\ row'[t].status \in Settled /\ t \notin torn'
        BY <1>0, <1>1, <1>6, <3>3 DEF Tables, StatusOf, Settled, Done
      <4> QED
        BY <4>2, <4>3 DEF LogRow
    <3> QED
      BY <3>2, <3>3
  <2> QED
    BY <2>1, <2>2, <2>3, <2>4 DEF TaskInv, EvidenceRow
<1> QED
  BY <1>8, <1>9, <1>10, <1>11, OthersKeep DEF IInv

LEMMA CompleteKeeps ==
  ASSUME IInv, NEW t \in Task, NEW verdict \in Verdict, NEW n \in 1..3,
         CompleteTask(t, verdict, n)
  PROVE  IInv' /\ Apart(t)
<1> USE ReportAssumption DEF ReportAssumption
<1> DEFINE finished == [row EXCEPT ![t].status = verdict, ![t].code = NONE]
           c == Entry(t, "verify", "succeeded", verdict, 0)
<1>0. Tables /\ TaskInv(t) /\ CountersHeal
  BY DEF IInv
<1>1. /\ checkpoint' = Appended(MuchLater, c)
      /\ row' = IF n >= 2 THEN finished ELSE row
      /\ batch' = IF n >= 3 THEN Rolled(finished) ELSE batch
      /\ reason' = IF n >= 2 THEN [reason EXCEPT ![t] = NONE] ELSE reason
      /\ torn' = IF n = 1 THEN torn
                 ELSE (torn \ {t, "counters"}) \cup (IF n < 3 THEN {"counters"} ELSE {})
      /\ job[t] # NONE /\ Ends(t, n = 3) /\ UNCHANGED <<log, module, sent>>
  BY DEF CompleteTask
<1>2. /\ (checkpoint \in SUBSET Checkpoint)' /\ InTime(checkpoint)'
      /\ \A u \in Task \ {t} : Evidence(u)' = Evidence(u)
  <2>1. /\ "succeeded" \in Transitions /\ verdict \in Verdict \cup {"none"}
        /\ "verify" \in Stage /\ MuchLater \in Later
    BY DEF Transitions, Stage, Later
  <2> QED
    BY <1>0, <1>1, <2>1, AppendKeeps
<1>3. Evidence(t)' = {[attempt |-> row[t].attempt, verdict |-> verdict]}
  <2>1. c.task = t /\ c.stage = "verify" /\ c.attempt = row[t].attempt /\ c.verdict = verdict
    BY DEF Entry
  <2>2. Evidence(t)' = EvidenceIn(checkpoint', t)
    BY DEF Evidence, EvidenceIn
  <2> HIDE DEF c
  <2>3. EvidenceIn(Appended(MuchLater, c), c.task)
          = {[attempt |-> c.attempt, verdict |-> c.verdict]}
    BY <1>0, <2>1, CompletionIsEvidence DEF Tables
  <2> QED
    BY <1>1, <2>1, <2>2, <2>3
<1>4. /\ job' \in [Task -> Stage \cup {"idle", NONE}] /\ job'[t] = NONE
      /\ \A u \in Task : job'[u] \in {job[u], NONE}
  BY <1>0, <1>1, EndsJob
<1>5. row[t].status \notin Settled
  BY <1>0, <1>1, HeldIsOpen DEF TaskInv
<1>6. /\ finished[t].status = verdict /\ finished[t].code = NONE
      /\ finished[t].attempt = row[t].attempt
      /\ \A u \in Task \ {t} : finished[u] = row[u]
      /\ finished \in [Task -> TaskRow]
  <2>1. row[t] \in TaskRow /\ row \in [Task -> TaskRow]
    BY <1>0 DEF Tables
  <2>2. /\ [row[t] EXCEPT !.status = verdict, !.code = NONE] \in TaskRow
        /\ [row[t] EXCEPT !.status = verdict, !.code = NONE].status = verdict
        /\ [row[t] EXCEPT !.status = verdict, !.code = NONE].code = NONE
        /\ [row[t] EXCEPT !.status = verdict, !.code = NONE].attempt = row[t].attempt
    BY <2>1 DEF TaskRow, Settled, Done
  <2> HIDE DEF TaskRow
  <2> QED
    BY <2>1, <2>2
<1> HIDE DEF finished
<1>7. Tables'
  <2>1. row' \in [Task -> TaskRow] /\ \A u \in Task : row'[u].attempt <= Retries[u]
    BY <1>0, <1>1, <1>6 DEF Tables
  <2>2. batch' \in [completed: 0..Cardinality(Task), failed: 0..Cardinality(Task)]
    BY <1>0, <1>1, RolledTypes DEF Tables
  <2>3. reason' \in [Task -> Failure \cup {NONE}] /\ torn' \subseteq Task \cup {"counters"}
    BY <1>0, <1>1 DEF Tables
  <2> QED
    BY <1>0, <1>1, <1>2, <1>4, <2>1, <2>2, <2>3 DEF Tables
<1>8. Apart(t)
  <2> SUFFICES ASSUME NEW u \in Task \ {t}
               PROVE  /\ row'[u] = row[u] /\ log'[u] = log[u] /\ reason'[u] = reason[u]
                      /\ u \in torn' <=> u \in torn
    BY <1>2, <1>4 DEF Apart
  <2>1. row'[u] = row[u] /\ log'[u] = log[u] /\ reason'[u] = reason[u]
    BY <1>0, <1>1, <1>6 DEF Tables
  <2>2. u \in torn' <=> u \in torn
    BY <1>1
  <2> QED
    BY <2>1, <2>2
<1>9. CountersHeal'
  <2>1. CASE n = 1
    BY <1>0, <1>1, <2>1 DEF CountersHeal, Rolled
  <2>2. CASE n = 2
    BY <1>1, <2>2 DEF CountersHeal
  <2>3. CASE n = 3
    BY <1>1, <2>3 DEF CountersHeal, Rolled
  <2> QED
    BY <2>1, <2>2, <2>3
<1>10. TaskInv(t)'
  <2>1. JobRow(t)'
    BY <1>4 DEF JobRow, Stage
  <2>2. ReasonRow(t)'
    BY <1>0, <1>1, <1>6 DEF TaskInv, ReasonRow, Tables
  <2>3. EvidenceRow(t)'
    BY <1>1, <1>3, <1>5, <1>6 DEF EvidenceRow, Settled, Done
  <2>4. LogRow(t)'
    BY <1>0, <1>1, <1>5 DEF TaskInv, LogRow
  <2> QED
    BY <2>1, <2>2, <2>3, <2>4 DEF TaskInv
<1> QED
  BY <1>7, <1>8, <1>9, <1>10, OthersKeep DEF IInv

LEMMA RetryKeeps == ASSUME IInv, NEW t \in Task, RetryTask(t) PROVE IInv' /\ Apart(t)
<1> USE ReportAssumption DEF ReportAssumption
<1>0. Tables /\ TaskInv(t) /\ row[t] \in TaskRow /\ row \in [Task -> TaskRow]
  BY DEF IInv, Tables
<1> DEFINE planned == [status |-> "planned", attempt |-> row[t].attempt + 1, code |-> NONE]
<1>1. /\ row[t].status = "retryable_failed" /\ row[t].attempt < Retries[t]
      /\ row' = [row EXCEPT ![t] = planned]
      /\ batch' = Rolled(row') /\ torn' = torn \ {t, "counters"}
      /\ UNCHANGED <<checkpoint, log, module, job, sent, reason, crashes>>
  BY DEF RetryTask, Eligible
<1>2. planned \in TaskRow /\ planned.status = "planned" /\ planned.code = NONE
      /\ planned.attempt <= Retries[t]
  BY <1>0, <1>1 DEF TaskRow
<1> HIDE DEF planned
<1>3. row'[t] = planned /\ row' \in [Task -> TaskRow] /\ \A u \in Task \ {t} : row'[u] = row[u]
  BY <1>0, <1>1, <1>2
<1>4. Tables'
  BY <1>0, <1>1, <1>2, <1>3, RolledTypes DEF Tables, InTime
<1>5. Apart(t)
  BY <1>0, <1>1, <1>3 DEF Apart, Tables, Evidence
<1>6. CountersHeal'
  BY <1>1 DEF CountersHeal, Rolled
<1>7. TaskInv(t)'
  <2>1. job[t] \notin Stage
    BY <1>0, <1>1 DEF TaskInv, JobRow, Stage
  <2>2. JobRow(t)' /\ ReasonRow(t)' /\ EvidenceRow(t)'
    BY <1>1, <1>2, <1>3, <2>1 DEF JobRow, ReasonRow, EvidenceRow
  <2>3. LogRow(t)'
    <3>1. ErrorOf(t) # NONE => ErrorOf(t).class = "retryable"
      BY DEF RetryTask, Eligible
    <3>2. log[t] # <<>> => Last(log[t]).class = "retryable"
      <4>1. SUFFICES ASSUME log[t] # <<>> PROVE Last(log[t]).class = "retryable"
        OBVIOUS
      <4>2. Last(log[t]) \in Failure
        BY <1>0, <4>1 DEF Tables, Last
      <4>3. ErrorOf(t) = Last(log[t]) /\ ErrorOf(t) # NONE
        BY <4>1, <4>2 DEF Failure, ErrorOf, LoggedError
      <4> QED
        BY <3>1, <4>3
    <3> QED
      BY <1>1, <3>2 DEF LogRow
  <2> QED
    BY <2>2, <2>3 DEF TaskInv
<1> QED
  BY <1>4, <1>5, <1>6, <1>7, OthersKeep DEF IInv

LEMMA CrashKeeps == ASSUME IInv, Crash PROVE IInv'
<1> USE ReportAssumption DEF ReportAssumption
<1>1. Tables'
  BY DEF IInv, Crash, db, Tables, InTime
<1>2. CountersHeal'
  BY DEF IInv, Crash, db, CountersHeal, Rolled
<1>3. ASSUME NEW t \in Task PROVE TaskInv(t)'
  <2>1. JobRow(t)'
    BY DEF Crash, JobRow, Stage
  <2>2. ReasonRow(t)' /\ EvidenceRow(t)' /\ LogRow(t)'
    BY DEF IInv, Crash, db, TaskInv, ReasonRow, EvidenceRow, LogRow, Evidence
  <2> QED
    BY <2>1, <2>2 DEF TaskInv
<1> QED
  BY <1>1, <1>2, <1>3 DEF IInv

(* A step is about one task, or a crash, or nothing. *)
LEMMA StepKeeps ==
  ASSUME IInv, Next
  PROVE  /\ IInv'
         /\ \/ Crash
            \/ \E t \in Task :
                 /\ Apart(t)
                 /\ \/ Claim(t) \/ RecordModule(t) \/ ReportProgress(t) \/ RetryTask(t)
                    \/ \E stage \in Stage, n \in 1..2 : BeginStage(t, stage, n)
                    \/ \E e \in Failure, n \in 1..4 : FailStage(t, e, n)
                    \/ \E verdict \in Verdict, n \in 1..3 : CompleteTask(t, verdict, n)
<1>1. CASE Crash
  BY <1>1, CrashKeeps
<1>2. ASSUME NEW t \in Task, Claim(t) \/ RecordModule(t) \/ ReportProgress(t) \/ RetryTask(t)
      PROVE  IInv' /\ Apart(t)
  BY <1>2, ClaimKeeps, RecordKeeps, ProgressKeeps, RetryKeeps
<1>3. ASSUME NEW t \in Task, NEW stage \in Stage, NEW n \in 1..2, BeginStage(t, stage, n)
      PROVE  IInv' /\ Apart(t)
  BY <1>3, BeginKeeps
<1>4. ASSUME NEW t \in Task, NEW e \in Failure, NEW n \in 1..4, FailStage(t, e, n)
      PROVE  IInv' /\ Apart(t)
  BY <1>4, FailKeeps
<1>5. ASSUME NEW t \in Task, NEW verdict \in Verdict, NEW n \in 1..3, CompleteTask(t, verdict, n)
      PROVE  IInv' /\ Apart(t)
  BY <1>5, CompleteKeeps
<1>6. ASSUME NEW t \in Task, FailByCollision(t)
      PROVE  \E e \in Failure, n \in 1..4 : FailStage(t, e, n)
  BY <1>6 DEF FailByCollision, Failure
<1>7. Error \subseteq Failure
  BY DEF Failure
<1> QED
  BY <1>1, <1>2, <1>3, <1>4, <1>5, <1>6, <1>7, Zenon DEF Next

LEMMA NextInv == IInv /\ [Next]_vars => IInv'
<1> SUFFICES ASSUME IInv, [Next]_vars PROVE IInv'
  OBVIOUS
<1>1. CASE Next
  BY <1>1, StepKeeps
<1>2. CASE UNCHANGED vars
  <2> USE <1>2 DEF vars, db
  <2>1. Tables'
    BY DEF IInv, Tables, InTime
  <2>2. CountersHeal'
    BY DEF IInv, CountersHeal, Rolled
  <2>3. \A t \in Task : TaskInv(t)'
    BY DEF IInv, TaskInv, JobRow, ReasonRow, EvidenceRow, LogRow, Evidence
  <2> QED
    BY <2>1, <2>2, <2>3 DEF IInv
<1> QED
  BY <1>1, <1>2

(* ---- the results ------------------------------------------------------ *)

THEOREM ReportIInv == Spec => []IInv
BY InitInv, NextInv, PTL DEF Spec

(* The tables are well typed: no checkpoint is of an attempt that nobody    *)
(* granted, and no count exceeds the tasks of the batch.                    *)
THEOREM ReportTypes == Spec => []TypeOK
<1>1. IInv => TypeOK
  <2> SUFFICES ASSUME IInv PROVE TypeOK
    OBVIOUS
  <2>1. \A c \in checkpoint : c.stage \in Stage /\ c.attempt \in 0..Retries[c.task]
    BY ReportAssumption DEF ReportAssumption, IInv, Tables, InTime, Checkpoint
  <2>2. \A t \in Task : \A i \in DOMAIN log[t] : log[t][i] \in Error \cup {StoreError}
    BY DEF IInv, Tables, Failure
  <2> QED
    BY <2>1, <2>2 DEF IInv, Tables, TaskRow, TypeOK
<1> QED
  BY <1>1, ReportIInv, PTL

(* The counters of a batch agree with its tasks but between a crash and the *)
(* next report (refresh_batch_rollup).                                      *)
THEOREM CountersAgree == Spec => []CountersHeal
<1>1. IInv => CountersHeal
  BY DEF IInv
<1> QED
  BY <1>1, ReportIInv, PTL

(* A task shown as migrated shows the verification of that attempt          *)
(* (complete_task, read_report).                                            *)
THEOREM SuccessHasItsEvidence == Spec => []SuccessShowsItsVerification
<1>1. IInv => SuccessShowsItsVerification
  BY DEF IInv, TaskInv, EvidenceRow, SuccessShowsItsVerification
<1> QED
  BY <1>1, ReportIInv, PTL

(* What the last line of the log says of a failed task is why it failed. *)
LEMMA LastLineIsReason ==
  ASSUME IInv, NEW t \in Task, row[t].code # NONE, t \notin torn
  PROVE  ErrorOf(t) = reason[t] /\ reason[t] # NONE
<1>1. log[t] # <<>> /\ Last(log[t]) = reason[t] /\ log[t] \in Seq(Failure)
  BY DEF IInv, Tables, TaskInv, ReasonRow
<1>2. reason[t] \in Failure
  BY <1>1 DEF Last
<1>3. reason[t] # NONE
  BY <1>2, ReportAssumption DEF ReportAssumption, Failure
<1> QED
  BY <1>1, <1>3 DEF ErrorOf, LoggedError

(* A task that a stage failed is shown with that failure, whatever earlier  *)
(* attempts have logged, unless a crash kept it from the log. Nothing is    *)
(* said of a task failed by its verification (fail_stage, read_task_error). *)
THEOREM StageErrorIsShown == Spec => []StageErrorIsOfThisFailure
<1>1. IInv => StageErrorIsOfThisFailure
  BY LastLineIsReason DEF StageErrorIsOfThisFailure
<1> QED
  BY <1>1, ReportIInv, PTL

(* Unless a crash kept the error from the log, a failed task may be retried *)
(* if and only if its verification failed it or a stage did with an error   *)
(* that is retryable (retry_tasks, read_task_error).                        *)
THEOREM RetryIsJudged == Spec => []RetryJudgesThisFailure
<1>1. IInv => RetryJudgesThisFailure
  <2> SUFFICES ASSUME IInv, NEW t \in Task, row[t].status = "retryable_failed", t \notin torn
               PROVE  Eligible(t) <=> reason[t] = NONE \/ reason[t].class = "retryable"
    BY DEF RetryJudgesThisFailure
  <2>1. CASE reason[t] # NONE
    <3>1. row[t].code # NONE
      BY <2>1 DEF IInv, TaskInv, ReasonRow
    <3>2. ErrorOf(t) = reason[t]
      BY <3>1, LastLineIsReason
    <3> QED
      BY <2>1, <3>2 DEF Eligible
  <2>2. CASE reason[t] = NONE
    <3>1. row[t].code = NONE
      BY <2>2, LastLineIsReason
    <3>2. log[t] # <<>> => Last(log[t]) \in Failure
      BY DEF IInv, Tables, Last
    <3>3. log[t] # <<>> => Last(log[t]).class = "retryable"
      BY <2>2, <3>2, ReportAssumption DEF ReportAssumption, IInv, TaskInv, LogRow, Failure
    <3>4. ErrorOf(t) # NONE => ErrorOf(t).class = "retryable"
      BY <3>1, <3>3 DEF ErrorOf, LoggedError
    <3> QED
      BY <2>2, <3>4 DEF Eligible
  <2> QED
    BY <2>1, <2>2
<1> QED
  BY <1>1, ReportIInv, PTL

(* A finished task is in nobody's hands, and what is done to others leaves   *)
(* its line alone (retry_tasks, read_report).                                *)
THEOREM FinishedStays == Spec => FinishedLineIsFinal
<1> DEFINE Step == \A t \in Task : row[t].status \in Done => Line(t)' = Line(t)
<1>1. IInv /\ [Next]_vars => [Step]_vars
  <2> SUFFICES ASSUME IInv, Next, NEW t \in Task, row[t].status \in Done
               PROVE  Line(t)' = Line(t)
    BY DEF vars
  <2>1. job[t] = NONE
    BY HeldIsOpen DEF IInv, TaskInv, Settled
  <2>2. row[t].status # "retryable_failed"
    BY DEF Done
  <2>3. CASE Crash
    BY <2>3 DEF Crash, db, Line, Evidence, ErrorOf, LoggedError
  <2>4. ASSUME NEW u \in Task, Apart(u),
               \/ Claim(u) \/ RecordModule(u) \/ ReportProgress(u) \/ RetryTask(u)
               \/ \E stage \in Stage, n \in 1..2 : BeginStage(u, stage, n)
               \/ \E e \in Failure, n \in 1..4 : FailStage(u, e, n)
               \/ \E verdict \in Verdict, n \in 1..3 : CompleteTask(u, verdict, n)
        PROVE  Line(t)' = Line(t)
    <3>1. CASE u = t
      <4>1. job[t] \notin Work \cup {"idle", "verify"}
        BY <2>1, ReportAssumption DEF ReportAssumption
      <4>2. ~ (RecordModule(t) \/ ReportProgress(t) \/ RetryTask(t))
        BY <2>2, <4>1 DEF RecordModule, ReportProgress, RetryTask, Eligible
      <4>3. \A stage \in Stage, n \in 1..2 : ~ BeginStage(t, stage, n)
        BY <4>1 DEF BeginStage
      <4>4. \A e \in Failure, n \in 1..4 : ~ FailStage(t, e, n)
        BY <2>1 DEF FailStage
      <4>5. \A verdict \in Verdict, n \in 1..3 : ~ CompleteTask(t, verdict, n)
        BY <4>1 DEF CompleteTask
      <4>6. Claim(t)
        BY <2>4, <3>1, <4>2, <4>3, <4>4, <4>5, Zenon
      <4> QED
        BY <4>6 DEF Claim, db, Line, Evidence, ErrorOf, LoggedError
    <3>2. CASE u # t
      <4>1. row'[t] = row[t] /\ log'[t] = log[t] /\ Evidence(t)' = Evidence(t)
        BY <2>4, <3>2 DEF Apart
      <4>2. ErrorOf(t)' = ErrorOf(t)
        BY <4>1 DEF ErrorOf, LoggedError
      <4>3. module' = module \/ \E a : module' = module \cup {[task |-> u, attempt |-> a]}
        BY <2>4 DEF Claim, db, RecordModule, ReportProgress, RetryTask, BeginStage,
                    FailStage, CompleteTask
      <4>4. {m \in module' : m.task = t} = {m \in module : m.task = t}
        BY <3>2, <4>3
      <4> QED
        BY <4>1, <4>2, <4>4 DEF Line
    <3> QED
      BY <3>1, <3>2
  <2> QED
    BY <2>3, <2>4, StepKeeps, Zenon
<1> QED
  BY <1>1, ReportIInv, PTL DEF Spec, FinishedLineIsFinal
=============================================================================
