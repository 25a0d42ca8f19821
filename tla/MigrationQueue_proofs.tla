------------------------ MODULE MigrationQueue_proofs ------------------------
(***************************************************************************)
(* Theorems about MigrationQueue, for every number of tasks and workers,   *)
(* every lease length, every plan and every environment.                   *)
(*                                                                         *)
(* The argument goes in layers, each an inductive invariant that may use   *)
(* the layers before it:                                                   *)
(*   Base       types, what a worker is about to record, a task exactly    *)
(*              while it is busy, and the exact pool counter;              *)
(*   LateInv    how many stages begin after the batch stopped;             *)
(*   Ownership  who works on a task owns its row (needs SafeStart);        *)
(*   BatchRow   the counters and the end of the batch;                     *)
(*   LeaseRow   leases of in-flight and of settled tasks;                  *)
(*   StatusFollowsStage                                                    *)
(*              a task's status follows the stage of its worker;           *)
(* and the last section maps every step to one of TaskLifecycle.           *)
(***************************************************************************)
EXTENDS MigrationQueue, FiniteSetTheorems, TLAPS

-----------------------------------------------------------------------------
(***************************************************************************)
(* Facts about the vocabulary.                                             *)
(***************************************************************************)

\* Every stage shows an in-flight status while it runs.
LEMMA StateOfType == \A s \in Stage : StateOf[s] \in InFlight
BY DEF StateOf, Stage, InFlight

\* Status classes do not overlap.
LEMMA StatusClasses ==
  /\ Open \cap Settled = {} /\ Status = Open \cup Settled
  /\ InFlight \subseteq Open /\ "planned" \in Open /\ "planned" \notin InFlight
  /\ Done \subseteq Settled /\ "retryable_failed" \in Settled \ Done
BY DEF Open, Settled, Status, InFlight, Done

\* What a worker can record is a settled status.
LEMMA ResultsAreSettled ==
  /\ \A e \in Error : StatusAfterError(e) \in Settled \ {"succeeded", "partial"}
  /\ \A v \in Verdict : StatusAfterVerdict(v) \in Settled
BY DEF StatusAfterError, StatusAfterVerdict, Error, SkipError, Verdict, Settled, Done

\* The names the actions use belong to their classes.
LEMMA Names ==
  /\ {"prepare_target", "git", "verify", "platform_data"} \subseteq Stage
  /\ {"transient", "permanent", "conflict", "paused", "cancelled"} \subseteq Error
  /\ {"succeeded", "partial", "failed", "skipped"} \subseteq Verdict
  /\ {"started", "heartbeat", "failed", "succeeded"} \subseteq Transition
  /\ "none" \notin Error \cup Verdict
BY DEF Stage, Error, SkipError, Verdict, Transition

\* Whatever goes wrong is an error the queue knows.
LEMMA ErrorClasses ==
  \A w \in Worker :
    ArchiveError(w) \subseteq Error /\ WorkError(w) \subseteq Error /\ Refusal \in Error
BY QueueAssumption DEF ArchiveError, WorkError, Refusal, Error, SkipError

\* There are finitely many workers, and a worker is not NoOwner.
LEMMA Workers == IsFiniteSet(Worker) /\ NoOwner \notin Worker /\ NoTask \notin Task
<1>1. Concurrency - 1 \in Int /\ 0 \in Int
  BY QueueAssumption
<1>2. IsFiniteSet(Worker)
  BY <1>1, FS_Interval DEF Worker
<1>. QED BY <1>2, QueueAssumption DEF Worker, NoOwner, NoTask

\* What the statements of the lease repository do to a row's lease.
LEMMA LeaseOps ==
  /\ L!NoLease \in L!Lease /\ L!NoLease.owner = NoOwner
  /\ \A w \in Worker :
       L!Fresh(w) \in L!Lease /\ L!Fresh(w).owner = w /\ L!Fresh(w).left > 0
  /\ \A l \in L!Lease :
       /\ l.owner \in Worker \cup {NoOwner} /\ l.left \in Nat
       /\ L!Aged(l) \in L!Lease /\ L!Aged(l).owner = l.owner
       /\ l.left > 1 => L!Aged(l).left > 0
       /\ \A w \in Worker : L!Released(l, w) \in L!Lease
       /\ l.owner \in Worker => L!Released(l, l.owner) = L!NoLease
<1>. USE QueueAssumption, Workers
<1>1. L!NoLease \in L!Lease /\ L!NoLease.owner = NoOwner
  BY DEF L!NoLease, L!Lease
<1>2. ASSUME NEW w \in Worker
      PROVE  L!Fresh(w) \in L!Lease /\ L!Fresh(w).owner = w /\ L!Fresh(w).left > 0
  BY DEF L!Fresh, L!Lease
<1>3. ASSUME NEW l \in L!Lease
      PROVE  /\ l.owner \in Worker \cup {NoOwner} /\ l.left \in Nat
             /\ L!Aged(l) \in L!Lease /\ L!Aged(l).owner = l.owner
             /\ l.left > 1 => L!Aged(l).left > 0
  BY DEF L!Aged, L!Lease
<1>4. ASSUME NEW l \in L!Lease, NEW w \in Worker
      PROVE  L!Released(l, w) \in L!Lease
  BY <1>1 DEF L!Released
<1>5. ASSUME NEW l \in L!Lease, l.owner \in Worker
      PROVE  L!Released(l, l.owner) = L!NoLease
  BY DEF L!Released
<1>. QED BY <1>1, <1>2, <1>3, <1>4, <1>5

\* A count of tasks is a number.
LEMMA Counts == \A S \in SUBSET Task : IsFiniteSet(S) /\ Cardinality(S) \in Nat
BY QueueAssumption, FS_Subset, FS_CardinalityType

\* refresh_batch_rollup keeps the types of the batch row.
LEMMA RollupTypes ==
  ASSUME NEW st, BatchTypes, Rollup(st)
  PROVE  BatchTypes'
<1>1. completed' \in Nat
  BY Counts DEF Rollup
<1>2. failed' \in Nat
  BY Counts DEF Rollup
<1>3. control' \in Control /\ ended' \in BOOLEAN
  BY DEF Rollup, BatchTypes, Control, AllSettled
<1>. QED BY <1>1, <1>2, <1>3 DEF BatchTypes

\* append_checkpoint keeps the log well formed.
LEMMA AppendTypes ==
  ASSUME RowTypes, NEW t \in Task, NEW s \in Stage, NEW tr \in Transition, Append(t, s, tr)
  PROVE  checkpoints' \subseteq Checkpoint
BY DEF Append, RowTypes, Checkpoint

Live == {w \in Worker : pc[w] # "off"}

Base == TypeOK /\ OutcomeReady /\ JobIffBusy /\ PoolExact

-----------------------------------------------------------------------------
(***************************************************************************)
(* Layer 1: Base.                                                          *)
(***************************************************************************)

\* A freshly started batch satisfies the base layer.
LEMMA BaseInit == Init => Base
<1>. SUFFICES ASSUME Init PROVE Base
  OBVIOUS
<1>. USE QueueAssumption, Workers
<1>1. TypeOK
  BY LeaseOps, StatusClasses DEF Init, TypeOK, RowTypes, BatchTypes, PoolTypes,
     ThreadTypes, Checkpoint, Control, ControlPoint, Stage
<1>2. OutcomeReady /\ JobIffBusy
  BY DEF Init, OutcomeReady, JobIffBusy, Busy
<1>3. PoolExact
  <2>1. {w \in Worker : pc[w] # "off"} = {}
    BY DEF Init
  <2>. QED BY <2>1, FS_EmptySet DEF Init, PoolExact
<1>. QED BY <1>1, <1>2, <1>3 DEF Base

\* As long as one thread is alive the pool counter is positive.
LEMMA LiveCounted ==
  ASSUME Base, NEW w \in Worker, pc[w] # "off"
  PROVE  running \in Nat \ {0}
<1>1. w \in Live /\ IsFiniteSet(Live)
  BY Workers, FS_Subset DEF Live
<1>2. Cardinality(Live) # 0
  BY <1>1, FS_EmptySet
<1>. QED BY <1>2 DEF Live, Base, PoolExact, TypeOK, PoolTypes

\* The part of Base that needs no counting.
Typed == TypeOK /\ OutcomeReady /\ JobIffBusy

\* A worker's step keeps types, assignments and results well formed.
LEMMA TypedWorker ==
  ASSUME Base, NEW w \in Worker, WorkerStep(w)
  PROVE  Typed'
<1>. USE Workers DEF Base, Typed, TypeOK
<1>1. CASE Build(w)
  <2>1. RowTypes'
    BY <1>1 DEF Build, RowTypes, rows
  <2>2. BatchTypes' /\ PoolTypes'
    BY <1>1 DEF Build, BatchTypes, PoolTypes, batch, pool
  <2>3. ThreadTypes'
    BY <1>1, QueueAssumption DEF Build, ThreadTypes, ControlPoint, threads
  <2>4. OutcomeReady'
    BY <1>1, Names DEF Build, OutcomeReady, ThreadTypes
  <2>5. JobIffBusy'
    BY <1>1 DEF Build, JobIffBusy, Busy, ThreadTypes
  <2>. QED BY <2>1, <2>2, <2>3, <2>4, <2>5
<1>2. CASE Claim(w)
  <2>1. RowTypes'
    BY <1>2, LeaseOps DEF Claim, RowTypes, rows
  <2>2. BatchTypes' /\ PoolTypes'
    BY <1>2 DEF Claim, BatchTypes, PoolTypes, batch, pool
  <2>3. ThreadTypes'
    <3>1. PICK t \in Task : job' = [job EXCEPT ![w] = t]
      BY <1>2 DEF Claim, Claimable
    <3>2. job' \in [Worker -> Task \cup {NoTask}]
      BY <3>1 DEF ThreadTypes
    <3>3. pc' \in [Worker -> ControlPoint] /\ stage' \in [Worker -> Stage]
      BY <1>2, Names DEF Claim, ThreadTypes, ControlPoint
    <3>4. outcome' \in [Worker -> Error \cup Verdict \cup {"none"}]
      BY <1>2, Names DEF Claim, ThreadTypes
    <3>. QED BY <1>2, <3>2, <3>3, <3>4 DEF Claim, ThreadTypes
  <2>4. OutcomeReady'
    BY <1>2, Names DEF Claim, OutcomeReady, ThreadTypes
  <2>5. JobIffBusy'
    <3>1. PICK t \in Task : job' = [job EXCEPT ![w] = t]
      BY <1>2 DEF Claim, Claimable
    <3>2. pc'[w] \in Busy /\ \A v \in Worker \ {w} : pc'[v] = pc[v]
      BY <1>2 DEF Claim, Busy, ThreadTypes
    <3>. QED BY <3>1, <3>2 DEF JobIffBusy, ThreadTypes
  <2>. QED BY <2>1, <2>2, <2>3, <2>4, <2>5
<1>3. CASE Leave(w)
  <2>1. RowTypes'
    BY <1>3 DEF Leave, RowTypes, rows
  <2>2. BatchTypes' /\ PoolTypes'
    BY <1>3 DEF Leave, BatchTypes, PoolTypes, batch, pool
  <2>3. ThreadTypes'
    BY <1>3, Names DEF Leave, ThreadTypes, ControlPoint, threads
  <2>4. OutcomeReady'
    BY <1>3, Names DEF Leave, OutcomeReady, ThreadTypes
  <2>5. JobIffBusy'
    BY <1>3 DEF Leave, JobIffBusy, Busy, ThreadTypes
  <2>. QED BY <2>1, <2>2, <2>3, <2>4, <2>5
<1>4. CASE Exit(w)
  <2>1. RowTypes'
    BY <1>4 DEF Exit, RowTypes, rows
  <2>2. BatchTypes' /\ PoolTypes'
    BY <1>4, LiveCounted DEF Exit, BatchTypes, PoolTypes, batch, pool
  <2>3. ThreadTypes'
    BY <1>4, Names DEF Exit, ThreadTypes, ControlPoint, threads
  <2>4. OutcomeReady'
    BY <1>4, Names DEF Exit, OutcomeReady, ThreadTypes
  <2>5. JobIffBusy'
    BY <1>4 DEF Exit, JobIffBusy, Busy, ThreadTypes
  <2>. QED BY <2>1, <2>2, <2>3, <2>4, <2>5
<1>5. CASE Guard(w)
  <2>1. RowTypes'
    BY <1>5 DEF Guard, RowTypes, rows
  <2>2. BatchTypes' /\ PoolTypes'
    BY <1>5 DEF Guard, BatchTypes, PoolTypes, batch, pool
  <2>3. ThreadTypes'
    <3>1. pc' \in [Worker -> ControlPoint] /\ stage' \in [Worker -> Stage]
      BY <1>5, Names DEF Guard, ThreadTypes, ControlPoint
    <3>2. outcome' \in [Worker -> Error \cup Verdict \cup {"none"}]
      BY <1>5, ErrorClasses DEF Guard, ThreadTypes
    <3>. QED BY <1>5, <3>1, <3>2 DEF Guard, ThreadTypes, threads
  <2>4. OutcomeReady'
    BY <1>5, ErrorClasses DEF Guard, OutcomeReady, ThreadTypes
  <2>5. JobIffBusy'
    BY <1>5 DEF Guard, JobIffBusy, Busy, ThreadTypes
  <2>. QED BY <2>1, <2>2, <2>3, <2>4, <2>5
<1>6. CASE Begin(w)
  <2>1. RowTypes'
    <3>1. job[w] \in Task
      BY <1>6 DEF Begin, JobIffBusy, Busy
    <3>2. CASE L!Acquirable(lease[job[w]], w)
      <4>1. checkpoints' \subseteq Checkpoint
        BY <1>6, <3>1, <3>2, AppendTypes, Names DEF Begin, ThreadTypes
      <4>2. status' \in [Task -> Status] /\ lease' \in [Task -> L!Lease]
        BY <1>6, <3>1, <3>2, LeaseOps, StateOfType, StatusClasses DEF Begin, RowTypes, ThreadTypes
      <4>. QED BY <1>6, <4>1, <4>2 DEF Begin, RowTypes
    <3>3. CASE ~L!Acquirable(lease[job[w]], w)
      BY <1>6, <3>3 DEF Begin, RowTypes
    <3>. QED BY <3>2, <3>3
  <2>2. BatchTypes' /\ PoolTypes'
    BY <1>6 DEF Begin, BatchTypes, PoolTypes, batch, pool
  <2>3. ThreadTypes'
    <3>1. pc' \in [Worker -> ControlPoint] /\ late' \in [Worker -> Nat]
      BY <1>6 DEF Begin, ThreadTypes, ControlPoint
    <3>2. outcome' \in [Worker -> Error \cup Verdict \cup {"none"}]
      BY <1>6, Names DEF Begin, ThreadTypes
    <3>. QED BY <1>6, <3>1, <3>2 DEF Begin, ThreadTypes, threads
  <2>4. OutcomeReady'
    BY <1>6, Names DEF Begin, OutcomeReady, ThreadTypes
  <2>5. JobIffBusy'
    BY <1>6 DEF Begin, JobIffBusy, Busy, ThreadTypes
  <2>. QED BY <2>1, <2>2, <2>3, <2>4, <2>5
<1>7. CASE WorkFails(w)
  <2>1. RowTypes'
    BY <1>7 DEF WorkFails, RowTypes, rows
  <2>2. BatchTypes' /\ PoolTypes'
    BY <1>7 DEF WorkFails, BatchTypes, PoolTypes, batch, pool
  <2>3. ThreadTypes'
    BY <1>7, Names, ErrorClasses DEF WorkFails, ThreadTypes, ControlPoint, threads
  <2>4. OutcomeReady'
    BY <1>7, ErrorClasses DEF WorkFails, OutcomeReady, ThreadTypes
  <2>5. JobIffBusy'
    BY <1>7 DEF WorkFails, JobIffBusy, Busy, ThreadTypes
  <2>. QED BY <2>1, <2>2, <2>3, <2>4, <2>5
<1>8. CASE WorkSkips(w)
  <2>1. RowTypes'
    BY <1>8 DEF WorkSkips, RowTypes, rows
  <2>2. BatchTypes' /\ PoolTypes'
    BY <1>8 DEF WorkSkips, BatchTypes, PoolTypes, batch, pool
  <2>3. ThreadTypes'
    BY <1>8, Names DEF WorkSkips, ThreadTypes, ControlPoint, threads
  <2>4. OutcomeReady'
    BY <1>8, Names DEF WorkSkips, OutcomeReady, ThreadTypes
  <2>5. JobIffBusy'
    BY <1>8 DEF WorkSkips, JobIffBusy, Busy, ThreadTypes
  <2>. QED BY <2>1, <2>2, <2>3, <2>4, <2>5
<1>9. CASE WorkSucceeds(w)
  <2>1. RowTypes'
    BY <1>9 DEF WorkSucceeds, RowTypes, rows
  <2>2. BatchTypes' /\ PoolTypes'
    BY <1>9 DEF WorkSucceeds, BatchTypes, PoolTypes, batch, pool
  <2>3. ThreadTypes'
    BY <1>9 DEF WorkSucceeds, NextStage, ThreadTypes, ControlPoint, threads
  <2>4. OutcomeReady'
    BY <1>9 DEF WorkSucceeds, NextStage, OutcomeReady, ThreadTypes
  <2>5. JobIffBusy'
    BY <1>9 DEF WorkSucceeds, NextStage, JobIffBusy, Busy, ThreadTypes
  <2>. QED BY <2>1, <2>2, <2>3, <2>4, <2>5
<1>10. CASE WorkVerifies(w)
  <2>1. RowTypes'
    BY <1>10 DEF WorkVerifies, RowTypes, rows
  <2>2. BatchTypes' /\ PoolTypes'
    BY <1>10 DEF WorkVerifies, BatchTypes, PoolTypes, batch, pool
  <2>3. ThreadTypes'
    BY <1>10, Names DEF WorkVerifies, ThreadTypes, ControlPoint, threads
  <2>4. OutcomeReady'
    BY <1>10, Names DEF WorkVerifies, OutcomeReady, ThreadTypes
  <2>5. JobIffBusy'
    BY <1>10 DEF WorkVerifies, JobIffBusy, Busy, ThreadTypes
  <2>. QED BY <2>1, <2>2, <2>3, <2>4, <2>5
<1>11. CASE Report(w)
  <2>1. RowTypes'
    <3>1. job[w] \in Task
      BY <1>11 DEF Report, JobIffBusy, Busy
    <3>2. CASE L!Held(lease[job[w]], w)
      <4>1. checkpoints' \subseteq Checkpoint
        BY <1>11, <3>1, <3>2, AppendTypes, Names DEF Report, ThreadTypes
      <4>2. lease' \in [Task -> L!Lease]
        BY <1>11, <3>1, <3>2, LeaseOps DEF Report, RowTypes
      <4>. QED BY <1>11, <4>1, <4>2 DEF Report, RowTypes
    <3>3. CASE ~L!Held(lease[job[w]], w)
      BY <1>11, <3>3 DEF Report, RowTypes
    <3>. QED BY <3>2, <3>3
  <2>2. BatchTypes' /\ PoolTypes'
    BY <1>11 DEF Report, BatchTypes, PoolTypes, batch, pool
  <2>3. ThreadTypes'
    <3>1. pc' \in [Worker -> ControlPoint] /\ stage' \in [Worker -> Stage]
      BY <1>11 DEF Report, NextStage, ThreadTypes, ControlPoint
    <3>2. done' \in [Worker -> Nat]
      BY <1>11 DEF Report, NextStage, ThreadTypes
    <3>3. outcome' \in [Worker -> Error \cup Verdict \cup {"none"}]
      BY <1>11, Names DEF Report, ThreadTypes
    <3>. QED BY <1>11, <3>1, <3>2, <3>3 DEF Report, ThreadTypes, threads
  <2>4. OutcomeReady'
    BY <1>11, Names DEF Report, NextStage, OutcomeReady, ThreadTypes
  <2>5. JobIffBusy'
    BY <1>11 DEF Report, NextStage, JobIffBusy, Busy, ThreadTypes
  <2>. QED BY <2>1, <2>2, <2>3, <2>4, <2>5
<1>12. CASE Fail(w)
  <2>1. RowTypes'
    <3>1. job[w] \in Task /\ outcome[w] \in Error
      BY <1>12 DEF Fail, JobIffBusy, Busy, OutcomeReady
    <3>2. CASE L!Held(lease[job[w]], w)
      <4>1. checkpoints' \subseteq Checkpoint
        BY <1>12, <3>1, <3>2, AppendTypes, Names DEF Fail, ThreadTypes
      <4>2. lease' \in [Task -> L!Lease]
        <5>1. L!Released(lease[job[w]], w) \in L!Lease
          BY <3>1, LeaseOps DEF RowTypes
        <5>. QED BY <1>12, <5>1, <3>2 DEF Fail, RowTypes
      <4>3. status' \in [Task -> Status] /\ errLog' \in [Task -> Error \cup {"none"}]
        BY <1>12, <3>1, <3>2, ResultsAreSettled, StatusClasses DEF Fail, RowTypes
      <4>. QED BY <1>12, <4>1, <4>2, <4>3 DEF Fail, RowTypes
    <3>3. CASE ~L!Held(lease[job[w]], w)
      BY <1>12, <3>3 DEF Fail, RowTypes
    <3>. QED BY <3>2, <3>3
  <2>2. BatchTypes' /\ PoolTypes'
    <3>1. CASE L!Held(lease[job[w]], w)
      BY <1>12, <3>1, RollupTypes DEF Fail, PoolTypes, pool
    <3>2. CASE ~L!Held(lease[job[w]], w)
      BY <1>12, <3>2 DEF Fail, BatchTypes, PoolTypes, batch, pool
    <3>. QED BY <3>1, <3>2
  <2>3. ThreadTypes'
    BY <1>12, Names DEF Fail, BackToLoop, ThreadTypes, ControlPoint, threads
  <2>4. OutcomeReady'
    BY <1>12 DEF Fail, BackToLoop, OutcomeReady, ThreadTypes
  <2>5. JobIffBusy'
    BY <1>12 DEF Fail, BackToLoop, JobIffBusy, Busy, ThreadTypes
  <2>. QED BY <2>1, <2>2, <2>3, <2>4, <2>5
<1>13. CASE Complete(w)
  <2>1. RowTypes'
    <3>1. job[w] \in Task /\ outcome[w] \in Verdict
      BY <1>13 DEF Complete, JobIffBusy, Busy, OutcomeReady
    <3>2. CASE L!Held(lease[job[w]], w)
      <4>1. checkpoints' \subseteq Checkpoint
        BY <1>13, <3>1, <3>2, AppendTypes, Names DEF Complete
      <4>2. lease' \in [Task -> L!Lease]
        <5>1. L!Released(lease[job[w]], w) \in L!Lease
          BY <3>1, LeaseOps DEF RowTypes
        <5>. QED BY <1>13, <5>1, <3>2 DEF Complete, RowTypes
      <4>3. status' \in [Task -> Status]
        BY <1>13, <3>1, <3>2, ResultsAreSettled, StatusClasses DEF Complete, RowTypes
      <4>. QED BY <1>13, <4>1, <4>2, <4>3 DEF Complete, RowTypes
    <3>3. CASE ~L!Held(lease[job[w]], w)
      BY <1>13, <3>3 DEF Complete, RowTypes
    <3>. QED BY <3>2, <3>3
  <2>2. BatchTypes' /\ PoolTypes'
    <3>1. CASE L!Held(lease[job[w]], w)
      BY <1>13, <3>1, RollupTypes DEF Complete, PoolTypes, pool
    <3>2. CASE ~L!Held(lease[job[w]], w)
      BY <1>13, <3>2 DEF Complete, BatchTypes, PoolTypes, batch, pool
    <3>. QED BY <3>1, <3>2
  <2>3. ThreadTypes'
    <3>1. CASE L!Held(lease[job[w]], w)
      BY <1>13, <3>1, Names DEF Complete, BackToLoop, ThreadTypes, ControlPoint
    <3>2. CASE ~L!Held(lease[job[w]], w)
      BY <1>13, <3>2, Names DEF Complete, ThreadTypes, ControlPoint
    <3>. QED BY <3>1, <3>2
  <2>4. OutcomeReady'
    BY <1>13, Names DEF Complete, BackToLoop, OutcomeReady, ThreadTypes
  <2>5. JobIffBusy'
    BY <1>13 DEF Complete, BackToLoop, JobIffBusy, Busy, ThreadTypes
  <2>. QED BY <2>1, <2>2, <2>3, <2>4, <2>5
<1>. QED BY <1>1, <1>2, <1>3, <1>4, <1>5, <1>6, <1>7, <1>8, <1>9, <1>10, <1>11, <1>12, <1>13 DEF WorkerStep

\* A command and a launcher call keep the typed part.
LEMMA TypedOperator ==
  ASSUME Base, Command \/ Launch \/ RaiseFlag
  PROVE  Typed'
<1>. USE Workers DEF Base, Typed, TypeOK
<1>1. CASE Pause
  BY <1>1 DEF Pause, RowTypes, BatchTypes, PoolTypes, ThreadTypes, rows, pool, threads,
     OutcomeReady, JobIffBusy, Control
<1>2. CASE Resume
  BY <1>2 DEF Resume, RowTypes, BatchTypes, PoolTypes, ThreadTypes, rows, threads,
     OutcomeReady, JobIffBusy, Control
<1>3. CASE Cancel
  BY <1>3 DEF Cancel, RowTypes, BatchTypes, PoolTypes, ThreadTypes, rows, threads,
     OutcomeReady, JobIffBusy, Control
<1>4. CASE Retry
  <2>1. RowTypes'
    BY <1>4, LeaseOps, StatusClasses DEF Retry, RowTypes
  <2>2. completed' \in Nat
    BY <1>4, Counts DEF Retry
  <2>3. failed' \in Nat
    BY <1>4, Counts DEF Retry
  <2>4. BatchTypes' /\ PoolTypes'
    BY <1>4, <2>2, <2>3 DEF Retry, BatchTypes, PoolTypes, Control
  <2>5. ThreadTypes'
    BY <1>4 DEF Retry, ThreadTypes, threads
  <2>6. OutcomeReady' /\ JobIffBusy'
    BY <1>4 DEF Retry, OutcomeReady, JobIffBusy, threads
  <2>. QED BY <2>1, <2>4, <2>5, <2>6
<1>5. CASE Launch
  <2>1. RowTypes' /\ BatchTypes'
    BY <1>5 DEF Launch, RowTypes, BatchTypes, rows, batch
  <2>2. CASE running > 0
    BY <1>5, <2>1, <2>2 DEF Launch, PoolTypes, ThreadTypes, OutcomeReady, JobIffBusy
  <2>3. CASE ~(running > 0)
    <3>1. \A w \in Worker : pc[w] = "off"
      BY <2>3, LiveCounted
    <3>2. PICK S \in Spawns :
            /\ running' = Cardinality(S \cap (0 .. poolSize - 1))
            /\ pc' = [w \in Worker |->
                        IF w \in S \cap (0 .. poolSize - 1) THEN "start" ELSE pc[w]]
      BY <1>5, <2>3 DEF Launch
    <3>3. running' \in Nat
      <4>1. S \cap (0 .. poolSize - 1) \in SUBSET Worker
        BY QueueAssumption
      <4>. QED BY <3>2, <4>1, FS_Subset, FS_CardinalityType
    <3>4. PoolTypes'
      BY <1>5, <3>3 DEF Launch, PoolTypes
    <3>5. ThreadTypes'
      BY <1>5, <3>2 DEF Launch, ThreadTypes, ControlPoint
    <3>6. OutcomeReady' /\ JobIffBusy'
      BY <1>5, <3>1, <3>2 DEF Launch, OutcomeReady, JobIffBusy, Busy, ThreadTypes
    <3>. QED BY <2>1, <3>4, <3>5, <3>6
  <2>. QED BY <2>2, <2>3
<1>6. CASE RaiseFlag
  BY <1>6 DEF RaiseFlag, RowTypes, BatchTypes, PoolTypes, ThreadTypes, rows, batch, threads,
     OutcomeReady, JobIffBusy
<1>. QED BY <1>1, <1>2, <1>3, <1>4, <1>5, <1>6 DEF Command

\* Time and a crash keep the typed part.
LEMMA TypedEnvironment ==
  ASSUME Base, Tick \/ Crash
  PROVE  Typed'
<1>. USE Workers, QueueAssumption DEF Base, Typed, TypeOK
<1>1. CASE Tick
  <2>1. RowTypes'
    BY <1>1, LeaseOps DEF Tick, RowTypes
  <2>. QED BY <1>1, <2>1 DEF Tick, BatchTypes, PoolTypes, ThreadTypes, batch, pool, threads,
     OutcomeReady, JobIffBusy
<1>2. CASE Crash
  <2>1. RowTypes' /\ BatchTypes'
    BY <1>2 DEF Crash, RowTypes, BatchTypes, rows, batch
  <2>2. PoolTypes'
    BY <1>2 DEF Crash, PoolTypes
  <2>3. ThreadTypes'
    BY <1>2, Names DEF Crash, ThreadTypes, ControlPoint
  <2>4. OutcomeReady' /\ JobIffBusy'
    BY <1>2 DEF Crash, OutcomeReady, JobIffBusy, Busy
  <2>. QED BY <2>1, <2>2, <2>3, <2>4
<1>. QED BY <1>1, <1>2

\* A step that keeps the counter and lets no thread begin or end.
LEMMA PoolUnchanged ==
  ASSUME PoolExact, running' = running,
         \A v \in Worker : pc'[v] = "off" <=> pc[v] = "off"
  PROVE  PoolExact'
<1>1. {v \in Worker : pc'[v] # "off"} = {v \in Worker : pc[v] # "off"}
  OBVIOUS
<1>. QED BY <1>1 DEF PoolExact

\* Every step keeps the pool counter exact: only Launch, Exit and Crash move it.
LEMMA PoolStep == Base /\ [Next]_vars => PoolExact'
<1>. SUFFICES ASSUME Base, [Next]_vars PROVE PoolExact'
  OBVIOUS
<1>. USE DEF Base, TypeOK
<1>1. ASSUME NEW w \in Worker, Exit(w) PROVE PoolExact'
  <2>1. w \in Live /\ IsFiniteSet(Live)
    BY <1>1, Workers, FS_Subset DEF Exit, Live
  <2>2. Cardinality(Live \ {w}) = Cardinality(Live) - 1
    BY <2>1, FS_RemoveElement
  <2>3. {v \in Worker : pc'[v] # "off"} = Live \ {w}
    BY <1>1 DEF Exit, ThreadTypes, Live
  <2>. QED BY <1>1, <2>2, <2>3 DEF Exit, PoolExact, Live
<1>2. ASSUME NEW w \in Worker, WorkerStep(w), ~Exit(w) PROVE PoolExact'
  <2>1. running' = running
    BY <1>2 DEF WorkerStep, Build, Claim, Leave, Guard, Begin, WorkFails, WorkSkips,
       WorkSucceeds, WorkVerifies, Report, Fail, Complete, pool
  <2>2. pc[w] # "off" /\ pc'[w] # "off" /\ \A v \in Worker \ {w} : pc'[v] = pc[v]
    <3>1. CASE Build(w) \/ Claim(w) \/ Leave(w)
      BY <3>1 DEF Build, Claim, Leave, ThreadTypes
    <3>2. CASE Guard(w) \/ Begin(w) \/ WorkFails(w) \/ WorkSkips(w) \/ WorkVerifies(w)
      BY <3>2 DEF Guard, Begin, WorkFails, WorkSkips, WorkVerifies, ThreadTypes
    <3>3. CASE WorkSucceeds(w) \/ Report(w)
      BY <3>3 DEF WorkSucceeds, Report, NextStage, ThreadTypes
    <3>4. CASE Fail(w) \/ Complete(w)
      BY <3>4 DEF Fail, Complete, BackToLoop, ThreadTypes
    <3>. QED BY <1>2, <3>1, <3>2, <3>3, <3>4 DEF WorkerStep
  <2>. QED BY <2>1, <2>2, PoolUnchanged
<1>3. ASSUME Command \/ RaiseFlag \/ Tick \/ UNCHANGED vars PROVE PoolExact'
  <2>1. running' = running /\ pc' = pc
    BY <1>3 DEF Command, Pause, Resume, Cancel, Retry, RaiseFlag, Tick, vars, pool, threads
  <2>. QED BY <2>1, PoolUnchanged
<1>4. CASE Launch
  <2>1. CASE running > 0
    BY <1>4, <2>1, PoolUnchanged DEF Launch
  <2>2. CASE ~(running > 0)
    <3>1. \A w \in Worker : pc[w] = "off"
      BY <2>2, LiveCounted
    <3>2. PICK S \in Spawns :
            /\ running' = Cardinality(S \cap (0 .. poolSize - 1))
            /\ pc' = [w \in Worker |->
                        IF w \in S \cap (0 .. poolSize - 1) THEN "start" ELSE pc[w]]
      BY <1>4, <2>2 DEF Launch
    <3>3. {v \in Worker : pc'[v] # "off"} = S \cap (0 .. poolSize - 1)
      BY <3>1, <3>2, QueueAssumption
    <3>. QED BY <3>2, <3>3 DEF PoolExact
  <2>. QED BY <2>1, <2>2
<1>5. CASE Crash
  <2>1. {v \in Worker : pc'[v] # "off"} = {}
    BY <1>5 DEF Crash
  <2>. QED BY <1>5, <2>1, FS_EmptySet DEF Crash, PoolExact
<1>. QED BY <1>1, <1>2, <1>3, <1>4, <1>5 DEF Next

\* Every step keeps the typed part of the base layer.
LEMMA TypedStep == Base /\ [Next]_vars => Typed'
<1>. SUFFICES ASSUME Base, [Next]_vars PROVE Typed'
  OBVIOUS
<1>1. CASE UNCHANGED vars
  BY <1>1 DEF Base, Typed, TypeOK, RowTypes, BatchTypes, PoolTypes, ThreadTypes, OutcomeReady,
     JobIffBusy, vars, rows, batch, pool, threads
<1>. QED BY <1>1, TypedWorker, TypedOperator, TypedEnvironment DEF Next

\* The base layer is an invariant of every instance.
LEMMA BaseInvariant == Spec => []Base
<1>1. Base /\ [Next]_vars => Base'
  BY TypedStep, PoolStep DEF Base, Typed
<1>. QED BY BaseInit, <1>1, PTL DEF Spec

\* Every reachable state of every instance is well typed: in particular what a
\* worker records is always a status, an error and a log line the schema knows.
THEOREM TypeCorrect == Spec => []TypeOK
<1>1. Base => TypeOK
  BY DEF Base
<1>. QED BY BaseInvariant, <1>1, PTL

\* The pool counter of ThreadPoolLauncher equals the number of live threads,
\* whatever the OS refuses to spawn and whenever the process dies.
THEOREM PoolCounterExact == Spec => []PoolExact
<1>1. Base => PoolExact
  BY DEF Base
<1>. QED BY BaseInvariant, <1>1, PTL

\* Launching never starts a second pool next to a live one: the only thread
\* that gets (re)started is one that had ended.
THEOREM LaunchIsExclusive == Spec => NoThreadReplaced
<1>. DEFINE A == \A w \in Worker : pc[w] # "start" /\ pc'[w] = "start" => pc[w] = "off"
<1>1. Base /\ [Next]_vars => [A]_vars
  <2>. SUFFICES ASSUME Base, Next PROVE A
    OBVIOUS
  <2>. USE DEF Base, TypeOK
  <2>1. ASSUME NEW w \in Worker, WorkerStep(w) PROVE A
    <3>1. pc'[w] # "start" /\ \A v \in Worker \ {w} : pc'[v] = pc[v]
      <4>1. CASE Build(w) \/ Claim(w) \/ Leave(w) \/ Exit(w)
        BY <4>1 DEF Build, Claim, Leave, Exit, ThreadTypes
      <4>2. CASE Guard(w) \/ Begin(w) \/ WorkFails(w) \/ WorkSkips(w) \/ WorkVerifies(w)
        BY <4>2 DEF Guard, Begin, WorkFails, WorkSkips, WorkVerifies, ThreadTypes
      <4>3. CASE WorkSucceeds(w) \/ Report(w)
        BY <4>3 DEF WorkSucceeds, Report, NextStage, ThreadTypes
      <4>4. CASE Fail(w) \/ Complete(w)
        BY <4>4 DEF Fail, Complete, BackToLoop, ThreadTypes
      <4>. QED BY <2>1, <4>1, <4>2, <4>3, <4>4 DEF WorkerStep
    <3>. QED BY <3>1
  <2>2. CASE Command \/ RaiseFlag \/ Tick
    BY <2>2 DEF Command, Pause, Resume, Cancel, Retry, RaiseFlag, Tick, threads
  <2>3. CASE Launch
    BY <2>3, LiveCounted DEF Launch
  <2>4. CASE Crash
    BY <2>4 DEF Crash
  <2>. QED BY <2>1, <2>2, <2>3, <2>4 DEF Next
<1>2. Spec => [][A]_vars
  BY BaseInvariant, <1>1, PTL DEF Spec
<1>. QED BY <1>2 DEF NoThreadReplaced

-----------------------------------------------------------------------------
(***************************************************************************)
(* Layer 2: after a stop at most one more stage begins.                    *)
(***************************************************************************)
LateInv == LateReset /\ AtMostOneLateStage

\* A step keeps the bound on late stages; Begin needs the guard passed before.
LEMMA LateStep == Base /\ LateInv /\ [Next]_vars => LateInv'
<1>. SUFFICES ASSUME Base, LateInv, [Next]_vars PROVE LateInv'
  OBVIOUS
<1>. USE DEF Base, TypeOK, LateInv, LateReset, AtMostOneLateStage
<1>1. ASSUME NEW w \in Worker, Begin(w) PROVE LateInv'
  BY <1>1 DEF Begin, ThreadTypes, batch
<1>2. ASSUME NEW w \in Worker, Guard(w) PROVE LateInv'
  BY <1>2 DEF Guard, MayRun, ThreadTypes, batch
<1>3. ASSUME NEW w \in Worker, WorkerStep(w), ~Begin(w), ~Guard(w) PROVE LateInv'
  <2>1. late' = late /\ (control' = "running" => control = "running")
    <3>1. CASE Fail(w) \/ Complete(w)
      BY <3>1 DEF Fail, Complete, Rollup, batch
    <3>2. CASE Build(w) \/ Claim(w) \/ Leave(w) \/ Exit(w)
      BY <3>2 DEF Build, Claim, Leave, Exit, batch
    <3>3. CASE WorkFails(w) \/ WorkSkips(w) \/ WorkSucceeds(w) \/ WorkVerifies(w) \/ Report(w)
      BY <3>3 DEF WorkFails, WorkSkips, WorkSucceeds, WorkVerifies, Report, batch
    <3>. QED BY <1>3, <3>1, <3>2, <3>3 DEF WorkerStep
  <2>2. pc'[w] # "begin" /\ \A v \in Worker \ {w} : pc'[v] = pc[v]
    <3>1. CASE Build(w) \/ Claim(w) \/ Leave(w) \/ Exit(w)
      BY <3>1 DEF Build, Claim, Leave, Exit, ThreadTypes
    <3>2. CASE WorkFails(w) \/ WorkSkips(w) \/ WorkVerifies(w)
      BY <3>2 DEF WorkFails, WorkSkips, WorkVerifies, ThreadTypes
    <3>3. CASE WorkSucceeds(w) \/ Report(w)
      BY <3>3 DEF WorkSucceeds, Report, NextStage, ThreadTypes
    <3>4. CASE Fail(w) \/ Complete(w)
      BY <3>4 DEF Fail, Complete, BackToLoop, ThreadTypes
    <3>. QED BY <1>3, <3>1, <3>2, <3>3, <3>4 DEF WorkerStep
  <2>. QED BY <2>1, <2>2
<1>4. CASE Command
  <2>1. CASE Pause \/ Cancel
    BY <2>1 DEF Pause, Cancel, threads
  <2>2. CASE Resume
    BY <2>2 DEF Resume, threads
  <2>3. CASE Retry
    <3>1. CASE control' = "running"
      BY <2>3, <3>1 DEF Retry
    <3>2. CASE control' # "running"
      BY <2>3, <3>2 DEF Retry, threads
    <3>. QED BY <3>1, <3>2
  <2>. QED BY <1>4, <2>1, <2>2, <2>3 DEF Command
<1>5. CASE Launch \/ RaiseFlag
  <2>1. \A v \in Worker : pc'[v] = pc[v] \/ pc'[v] = "start"
    BY <1>5 DEF Launch, RaiseFlag, threads
  <2>. QED BY <1>5, <2>1 DEF Launch, RaiseFlag, batch
<1>6. CASE Tick \/ Crash
  BY <1>6 DEF Tick, Crash, threads, batch
<1>7. CASE UNCHANGED vars
  BY <1>7 DEF vars, threads, batch
<1>. QED BY <1>1, <1>2, <1>3, <1>4, <1>5, <1>6, <1>7 DEF Next

\* A worker begins at most one stage after the batch was paused or cancelled,
\* however guards and commands interleave.
THEOREM StopIsPrompt == Spec => []AtMostOneLateStage
<1>1. Init => LateInv
  BY DEF Init, LateInv, LateReset, AtMostOneLateStage
<1>2. LateInv => AtMostOneLateStage
  BY DEF LateInv
<1>. QED BY BaseInvariant, <1>1, <1>2, LateStep, PTL DEF Spec

-----------------------------------------------------------------------------
(***************************************************************************)
(* Layer 3: who works on a task owns its row.                              *)
(***************************************************************************)

\* No lease runs out between a claim and the first begin_stage: workers are prompt,
\* or no time passes at all.
SafeStart == PromptStart \/ "tick" \notin Events

\* Every step keeps the row of a busy worker's task its own.  The critical cases are
\* Claim (nobody else can be at a claimable task), Retry (no worker is at a failed
\* task) and Tick (SafeStart).
LEMMA OwnershipStep == SafeStart /\ Base /\ Ownership /\ [Next]_vars => Ownership'
<1>. SUFFICES ASSUME SafeStart, Base, Ownership, [Next]_vars PROVE Ownership'
  OBVIOUS
<1>. USE Workers DEF Base, TypeOK
<1>1. ASSUME NEW w \in Worker, Claim(w) PROVE Ownership'
  <2>1. PICK t \in Claimable : /\ lease' = [lease EXCEPT ![t] = L!Fresh(w)]
                               /\ job' = [job EXCEPT ![w] = t]
    BY <1>1 DEF Claim
  <2>2. t \in Task /\ status[t] = "planned" /\ (lease[t].owner = NoOwner \/ lease[t].left = 0)
    BY <2>1 DEF Claimable, L!Unclaimed
  <2>3. \A v \in Worker : job[v] # t
    BY <2>2 DEF Ownership
  <2>4. status' = status
    BY <1>1 DEF Claim
  <2>. QED BY <2>1, <2>2, <2>3, <2>4, LeaseOps, StatusClasses
       DEF Ownership, RowTypes, ThreadTypes
<1>2. ASSUME NEW w \in Worker, Begin(w) PROVE Ownership'
  <2>1. job' = job /\ job[w] \in Task /\ lease[job[w]].owner = w
    BY <1>2 DEF Begin, JobIffBusy, Busy, Ownership
  <2>2. \A v \in Worker \ {w} : job[v] # job[w]
    BY <2>1 DEF Ownership
  <2>3. /\ lease' = [lease EXCEPT ![job[w]] = L!Fresh(w)]
        /\ status' = [status EXCEPT ![job[w]] = StateOf[stage[w]]]
    BY <1>2, <2>1 DEF Begin, L!Acquirable
  <2>4. StateOf[stage[w]] \in Open
    BY StateOfType, StatusClasses DEF ThreadTypes
  <2>. QED BY <2>1, <2>2, <2>3, <2>4, LeaseOps DEF Ownership, RowTypes
<1>3. ASSUME NEW w \in Worker, Report(w) PROVE Ownership'
  <2>1. job' = job /\ status' = status
    BY <1>3 DEF Report
  <2>2. lease' = lease \/ lease' = [lease EXCEPT ![job[w]] = L!Fresh(w)]
    BY <1>3 DEF Report
  <2>3. job[w] \in Task /\ lease[job[w]].owner = w
    BY <1>3 DEF Report, JobIffBusy, Busy, Ownership
  <2>. QED BY <2>1, <2>2, <2>3, LeaseOps DEF Ownership, RowTypes
<1>4. ASSUME NEW w \in Worker, Fail(w) \/ Complete(w) PROVE Ownership'
  <2>1. job[w] \in Task /\ lease[job[w]].owner = w
    BY <1>4 DEF Fail, Complete, JobIffBusy, Busy, Ownership
  <2>2. CASE job' = job /\ status' = status /\ lease' = lease
    BY <2>2 DEF Ownership
  <2>3. CASE ~(job' = job /\ status' = status /\ lease' = lease)
    <3>1. job' = [job EXCEPT ![w] = NoTask]
      BY <1>4, <2>3 DEF Fail, Complete, BackToLoop
    <3>2. \A u \in Task \ {job[w]} : status'[u] = status[u] /\ lease'[u] = lease[u]
      BY <1>4, <2>3 DEF Fail, Complete, RowTypes
    <3>. QED BY <2>1, <3>1, <3>2 DEF Ownership, ThreadTypes
  <2>. QED BY <2>2, <2>3
<1>5. ASSUME NEW w \in Worker, WorkerStep(w),
             ~(Claim(w) \/ Begin(w) \/ Report(w) \/ Fail(w) \/ Complete(w))
      PROVE  Ownership'
  BY <1>5 DEF WorkerStep, Build, Leave, Exit, Guard, WorkFails, WorkSkips, WorkSucceeds,
     WorkVerifies, rows, Ownership
<1>6. CASE Retry
  <2>1. PICK S \in SUBSET Task :
          /\ \A t \in S : status[t] = "retryable_failed"
          /\ status' = [t \in Task |-> IF t \in S THEN "planned" ELSE status[t]]
          /\ lease' = [t \in Task |-> IF t \in S THEN L!NoLease ELSE lease[t]]
    BY <1>6 DEF Retry, Retryable
  <2>2. job' = job
    BY <1>6 DEF Retry, threads
  <2>. QED BY <2>1, <2>2, StatusClasses DEF Ownership, RowTypes
<1>7. CASE Pause \/ Resume \/ Cancel \/ Launch \/ RaiseFlag
  BY <1>7 DEF Pause, Resume, Cancel, Launch, RaiseFlag, rows, threads, Ownership
<1>8. CASE Tick
  BY <1>8, LeaseOps DEF Tick, SafeStart, threads, Ownership, Starting, RowTypes
<1>9. CASE Crash
  BY <1>9 DEF Crash, Ownership
<1>10. CASE UNCHANGED vars
  BY <1>10 DEF vars, rows, threads, Ownership
<1>. QED BY <1>1, <1>2, <1>3, <1>4, <1>5, <1>6, <1>7, <1>8, <1>9, <1>10 DEF Next, Command

\* Ownership is an invariant of every instance with safe starts.
LEMMA OwnershipInvariant == SafeStart => (Spec => []Ownership)
<1>1. Init => Ownership
  BY Workers DEF Init, Ownership
<1>. SUFFICES ASSUME SafeStart PROVE Spec => []Ownership
  OBVIOUS
<1>2. Base /\ Ownership /\ [Next]_vars => Ownership'
  BY OwnershipStep
<1>. QED BY BaseInvariant, <1>1, <1>2, PTL DEF Spec

\* A row has one owner, so no task has two workers.
LEMMA OwnershipExcludes == Base /\ Ownership => ExclusiveJob
BY Workers DEF Base, TypeOK, ThreadTypes, Ownership, ExclusiveJob

\* No two workers work on the same task, as long as a worker gets from its claim
\* to its first begin_stage within the lease.  A lease that expires later, under
\* a long clone or push, does not break this.
THEOREM NoTaskTwice == SafeStart => (Spec => []ExclusiveJob)
<1>1. Base /\ Ownership => ExclusiveJob
  BY OwnershipExcludes
<1>. SUFFICES ASSUME SafeStart PROVE Spec => []ExclusiveJob
  OBVIOUS
<1>. QED BY BaseInvariant, OwnershipInvariant, <1>1, PTL

-----------------------------------------------------------------------------
(***************************************************************************)
(* Layer 4: the batch row.                                                 *)
(***************************************************************************)
BatchRow == RollupExact /\ EndedIffOver /\ NoOpenBatchWithoutWork

\* refresh_batch_rollup establishes the row for a batch that is not cancelled
\* before its time.
LEMMA RollupEstablishes ==
  ASSUME BatchTypes, BatchRow, Rollup(status'), control # "completed"
  PROVE  BatchRow'
BY DEF Rollup, BatchRow, RollupExact, EndedIffOver, NoOpenBatchWithoutWork, BatchTypes, Control

\* A worker's task is open, so its batch is not completed.
LEMMA BusyBatchOpen ==
  ASSUME Base, Ownership, BatchRow, NEW w \in Worker, pc[w] \in Busy
  PROVE  job[w] \in Task /\ status[job[w]] \in Open /\ control # "completed"
BY StatusClasses DEF Base, JobIffBusy, Ownership, BatchRow, EndedIffOver, AllSettled

\* Every step keeps the batch row consistent with the task rows.
LEMMA BatchRowStep == Base /\ Ownership /\ BatchRow /\ [Next]_vars => BatchRow'
<1>. SUFFICES ASSUME Base, Ownership, BatchRow, [Next]_vars PROVE BatchRow'
  OBVIOUS
<1>. USE DEF Base, TypeOK
<1>1. ASSUME status' = status, UNCHANGED batch PROVE BatchRow'
  BY <1>1 DEF BatchRow, RollupExact, EndedIffOver, NoOpenBatchWithoutWork, AllSettled, batch
<1>2. ASSUME NEW w \in Worker, Begin(w) PROVE BatchRow'
  <2>1. job[w] \in Task /\ status[job[w]] \in Open
    BY <1>2, BusyBatchOpen DEF Begin, Busy
  <2>2. CASE status' = [status EXCEPT ![job[w]] = StateOf[stage[w]]]
    <3>1. StateOf[stage[w]] \in Open
      BY StateOfType, StatusClasses DEF ThreadTypes
    <3>2. \A t \in Task : status'[t] \in Done <=> status[t] \in Done
      BY <2>1, <2>2, <3>1, StatusClasses DEF RowTypes
    <3>3. \A t \in Task : status'[t] = "retryable_failed" <=> status[t] = "retryable_failed"
      BY <2>1, <2>2, <3>1, StatusClasses DEF RowTypes
    <3>4. /\ {t \in Task : status'[t] \in Done} = {t \in Task : status[t] \in Done}
          /\ {t \in Task : status'[t] = "retryable_failed"}
               = {t \in Task : status[t] = "retryable_failed"}
      BY <3>2, <3>3
    <3>5. ~AllSettled(status) /\ ~AllSettled(status')
      BY <2>1, <2>2, <3>1, StatusClasses DEF AllSettled, RowTypes
    <3>6. UNCHANGED batch
      BY <1>2 DEF Begin
    <3>. QED BY <3>4, <3>5, <3>6
         DEF BatchRow, RollupExact, EndedIffOver, NoOpenBatchWithoutWork, batch
  <2>3. CASE status' = status
    BY <1>1, <1>2, <2>3 DEF Begin
  <2>. QED BY <1>2, <2>2, <2>3 DEF Begin
<1>3. ASSUME NEW w \in Worker, Fail(w) \/ Complete(w) PROVE BatchRow'
  <2>1. CASE Rollup(status')
    BY <1>3, <2>1, BusyBatchOpen, RollupEstablishes DEF Fail, Complete, Busy
  <2>2. CASE status' = status /\ UNCHANGED batch
    BY <1>1, <2>2
  <2>. QED BY <1>3, <2>1, <2>2 DEF Fail, Complete
<1>4. ASSUME NEW w \in Worker, WorkerStep(w), ~(Begin(w) \/ Fail(w) \/ Complete(w))
      PROVE  BatchRow'
  <2>1. status' = status /\ UNCHANGED batch
    BY <1>4 DEF WorkerStep, Build, Claim, Leave, Exit, Guard, WorkFails, WorkSkips,
       WorkSucceeds, WorkVerifies, Report, rows
  <2>. QED BY <1>1, <2>1
<1>5. CASE Retry
  <2>1. PICK S \in SUBSET Task :
          /\ S # {}
          /\ status' = [t \in Task |-> IF t \in S THEN "planned" ELSE status[t]]
    BY <1>5 DEF Retry
  <2>2. ~AllSettled(status')
    BY <2>1, StatusClasses DEF AllSettled
  <2>3. RollupExact'
    BY <1>5 DEF Retry, RollupExact
  <2>. QED BY <1>5, <2>2, <2>3
       DEF Retry, BatchRow, EndedIffOver, NoOpenBatchWithoutWork, BatchTypes, Control
<1>6. CASE Pause \/ Resume \/ Cancel
  BY <1>6 DEF Pause, Resume, Cancel, rows, BatchRow, RollupExact, EndedIffOver,
     NoOpenBatchWithoutWork, AllSettled
<1>7. CASE Launch \/ RaiseFlag \/ Tick \/ Crash
  BY <1>1, <1>7 DEF Launch, RaiseFlag, Tick, Crash, rows
<1>8. CASE UNCHANGED vars
  BY <1>1, <1>8 DEF vars, rows
<1>. QED BY <1>2, <1>3, <1>4, <1>5, <1>6, <1>7, <1>8 DEF Next, Command

\* A new batch has a consistent row: it has a task, and no task is settled.
LEMMA BatchRowInit == Init => BatchRow
<1>. SUFFICES ASSUME Init PROVE BatchRow
  OBVIOUS
<1>1. {t \in Task : status[t] \in Done} = {} /\ {t \in Task : status[t] = "retryable_failed"} = {}
  BY StatusClasses DEF Init
<1>2. ~AllSettled(status)
  BY QueueAssumption, StatusClasses DEF Init, AllSettled
<1>. QED BY <1>1, <1>2, FS_EmptySet
     DEF Init, BatchRow, RollupExact, EndedIffOver, NoOpenBatchWithoutWork

\* The batch row is consistent with the task rows in every reachable state.
LEMMA BatchRowInvariant == SafeStart => (Spec => []BatchRow)
<1>. SUFFICES ASSUME SafeStart PROVE Spec => []BatchRow
  OBVIOUS
<1>. QED BY BaseInvariant, OwnershipInvariant, BatchRowInit, BatchRowStep, PTL DEF Spec

\* The counters of the batch row are exact in every state, although begin_stage
\* changes a status without refreshing them.
THEOREM CountersExact == SafeStart => (Spec => []RollupExact)
<1>1. BatchRow => RollupExact
  BY DEF BatchRow
<1>. SUFFICES ASSUME SafeStart PROVE Spec => []RollupExact
  OBVIOUS
<1>. QED BY BatchRowInvariant, <1>1, PTL

\* The end time of a batch and its control state agree, and "completed" means
\* that nothing is left to do.
THEOREM EndIsConsistent == SafeStart => (Spec => []EndedIffOver)
<1>1. BatchRow => EndedIffOver
  BY DEF BatchRow
<1>. SUFFICES ASSUME SafeStart PROVE Spec => []EndedIffOver
  OBVIOUS
<1>. QED BY BatchRowInvariant, <1>1, PTL

\* A batch whose tasks are all settled is over: no command or worker order leaves
\* it open with nothing to do.
THEOREM NothingLeftOpen == SafeStart => (Spec => []NoOpenBatchWithoutWork)
<1>1. BatchRow => NoOpenBatchWithoutWork
  BY DEF BatchRow
<1>. SUFFICES ASSUME SafeStart PROVE Spec => []NoOpenBatchWithoutWork
  OBVIOUS
<1>. QED BY BatchRowInvariant, <1>1, PTL

-----------------------------------------------------------------------------
(***************************************************************************)
(* Layer 5: leases of tasks in the middle of a stage and of settled tasks. *)
(***************************************************************************)
LeaseRow ==
  \A t \in Task :
    /\ status[t] \in InFlight => lease[t].owner \in Worker
    /\ status[t] \in Settled => lease[t] = L!NoLease

\* Time does not touch a free row.
LEMMA AgedNoLease == L!Aged(L!NoLease) = L!NoLease
BY DEF L!Aged, L!NoLease

\* Every step keeps a lease on each in-flight task and none on a settled one.
LEMMA LeaseRowStep == Base /\ LeaseRow /\ [Next]_vars => LeaseRow'
<1>. SUFFICES ASSUME Base, LeaseRow, [Next]_vars PROVE LeaseRow'
  OBVIOUS
<1>. USE Workers DEF Base, TypeOK
<1>1. ASSUME status' = status, lease' = lease PROVE LeaseRow'
  BY <1>1 DEF LeaseRow
<1>2. ASSUME NEW w \in Worker, Claim(w) PROVE LeaseRow'
  <2>1. PICK t \in Claimable : lease' = [lease EXCEPT ![t] = L!Fresh(w)]
    BY <1>2 DEF Claim
  <2>2. t \in Task /\ status[t] = "planned" /\ status' = status
    BY <1>2, <2>1 DEF Claim, Claimable
  <2>. QED BY <2>1, <2>2, StatusClasses DEF LeaseRow, RowTypes
<1>3. ASSUME NEW w \in Worker, Begin(w) PROVE LeaseRow'
  <2>1. job[w] \in Task /\ StateOf[stage[w]] \in InFlight
    BY <1>3, StateOfType DEF Begin, JobIffBusy, Busy, ThreadTypes
  <2>2. CASE L!Acquirable(lease[job[w]], w)
    <3>1. /\ lease' = [lease EXCEPT ![job[w]] = L!Fresh(w)]
          /\ status' = [status EXCEPT ![job[w]] = StateOf[stage[w]]]
      BY <1>3, <2>2 DEF Begin
    <3>. QED BY <2>1, <3>1, LeaseOps, StatusClasses DEF LeaseRow, RowTypes
  <2>3. CASE ~L!Acquirable(lease[job[w]], w)
    BY <1>1, <1>3, <2>3 DEF Begin
  <2>. QED BY <2>2, <2>3
<1>4. ASSUME NEW w \in Worker, Report(w) PROVE LeaseRow'
  <2>1. job[w] \in Task /\ status' = status
    BY <1>4 DEF Report, JobIffBusy, Busy
  <2>2. CASE L!Held(lease[job[w]], w)
    <3>1. lease' = [lease EXCEPT ![job[w]] = L!Fresh(w)]
      BY <1>4, <2>2 DEF Report
    <3>2. status[job[w]] \notin Settled
      BY <2>1, <2>2, LeaseOps DEF LeaseRow, L!Held
    <3>. QED BY <2>1, <3>1, <3>2, LeaseOps DEF LeaseRow, RowTypes
  <2>3. CASE ~L!Held(lease[job[w]], w)
    BY <1>1, <1>4, <2>3 DEF Report
  <2>. QED BY <2>2, <2>3
<1>5. ASSUME NEW w \in Worker, Fail(w) \/ Complete(w) PROVE LeaseRow'
  <2>1. job[w] \in Task
    BY <1>5 DEF Fail, Complete, JobIffBusy, Busy
  <2>2. CASE L!Held(lease[job[w]], w)
    <3>1. lease' = [lease EXCEPT ![job[w]] = L!NoLease]
      <4>1. L!Released(lease[job[w]], w) = L!NoLease
        BY <2>1, <2>2, LeaseOps DEF L!Held, RowTypes
      <4>. QED BY <1>5, <2>1, <2>2, <4>1 DEF Fail, Complete, RowTypes
    <3>2. PICK s \in Settled : status' = [status EXCEPT ![job[w]] = s]
      BY <1>5, <2>2, ResultsAreSettled DEF Fail, Complete, OutcomeReady
    <3>. QED BY <2>1, <3>1, <3>2, StatusClasses DEF LeaseRow, RowTypes
  <2>3. CASE ~L!Held(lease[job[w]], w)
    BY <1>1, <1>5, <2>3 DEF Fail, Complete
  <2>. QED BY <2>2, <2>3
<1>6. ASSUME NEW w \in Worker, WorkerStep(w),
             ~(Claim(w) \/ Begin(w) \/ Report(w) \/ Fail(w) \/ Complete(w))
      PROVE  LeaseRow'
  <2>1. status' = status /\ lease' = lease
    BY <1>6 DEF WorkerStep, Build, Leave, Exit, Guard, WorkFails, WorkSkips, WorkSucceeds,
       WorkVerifies, rows
  <2>. QED BY <1>1, <2>1
<1>7. CASE Retry
  <2>1. PICK S \in SUBSET Task :
          /\ status' = [t \in Task |-> IF t \in S THEN "planned" ELSE status[t]]
          /\ lease' = [t \in Task |-> IF t \in S THEN L!NoLease ELSE lease[t]]
    BY <1>7 DEF Retry
  <2>. QED BY <2>1, StatusClasses DEF LeaseRow
<1>8. CASE Tick
  BY <1>8, LeaseOps, AgedNoLease DEF Tick, LeaseRow, RowTypes
<1>9. CASE Pause \/ Resume \/ Cancel \/ Launch \/ RaiseFlag \/ Crash \/ UNCHANGED vars
  BY <1>1, <1>9 DEF Pause, Resume, Cancel, Launch, RaiseFlag, Crash, vars, rows
<1>. QED BY <1>2, <1>3, <1>4, <1>5, <1>6, <1>7, <1>8, <1>9 DEF Next, Command

\* A task in the middle of a stage is never out of sight: its lease is running
\* or the recovery query lists it; a settled task is never listed.  This holds
\* with crashes and with leases that expire under their worker.
THEOREM InFlightNeverLost == Spec => []InFlightIsRecoverable
<1>1. Init => LeaseRow
  BY StatusClasses DEF Init, LeaseRow
<1>2. Base /\ LeaseRow => InFlightIsRecoverable
  <2>. SUFFICES ASSUME Base, LeaseRow, NEW t \in Task
                PROVE  /\ status[t] \in InFlight => lease[t].left > 0 \/ t \in Recoverable
                       /\ status[t] \in Settled => lease[t] = L!NoLease
    BY DEF InFlightIsRecoverable
  <2>1. lease[t].left \in Nat
    BY LeaseOps DEF Base, TypeOK, RowTypes
  <2>. QED BY <2>1, StatusClasses, Workers DEF LeaseRow, Recoverable
<1>. QED BY BaseInvariant, <1>1, <1>2, LeaseRowStep, PTL DEF Spec

-----------------------------------------------------------------------------
(***************************************************************************)
(* Layer 6: the status follows the stage of the worker.                    *)
(***************************************************************************)

\* The stages' statuses come after "planned" in the pipeline.
LEMMA StageOrder ==
  /\ Rank["planned"] < Rank[StateOf["prepare_target"]]
  /\ StateOf["verify"] = "verifying"
BY DEF Rank, StateOf, Open, InFlight, Stage

\* Every step keeps a task's status in line with its worker's stage.
LEMMA StatusFollowsStep ==
  Base /\ Ownership /\ ExclusiveJob /\ StatusFollowsStage /\ [Next]_vars => StatusFollowsStage'
<1>. SUFFICES ASSUME Base, Ownership, ExclusiveJob, StatusFollowsStage, [Next]_vars
              PROVE  StatusFollowsStage'
  OBVIOUS
<1>. USE Workers DEF Base, TypeOK
<1>1. ASSUME NEW w \in Worker, Claim(w) PROVE StatusFollowsStage'
  <2>1. PICK t \in Claimable : job' = [job EXCEPT ![w] = t]
    BY <1>1 DEF Claim
  <2>2. status' = status /\ status[t] = "planned"
    BY <1>1, <2>1 DEF Claim, Claimable
  <2>3. /\ \A v \in Worker \ {w} :
             pc'[v] = pc[v] /\ stage'[v] = stage[v] /\ outcome'[v] = outcome[v]
        /\ pc'[w] \in {"guard", "fail"} /\ (pc'[w] = "guard" => stage'[w] = "prepare_target")
    BY <1>1 DEF Claim, ThreadTypes
  <2>. QED BY <2>1, <2>2, <2>3, StageOrder DEF StatusFollowsStage, ThreadTypes
<1>2. ASSUME NEW w \in Worker, Begin(w) PROVE StatusFollowsStage'
  <2>1. job[w] \in Task /\ job' = job /\ stage' = stage
    BY <1>2 DEF Begin, JobIffBusy, Busy
  <2>2. /\ status' = [status EXCEPT ![job[w]] = StateOf[stage[w]]]
        /\ pc' = [pc EXCEPT ![w] = "run"] /\ outcome' = outcome
    BY <1>2, <2>1 DEF Begin, L!Acquirable, Ownership
  <2>3. \A v \in Worker \ {w} : job[v] # job[w]
    BY <2>1 DEF ExclusiveJob
  <2>. QED BY <2>1, <2>2, <2>3 DEF StatusFollowsStage, RowTypes, ThreadTypes
<1>3. ASSUME NEW w \in Worker, Guard(w) \/ WorkFails(w) \/ WorkSkips(w) \/ WorkVerifies(w)
      PROVE  StatusFollowsStage'
  <2>1. job' = job /\ status' = status
    BY <1>3 DEF Guard, WorkFails, WorkSkips, WorkVerifies, rows
  <2>2. \A v \in Worker \ {w} :
          pc'[v] = pc[v] /\ stage'[v] = stage[v] /\ outcome'[v] = outcome[v]
    BY <1>3 DEF Guard, WorkFails, WorkSkips, WorkVerifies, ThreadTypes
  <2>3. CASE Guard(w)
    BY <2>1, <2>2, <2>3 DEF Guard, StatusFollowsStage, ThreadTypes
  <2>4. CASE WorkFails(w)
    BY <2>1, <2>2, <2>4 DEF WorkFails, StatusFollowsStage, ThreadTypes
  <2>5. CASE WorkSkips(w)
    BY <2>1, <2>2, <2>5 DEF WorkSkips, StatusFollowsStage, ThreadTypes
  <2>6. CASE WorkVerifies(w)
    BY <2>1, <2>2, <2>6, StageOrder DEF WorkVerifies, StatusFollowsStage, ThreadTypes
  <2>. QED BY <1>3, <2>3, <2>4, <2>5, <2>6
<1>4. ASSUME NEW w \in Worker, WorkSucceeds(w) \/ Report(w) PROVE StatusFollowsStage'
  <2>1. job' = job /\ status' = status
    BY <1>4 DEF WorkSucceeds, Report, rows
  <2>2. \A v \in Worker \ {w} :
          pc'[v] = pc[v] /\ stage'[v] = stage[v] /\ outcome'[v] = outcome[v]
    BY <1>4 DEF WorkSucceeds, Report, NextStage, ThreadTypes
  <2>3. \/ pc'[w] \in {"run", "report"} /\ stage'[w] = stage[w]
        \/ pc'[w] = "guard" /\ Before(stage[w], stage'[w])
        \/ pc'[w] = "fail"
    BY <1>4 DEF WorkSucceeds, Report, NextStage, Follows, ThreadTypes
  <2>4. pc[w] \in {"run", "report"}
    BY <1>4 DEF WorkSucceeds, Report
  <2>. QED BY <2>1, <2>2, <2>3, <2>4 DEF StatusFollowsStage, Before, ThreadTypes
<1>5. ASSUME NEW w \in Worker, Fail(w) \/ Complete(w) PROVE StatusFollowsStage'
  <2>1. job[w] \in Task
    BY <1>5 DEF Fail, Complete, JobIffBusy, Busy
  <2>2. \A u \in Task \ {job[w]} : status'[u] = status[u]
    BY <1>5 DEF Fail, Complete, RowTypes
  <2>3. \A v \in Worker \ {w} :
          /\ pc'[v] = pc[v] /\ stage'[v] = stage[v] /\ outcome'[v] = outcome[v]
          /\ job'[v] = job[v] /\ job[v] # job[w]
    BY <1>5, <2>1 DEF Fail, Complete, BackToLoop, ThreadTypes, ExclusiveJob
  <2>4. pc'[w] \in {"idle", "fail"}
    BY <1>5 DEF Fail, Complete, BackToLoop, ThreadTypes
  <2>. QED BY <2>2, <2>3, <2>4 DEF StatusFollowsStage
<1>6. ASSUME NEW w \in Worker, Build(w) \/ Leave(w) \/ Exit(w) PROVE StatusFollowsStage'
  <2>1. UNCHANGED <<job, status, stage, outcome>>
    BY <1>6 DEF Build, Leave, Exit, rows
  <2>2. pc'[w] \in {"idle", "exit", "off"} /\ \A v \in Worker \ {w} : pc'[v] = pc[v]
    BY <1>6 DEF Build, Leave, Exit, ThreadTypes
  <2>. QED BY <2>1, <2>2 DEF StatusFollowsStage
<1>7. CASE Retry
  <2>1. PICK S \in SUBSET Task :
          /\ \A t \in S : status[t] = "retryable_failed"
          /\ status' = [t \in Task |-> IF t \in S THEN "planned" ELSE status[t]]
    BY <1>7 DEF Retry, Retryable
  <2>2. \A w \in Worker : job[w] \in Task => status'[job[w]] = status[job[w]]
    BY <2>1, StatusClasses DEF Ownership
  <2>. QED BY <1>7, <2>2 DEF Retry, threads, StatusFollowsStage
<1>8. CASE Launch
  <2>1. \A v \in Worker : pc'[v] = pc[v] \/ pc'[v] = "start"
    BY <1>8 DEF Launch
  <2>. QED BY <1>8, <2>1 DEF Launch, rows, StatusFollowsStage
<1>9. CASE Pause \/ Resume \/ Cancel \/ RaiseFlag \/ Tick \/ UNCHANGED vars
  BY <1>9 DEF Pause, Resume, Cancel, RaiseFlag, Tick, vars, rows, threads, StatusFollowsStage
<1>10. CASE Crash
  BY <1>10 DEF Crash, StatusFollowsStage
<1>. QED BY <1>1, <1>2, <1>3, <1>4, <1>5, <1>6, <1>7, <1>8, <1>9, <1>10
     DEF Next, Command, WorkerStep

\* A task's status is in line with its worker's stage in every reachable state.
LEMMA StatusFollowsInvariant == SafeStart => (Spec => []StatusFollowsStage)
<1>1. Init => StatusFollowsStage
  BY Workers DEF Init, StatusFollowsStage
<1>. SUFFICES ASSUME SafeStart PROVE Spec => []StatusFollowsStage
  OBVIOUS
<1>. QED BY BaseInvariant, OwnershipInvariant, NoTaskTwice, <1>1, StatusFollowsStep, PTL DEF Spec

-----------------------------------------------------------------------------
(***************************************************************************)
(* Layer 7: MigrationQueue implements TaskLifecycle.                       *)
(***************************************************************************)
Active == {t \in Task : \E w \in Worker : job[w] = t}

Known == Base /\ Ownership /\ ExclusiveJob /\ StatusFollowsStage /\ BatchRow

\* Both modules speak of the same stages and statuses.
LEMMA SameVocabulary ==
  /\ Lifecycle!Open = Open /\ Lifecycle!InFlight = InFlight /\ Lifecycle!Settled = Settled
  /\ Lifecycle!Rank = Rank
<1>1. Lifecycle!Open = Open /\ Lifecycle!InFlight = InFlight
  BY DEF Lifecycle!Open, Open, Lifecycle!InFlight, InFlight
<1>2. Lifecycle!Settled = Settled
  BY DEF Lifecycle!Settled, Settled, Lifecycle!Done, Done
<1>3. Lifecycle!Rank = Rank
  BY <1>1 DEF Lifecycle!Rank, Rank
<1>. QED BY <1>1, <1>2, <1>3

\* A task a worker takes or gives up enters or leaves the active tasks.
LEMMA ActiveGrows ==
  ASSUME TypeOK, NEW w \in Worker, NEW t \in Task, job[w] = NoTask, job' = [job EXCEPT ![w] = t]
  PROVE  Active' = Active \cup {t}
BY Workers DEF Active, TypeOK, ThreadTypes

\* A worker that gives up its task takes it out of the active tasks, since no other
\* worker is at it.
LEMMA ActiveShrinks ==
  ASSUME TypeOK, ExclusiveJob, NEW w \in Worker, job[w] \in Task,
         job' = [job EXCEPT ![w] = NoTask]
  PROVE  Active' = Active \ {job[w]} /\ job[w] \in Active
BY Workers DEF Active, TypeOK, ThreadTypes, ExclusiveJob

\* A step that changes no status, attempt, control state or assignment is a stutter.
LEMMA LifecycleStutter ==
  ASSUME job' = job, status' = status, attempt' = attempt, control' = control
  PROVE  UNCHANGED Lifecycle!vars
BY DEF Lifecycle!vars

\* A claim is a Take of the lifecycle.
LEMMA ClaimTakes ==
  ASSUME Known, NEW w \in Worker, Claim(w)
  PROVE  \E t \in Task : Lifecycle!Take(t)
<1>. USE DEF Known, Base
<1>1. PICK t \in Claimable : job' = [job EXCEPT ![w] = t]
  BY DEF Claim
<1>2. t \in Task /\ status[t] = "planned" /\ (lease[t].owner = NoOwner \/ lease[t].left = 0)
  BY <1>1 DEF Claimable, L!Unclaimed
<1>3. t \notin Active
  BY <1>2, Workers DEF Ownership, Active
<1>4. job[w] = NoTask
  BY DEF Claim, JobIffBusy, Busy, TypeOK, ThreadTypes
<1>5. Active' = Active \cup {t}
  BY <1>1, <1>2, <1>4, ActiveGrows
<1>6. control = "running" /\ UNCHANGED <<status, attempt, control>>
  BY DEF Claim, batch
<1>7. Lifecycle!Take(t)
  BY <1>2, <1>3, <1>5, <1>6 DEF Lifecycle!Take, Active
<1>. QED BY <1>2, <1>7

\* begin_stage is an Advance of the lifecycle, or a stutter if it is refused.
LEMMA BeginAdvances ==
  ASSUME Known, NEW w \in Worker, Begin(w)
  PROVE  \E t \in Task : Lifecycle!Advance(t)
<1>. USE DEF Known, Base
<1>1. job[w] \in Task /\ job' = job /\ UNCHANGED <<attempt, control>>
  BY DEF Begin, JobIffBusy, Busy, batch
<1>2. status' = [status EXCEPT ![job[w]] = StateOf[stage[w]]]
  BY <1>1 DEF Begin, L!Acquirable, Ownership
<1>3. /\ status[job[w]] \in Open
      /\ Rank[status[job[w]]] < Rank[StateOf[stage[w]]]
  BY <1>1 DEF Begin, Ownership, StatusFollowsStage
<1>4. StateOf[stage[w]] \in InFlight
  BY StateOfType DEF TypeOK, ThreadTypes
<1>5. job[w] \in Active /\ Active' = Active
  BY <1>1 DEF Active
<1>6. PICK t \in Task : t = job[w]
  BY <1>1
<1>7. Lifecycle!Advance(t)
  BY <1>1, <1>2, <1>3, <1>4, <1>5, <1>6, SameVocabulary DEF Lifecycle!Advance, Active
<1>. QED BY <1>7

\* Recording a result is a Settle; dropping one is an Abandon.
LEMMA ResultSettles ==
  ASSUME Known, NEW w \in Worker, Fail(w) \/ Complete(w)
  PROVE  \/ \E t \in Task : Lifecycle!Settle(t) \/ Lifecycle!Abandon(t)
         \/ UNCHANGED Lifecycle!vars
<1>. USE DEF Known, Base
<1>1. job[w] \in Task /\ status[job[w]] \in Open /\ attempt' = attempt
  BY DEF Fail, Complete, JobIffBusy, Busy, Ownership
<1>. PICK t \in Task : t = job[w]
  BY <1>1
<1>2. CASE L!Held(lease[job[w]], w)
  <2>1. Active' = Active \ {job[w]} /\ job[w] \in Active
    <3>1. job' = [job EXCEPT ![w] = NoTask]
      BY <1>2 DEF Fail, Complete, BackToLoop
    <3>. QED BY <1>1, <3>1, ActiveShrinks
  <2>2. PICK s \in Settled :
          /\ status' = [status EXCEPT ![job[w]] = s]
          /\ s \in {"succeeded", "partial"} => status[job[w]] = "verifying"
    <3>1. CASE Fail(w)
      BY <1>2, <3>1, ResultsAreSettled DEF Fail, OutcomeReady
    <3>2. CASE Complete(w)
      <4>1. StatusAfterVerdict(outcome[w]) \in Settled
        BY <3>2, ResultsAreSettled DEF Complete, OutcomeReady
      <4>2. StatusAfterVerdict(outcome[w]) \in {"succeeded", "partial"} =>
              status[job[w]] = "verifying"
        BY <1>1, <3>2 DEF Complete, StatusAfterVerdict, StatusFollowsStage
      <4>. QED BY <1>2, <3>2, <4>1, <4>2 DEF Complete
    <3>. QED BY <3>1, <3>2
  <2>3. control' = IF control # "cancelled" /\ AllSettled(status') THEN "completed" ELSE control
    BY <1>2 DEF Fail, Complete, Rollup
  <2>4. Lifecycle!Settle(t)
    BY <1>1, <2>1, <2>2, <2>3, SameVocabulary
       DEF Lifecycle!Settle, Lifecycle!AllSettled, AllSettled, Active
  <2>. QED BY <2>4
<1>3. CASE ~L!Held(lease[job[w]], w)
  <2>1. CASE Fail(w)
    <3>1. job' = [job EXCEPT ![w] = NoTask] /\ UNCHANGED <<status, control>>
      BY <1>3, <2>1 DEF Fail, BackToLoop, batch
    <3>2. Active' = Active \ {job[w]} /\ job[w] \in Active
      BY <1>1, <3>1, ActiveShrinks
    <3>3. Lifecycle!Abandon(t)
      BY <1>1, <3>1, <3>2 DEF Lifecycle!Abandon, Active
    <3>. QED BY <3>3
  <2>2. CASE Complete(w)
    BY <1>1, <1>3, <2>2, LifecycleStutter DEF Complete, batch
  <2>. QED BY <2>1, <2>2
<1>. QED BY <1>2, <1>3

\* Pause, resume and cancel are Steer steps, a retry is a Requeue.
LEMMA OperatorSteers ==
  ASSUME Known, Command \/ Launch \/ RaiseFlag
  PROVE  Lifecycle!Next \/ UNCHANGED Lifecycle!vars
<1>. USE DEF Known, Base
<1>1. ASSUME UNCHANGED <<status, attempt, job>>
      PROVE  Active' = Active
  BY <1>1 DEF Active
<1>2. CASE Pause
  BY <1>1, <1>2 DEF Pause, rows, threads, Lifecycle!Next, Lifecycle!Steer, Active
<1>3. CASE Resume
  BY <1>1, <1>3 DEF Resume, rows, threads, Lifecycle!Next, Lifecycle!Steer, Active
<1>4. CASE Cancel
  BY <1>1, <1>4 DEF Cancel, rows, threads, Lifecycle!Next, Lifecycle!Steer, Active
<1>5. CASE Retry
  <2>1. PICK S \in SUBSET Task :
          /\ S # {}
          /\ \A t \in S : status[t] = "retryable_failed"
          /\ status'  = [t \in Task |-> IF t \in S THEN "planned" ELSE status[t]]
          /\ attempt' = [t \in Task |-> IF t \in S THEN attempt[t] + 1 ELSE attempt[t]]
    BY <1>5 DEF Retry, Retryable
  <2>2. \A t \in S : t \notin Active
    BY <2>1, StatusClasses DEF Ownership, Active
  <2>3. /\ control # "cancelled"
        /\ control' = IF control = "completed" THEN "running" ELSE control
        /\ Active' = Active
    BY <1>5 DEF Retry, threads, Active
  <2>4. Lifecycle!Requeue(S)
    BY <2>1, <2>2, <2>3 DEF Lifecycle!Requeue, Active
  <2>. QED BY <2>4 DEF Lifecycle!Next
<1>6. CASE Launch \/ RaiseFlag
  BY <1>6, LifecycleStutter DEF Launch, RaiseFlag, rows, batch, threads
<1>. QED BY <1>2, <1>3, <1>4, <1>5, <1>6 DEF Command

\* Every step of the queue is a step or a stutter of the lifecycle.
LEMMA LifecycleStep == Known /\ [Next]_vars => [Lifecycle!Next]_(Lifecycle!vars)
<1>. SUFFICES ASSUME Known, [Next]_vars
              PROVE  Lifecycle!Next \/ UNCHANGED Lifecycle!vars
  OBVIOUS
<1>1. ASSUME NEW w \in Worker, Claim(w) \/ Begin(w) \/ Fail(w) \/ Complete(w)
      PROVE  Lifecycle!Next \/ UNCHANGED Lifecycle!vars
  BY <1>1, ClaimTakes, BeginAdvances, ResultSettles DEF Lifecycle!Next
<1>2. ASSUME NEW w \in Worker, WorkerStep(w), ~(Claim(w) \/ Begin(w) \/ Fail(w) \/ Complete(w))
      PROVE  UNCHANGED Lifecycle!vars
  <2>1. UNCHANGED <<job, status, attempt, control>>
    BY <1>2 DEF WorkerStep, Build, Leave, Exit, Guard, WorkFails, WorkSkips, WorkSucceeds,
       WorkVerifies, Report, rows, batch
  <2>. QED BY <2>1, LifecycleStutter
<1>3. CASE Tick \/ UNCHANGED vars
  BY <1>3, LifecycleStutter DEF Tick, vars, rows, batch, threads
<1>4. CASE Crash
  <2>1. Active' = {}
    BY <1>4, Workers DEF Crash, Active
  <2>2. Lifecycle!Crash
    BY <1>4, <2>1 DEF Crash, rows, batch, Lifecycle!Crash, Active
  <2>. QED BY <2>2 DEF Lifecycle!Next
<1>. QED BY <1>1, <1>2, <1>3, <1>4, OperatorSteers DEF Next

\* The queue with its leases, threads, crashes and clock keeps the promises of
\* TaskLifecycle: one executor per task, forward stages within an attempt,
\* settled tasks stay settled but for a retry, and the batch completes with
\* its last task.
THEOREM QueueImplementsLifecycle == SafeStart => (Spec => ImplementsLifecycle)
<1>1. Init => Lifecycle!Init
  <2>. SUFFICES ASSUME Init PROVE Lifecycle!Init
    OBVIOUS
  <2>1. Active = {}
    BY Workers DEF Init, Active
  <2>. QED BY <2>1 DEF Init, Lifecycle!Init, Active
<1>2. Base /\ Ownership /\ ExclusiveJob /\ StatusFollowsStage /\ BatchRow => Known
  BY DEF Known
<1>. SUFFICES ASSUME SafeStart PROVE Spec => ImplementsLifecycle
  OBVIOUS
<1>. QED BY BaseInvariant, OwnershipInvariant, NoTaskTwice, StatusFollowsInvariant,
            BatchRowInvariant, LifecycleStep, <1>1, <1>2, PTL
     DEF Spec, ImplementsLifecycle, Lifecycle!Spec
=============================================================================
