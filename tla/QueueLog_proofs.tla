--------------------------- MODULE QueueLog_proofs ---------------------------
(***************************************************************************)
(* Theorems about the checkpoint log of MigrationQueue: what the rows and  *)
(* the threads may conclude from it, for every plan, every number of tasks *)
(* and workers, and every interleaving with crashes, expiries and retries. *)
(*                                                                         *)
(* The log is append-only and nobody reads it back while the batch runs,   *)
(* so nothing in an action forces it to agree with the rows.  The          *)
(* invariant LogInv says what it contains for every worker at work: the    *)
(* stages of the plan up to the one the worker is in, and no others.  It   *)
(* rests on Ownership and ExclusiveJob of MigrationQueue_proofs: a second  *)
(* worker at the task, or a retry under a worker, would break it.          *)
(***************************************************************************)
EXTENDS MigrationQueue_proofs

-----------------------------------------------------------------------------
(***************************************************************************)
(* The inductive invariant.                                                *)
(***************************************************************************)

\* Stage s of t's current attempt was begun.
Started(t, s) == Logged(t, s, "started")

\* The log tells nothing about attempts that are still to come.
LogOfThePast == \A c \in checkpoints : c.attempt <= attempt[c.task]

\* A task that waits to be claimed has begun no stage of its attempt.
WaitingUnstarted ==
  \A t \in Task : status[t] = "planned" => \A s \in Stage : ~Started(t, s)

\* A worker between stages has begun the planned stages before the next one, a
\* worker in a stage these and the stage it is in; a verified task has begun all.
StartedSoFar ==
  \A w \in Worker : job[w] \in Task =>
    /\ pc[w] \in {"guard", "begin", "run", "report"} => stage[w] \in Planned
    /\ pc[w] \in {"guard", "begin"} =>
         \A s \in Stage : Started(job[w], s) <=> s \in Planned /\ Before(s, stage[w])
    /\ pc[w] \in {"run", "report"} =>
         \A s \in Stage : Started(job[w], s) <=> s \in Planned /\ ~Before(stage[w], s)
    /\ pc[w] = "complete" /\ outcome[w] \in {"succeeded", "partial"} =>
         \A s \in Planned : Started(job[w], s)

LogInv == LogOfThePast /\ WaitingUnstarted /\ StartedSoFar /\ StartsInOrder /\ ResultIsLogged

\* What LogInv is proved from.
Context == Base /\ Ownership /\ ExclusiveJob

-----------------------------------------------------------------------------
(***************************************************************************)
(* Facts about plans and about the log.                                    *)
(***************************************************************************)

\* Stages are totally ordered, from prepare_target, which every plan has, to verify.
LEMMA PlanOrder ==
  /\ Planned \subseteq Stage /\ "prepare_target" \in Planned
  /\ \A s \in Stage : Rank[StateOf[s]] \in 1 .. 6
  /\ \A s \in Stage : ~Before(s, "prepare_target") /\ ~Before("verify", s) /\ ~Before(s, s)
  /\ \A s, n \in Stage : Before(s, n) \/ Before(n, s) \/ s = n
  /\ \A s, n \in Stage : Before(s, n) => ~Before(n, s)
<1>1. Planned \subseteq Stage /\ "prepare_target" \in Planned
  BY DEF Planned, Stage, OptionalStage
<1>2. /\ Rank[StateOf["prepare_target"]] = 1 /\ Rank[StateOf["git"]] = 2
      /\ Rank[StateOf["lfs"]] = 3 /\ Rank[StateOf["metadata"]] = 4
      /\ Rank[StateOf["platform_data"]] = 5 /\ Rank[StateOf["verify"]] = 6
  BY DEF Rank, StateOf, Open, InFlight, Stage
<1>. QED BY <1>1, <1>2 DEF Before, Stage

\* The planned stages before the next one are those up to the current one.
LEMMA FollowsSplits ==
  ASSUME NEW s \in Stage, NEW n \in Stage, Follows(s, n)
  PROVE  /\ n \in Planned
         /\ \A m \in Stage : m \in Planned /\ Before(m, n) <=> m \in Planned /\ ~Before(s, m)
BY PlanOrder DEF Follows, Before

\* An append adds one line, of the attempt the task is in.
LEMMA AppendLogs ==
  ASSUME NEW t, NEW s, NEW tr, Append(t, s, tr), attempt' = attempt
  PROVE  /\ checkpoints \subseteq checkpoints'
         /\ Logged(t, s, tr)'
         /\ \A u, n, x : Logged(u, n, x)' =>
              Logged(u, n, x) \/ (u = t /\ n = s /\ x = tr)
BY DEF Append, Logged

\* Lines other than "started" change neither what was begun nor the order of it.
LEMMA OtherAppend ==
  ASSUME Context, LogInv, NEW t \in Task, NEW s \in Stage, NEW tr \in Transition,
         tr # "started", Append(t, s, tr), attempt' = attempt
  PROVE  /\ \A u \in Task, n \in Stage : Started(u, n)' <=> Started(u, n)
         /\ LogOfThePast' /\ StartsInOrder'
<1>1. \A u \in Task, n \in Stage : Started(u, n)' <=> Started(u, n)
  BY DEF Started, Logged, Append
<1>2. LogOfThePast'
  BY DEF LogInv, LogOfThePast, Append, Context, Base, TypeOK, RowTypes
<1>3. StartsInOrder'
  BY DEF LogInv, StartsInOrder, Append
<1>. QED BY <1>1, <1>2, <1>3

\* A step that writes no row keeps what only the rows and the log say.
LEMMA RowsKeep ==
  ASSUME LogInv, UNCHANGED <<status, attempt, checkpoints>>
  PROVE  /\ LogOfThePast' /\ WaitingUnstarted' /\ StartsInOrder' /\ ResultIsLogged'
         /\ \A t, s : Started(t, s)' <=> Started(t, s)
<1>1. \A t, s, x : Logged(t, s, x)' <=> Logged(t, s, x)
  BY DEF Logged
<1>. QED BY <1>1 DEF LogInv, LogOfThePast, WaitingUnstarted, StartsInOrder, ResultIsLogged, Started

-----------------------------------------------------------------------------
(***************************************************************************)
(* LogInv holds in every reachable state.                                  *)
(***************************************************************************)

\* Claim starts at the first stage of a task that has begun none.
LEMMA ClaimKeepsLog ==
  ASSUME Context, LogInv, NEW w \in Worker, Claim(w)
  PROVE  LogInv'
<1>. USE Workers DEF Context, Base, TypeOK
<1>1. PICK t \in Claimable : job' = [job EXCEPT ![w] = t]
  BY DEF Claim
<1>2. t \in Task /\ status[t] = "planned" /\ UNCHANGED <<status, attempt, checkpoints>>
  BY <1>1 DEF Claim, Claimable
<1>3. /\ \A v \in Worker \ {w} :
           pc'[v] = pc[v] /\ stage'[v] = stage[v] /\ outcome'[v] = outcome[v] /\ job'[v] = job[v]
      /\ pc'[w] \in {"guard", "fail"} /\ (pc'[w] = "guard" => stage'[w] = "prepare_target")
      /\ job'[w] = t
  BY <1>1 DEF Claim, ThreadTypes
<1>4. \A s \in Stage : ~Started(t, s) /\ ~Before(s, "prepare_target")
  BY <1>2, PlanOrder DEF LogInv, WaitingUnstarted
<1>5. StartedSoFar'
  BY <1>2, <1>3, <1>4, RowsKeep, PlanOrder DEF LogInv, StartedSoFar
<1>. QED BY <1>2, <1>5, RowsKeep DEF LogInv

\* begin_stage adds the stage its worker has come to.
LEMMA BeginKeepsLog ==
  ASSUME Context, LogInv, NEW w \in Worker, Begin(w)
  PROVE  LogInv'
<1>. USE Workers DEF Context, Base, TypeOK
<1>. DEFINE t == job[w]  s == stage[w]
<1>1. /\ t \in Task /\ s \in Planned /\ s \in Stage /\ status[t] \in Open
      /\ \A n \in Stage : Started(t, n) <=> n \in Planned /\ Before(n, s)
  BY PlanOrder DEF Begin, JobIffBusy, Busy, LogInv, StartedSoFar, Ownership
<1>2. /\ Append(t, s, "started") /\ UNCHANGED <<attempt, job, stage, outcome>>
      /\ pc' = [pc EXCEPT ![w] = "run"] /\ status' = [status EXCEPT ![t] = StateOf[s]]
  BY <1>1 DEF Begin, L!Acquirable, Ownership
<1>3. \A u \in Task, n \in Stage : Started(u, n)' <=> Started(u, n) \/ (u = t /\ n = s)
  BY <1>2 DEF Started, Logged, Append
<1>4. LogOfThePast'
  BY <1>1, <1>2 DEF LogInv, LogOfThePast, Append, RowTypes
<1>5. WaitingUnstarted'
  BY <1>1, <1>2, <1>3, StateOfType, StatusClasses DEF LogInv, WaitingUnstarted, RowTypes
<1>6. StartedSoFar'
  <2>1. \A v \in Worker \ {w} : job[v] # t /\ pc'[v] = pc[v]
    BY <1>1, <1>2 DEF ExclusiveJob, ThreadTypes
  <2>2. \A n \in Stage : n \in Planned /\ ~Before(s, n) <=> n \in Planned /\ (Before(n, s) \/ n = s)
    BY <1>1, PlanOrder
  <2>3. pc'[w] = "run" /\ \A n \in Stage : Started(t, n)' <=> n \in Planned /\ ~Before(s, n)
    BY <1>1, <1>2, <1>3, <2>2 DEF ThreadTypes
  <2>. QED BY <1>1, <1>2, <1>3, <2>1, <2>3, PlanOrder DEF LogInv, StartedSoFar
<1>7. StartsInOrder'
  <2>1. ASSUME NEW c \in checkpoints', c.transition = "started", NEW m \in Planned,
               Before(m, c.stage)
        PROVE  [c EXCEPT !.stage = m] \in checkpoints'
    <3>1. CASE c \in checkpoints
      BY <1>2, <2>1, <3>1 DEF LogInv, StartsInOrder, Append
    <3>2. CASE c = [task |-> t, attempt |-> attempt[t], stage |-> s, transition |-> "started"]
      <4>1. Started(t, m)
        BY <1>1, <2>1, <3>2, PlanOrder
      <4>. QED BY <1>2, <3>2, <4>1 DEF Started, Logged, Append
    <3>. QED BY <1>2, <2>1, <3>1, <3>2 DEF Append
  <2>. QED BY <2>1 DEF StartsInOrder
<1>8. ResultIsLogged'
  <2>1. \A u \in Task : status'[u] \in Settled => status'[u] = status[u]
    BY <1>1, <1>2, StateOfType, StatusClasses DEF RowTypes
  <2>2. \A u, n, x : Logged(u, n, x) => Logged(u, n, x)'
    BY <1>2 DEF Logged, Append
  <2>. QED BY <2>1, <2>2, StatusClasses DEF LogInv, ResultIsLogged, Done, Settled
<1>. QED BY <1>4, <1>5, <1>6, <1>7, <1>8 DEF LogInv

\* The steps of a worker that write no line: the guard and the work of a stage.
LEMMA WorkKeepsLog ==
  ASSUME Context, LogInv, NEW w \in Worker,
         Guard(w) \/ WorkFails(w) \/ WorkSkips(w) \/ WorkSucceeds(w) \/ WorkVerifies(w)
  PROVE  LogInv'
<1>. USE Workers DEF Context, Base, TypeOK
<1>1. job' = job /\ UNCHANGED <<status, attempt, checkpoints>>
  BY DEF Guard, WorkFails, WorkSkips, WorkSucceeds, WorkVerifies, rows
<1>2. \A v \in Worker \ {w} :
        pc'[v] = pc[v] /\ stage'[v] = stage[v] /\ outcome'[v] = outcome[v]
  BY DEF Guard, WorkFails, WorkSkips, WorkSucceeds, WorkVerifies, NextStage, ThreadTypes
<1>3. StartedSoFar'
  <2>1. CASE Guard(w)
    <3>1. pc[w] = "guard" /\ ((pc'[w] = "begin" /\ stage'[w] = stage[w]) \/ pc'[w] = "fail")
      BY <2>1 DEF Guard, ThreadTypes
    <3>. QED BY <1>1, <1>2, <3>1, RowsKeep DEF LogInv, StartedSoFar
  <2>2. CASE WorkFails(w)
    <3>1. pc'[w] = "fail"
      BY <2>2 DEF WorkFails, ThreadTypes
    <3>. QED BY <1>1, <1>2, <3>1, RowsKeep DEF LogInv, StartedSoFar
  <2>3. CASE WorkSkips(w)
    <3>1. pc'[w] = "complete" /\ outcome'[w] = "skipped"
      BY <2>3 DEF WorkSkips, ThreadTypes
    <3>. QED BY <1>1, <1>2, <3>1, RowsKeep DEF LogInv, StartedSoFar
  <2>4. CASE WorkSucceeds(w)
    <3>1. pc[w] = "run"
      BY <2>4 DEF WorkSucceeds
    <3>2. CASE pc'[w] = "report" /\ stage'[w] = stage[w]
      BY <1>1, <1>2, <3>1, <3>2, RowsKeep DEF LogInv, StartedSoFar
    <3>3. CASE NextStage(w)
      <4>1. pc'[w] = "guard" /\ stage'[w] \in Stage /\ Follows(stage[w], stage'[w])
        BY <3>3 DEF NextStage, ThreadTypes
      <4>2. /\ stage'[w] \in Planned
            /\ \A m \in Stage :
                 m \in Planned /\ Before(m, stage'[w]) <=> m \in Planned /\ ~Before(stage[w], m)
        BY <4>1, FollowsSplits DEF ThreadTypes
      <4>. QED BY <1>1, <1>2, <3>1, <4>1, <4>2, RowsKeep DEF LogInv, StartedSoFar
    <3>. QED BY <2>4, <3>2, <3>3 DEF WorkSucceeds, ThreadTypes
  <2>5. CASE WorkVerifies(w)
    <3>1. pc[w] = "run" /\ stage[w] = "verify" /\ pc'[w] = "complete"
      BY <2>5 DEF WorkVerifies, ThreadTypes
    <3>2. job[w] \in Task => \A s \in Planned : Started(job[w], s)
      BY <3>1, PlanOrder DEF LogInv, StartedSoFar
    <3>. QED BY <1>1, <1>2, <3>1, <3>2, RowsKeep DEF LogInv, StartedSoFar
  <2>. QED BY <2>1, <2>2, <2>3, <2>4, <2>5
<1>. QED BY <1>1, <1>3, RowsKeep DEF LogInv

\* report_progress adds a "heartbeat" line and may turn to the next stage.
LEMMA ReportKeepsLog ==
  ASSUME Context, LogInv, NEW w \in Worker, Report(w)
  PROVE  LogInv'
<1>. USE Workers DEF Context, Base, TypeOK
<1>1. job[w] \in Task /\ UNCHANGED <<job, status, attempt>> /\ stage[w] \in Stage
  BY DEF Report, JobIffBusy, Busy, ThreadTypes
<1>2. \A v \in Worker \ {w} :
        pc'[v] = pc[v] /\ stage'[v] = stage[v] /\ outcome'[v] = outcome[v]
  BY DEF Report, NextStage, ThreadTypes
<1>3. /\ \A u \in Task, n \in Stage : Started(u, n)' <=> Started(u, n)
      /\ LogOfThePast' /\ StartsInOrder' /\ checkpoints \subseteq checkpoints'
  <2>1. CASE Append(job[w], stage[w], "heartbeat")
    BY <1>1, <2>1, OtherAppend, Names DEF Append
  <2>2. CASE checkpoints' = checkpoints
    BY <1>1, <2>2, RowsKeep
  <2>. QED BY <2>1, <2>2 DEF Report
<1>4. StartedSoFar'
  <2>1. pc[w] = "report"
    BY DEF Report
  <2>2. CASE pc'[w] = "run" /\ stage'[w] = stage[w]
    BY <1>1, <1>2, <1>3, <2>1, <2>2, PlanOrder DEF LogInv, StartedSoFar
  <2>3. CASE NextStage(w)
    <3>1. pc'[w] = "guard" /\ stage'[w] \in Stage /\ Follows(stage[w], stage'[w])
      BY <2>3 DEF NextStage, ThreadTypes
    <3>2. /\ stage'[w] \in Planned
          /\ \A m \in Stage :
               m \in Planned /\ Before(m, stage'[w]) <=> m \in Planned /\ ~Before(stage[w], m)
      BY <1>1, <3>1, FollowsSplits
    <3>. QED BY <1>1, <1>2, <1>3, <2>1, <3>1, <3>2, PlanOrder DEF LogInv, StartedSoFar
  <2>4. CASE pc'[w] = "fail"
    BY <1>1, <1>2, <1>3, <2>4, PlanOrder DEF LogInv, StartedSoFar
  <2>. QED BY <2>2, <2>3, <2>4 DEF Report, ThreadTypes
<1>5. WaitingUnstarted'
  BY <1>1, <1>3 DEF LogInv, WaitingUnstarted
<1>6. ResultIsLogged'
  BY <1>1, <1>3 DEF LogInv, ResultIsLogged, Logged
<1>. QED BY <1>3, <1>4, <1>5, <1>6 DEF LogInv

\* A result is written together with its line, for a task that is still open.
LEMMA ResultKeepsLog ==
  ASSUME Context, LogInv, NEW w \in Worker, Fail(w) \/ Complete(w)
  PROVE  LogInv'
<1>. USE Workers DEF Context, Base, TypeOK
<1>0. PICK t \in Task : t = job[w]
  BY DEF Fail, Complete, JobIffBusy, Busy
<1>1. t = job[w] /\ status[t] \in Open /\ attempt' = attempt /\ stage[w] \in Stage
  BY <1>0 DEF Fail, Complete, Ownership, ThreadTypes
<1>2. \A v \in Worker \ {w} :
        /\ pc'[v] = pc[v] /\ stage'[v] = stage[v] /\ outcome'[v] = outcome[v]
        /\ job'[v] = job[v] /\ job[v] # t
  BY <1>1 DEF Fail, Complete, BackToLoop, ThreadTypes, ExclusiveJob
<1>3. pc'[w] \in {"idle", "fail"} /\ job'[w] \in {NoTask, t}
      /\ (pc'[w] = "idle" => job'[w] = NoTask)
  BY <1>0 DEF Fail, Complete, BackToLoop, ThreadTypes
<1>4. CASE UNCHANGED <<status, checkpoints>>
  <2>1. StartedSoFar'
    BY <1>1, <1>2, <1>3, <1>4, RowsKeep DEF LogInv, StartedSoFar
  <2>. QED BY <1>1, <1>4, <2>1, RowsKeep DEF LogInv
<1>5. CASE L!Held(lease[t], w)
  <2>1. PICK n \in Stage, tr \in {"failed", "succeeded"}, r \in Settled :
          /\ Append(t, n, tr)
          /\ status' = [status EXCEPT ![t] = r]
          /\ r \in {"succeeded", "partial"} =>
               n = "verify" /\ tr = "succeeded" /\ \A m \in Planned : Started(t, m)
    <3>1. CASE Fail(w)
      <4>1. /\ Append(t, stage[w], "failed")
            /\ status' = [status EXCEPT ![t] = StatusAfterError(outcome[w])]
        BY <1>1, <1>5, <3>1 DEF Fail
      <4>2. StatusAfterError(outcome[w]) \in Settled \ {"succeeded", "partial"}
        BY <3>1, ResultsAreSettled DEF Fail, OutcomeReady
      <4>. QED BY <1>1, <4>1, <4>2
    <3>2. CASE Complete(w)
      <4>1. StatusAfterVerdict(outcome[w]) \in Settled
        BY <3>2, ResultsAreSettled DEF Complete, OutcomeReady
      <4>2. StatusAfterVerdict(outcome[w]) \in {"succeeded", "partial"} =>
              \A m \in Planned : Started(t, m)
        BY <1>1, <3>2 DEF Complete, StatusAfterVerdict, LogInv, StartedSoFar
      <4>3. /\ Append(t, "verify", "succeeded")
            /\ status' = [status EXCEPT ![t] = StatusAfterVerdict(outcome[w])]
        BY <1>1, <1>5, <3>2 DEF Complete
      <4>. QED BY <4>1, <4>2, <4>3, Names
    <3>. QED BY <3>1, <3>2
  <2>2. /\ \A u \in Task, m \in Stage : Started(u, m)' <=> Started(u, m)
        /\ LogOfThePast' /\ StartsInOrder'
    BY <1>1, <2>1, OtherAppend, Names
  <2>3. /\ \A u, m, x : Logged(u, m, x) => Logged(u, m, x)'
        /\ Logged(t, n, tr)'
    BY <1>1, <2>1 DEF Logged, Append
  <2>4. WaitingUnstarted'
    BY <1>1, <2>1, <2>2, StatusClasses DEF LogInv, WaitingUnstarted, RowTypes
  <2>5. StartedSoFar'
    BY <1>2, <1>3, <2>2, PlanOrder DEF LogInv, StartedSoFar
  <2>6. ResultIsLogged'
    <3>1. ASSUME NEW u \in Task, u # t
          PROVE  status'[u] = status[u]
      BY <2>1, <3>1 DEF RowTypes
    <3>2. status'[t] = r
      BY <1>1, <2>1 DEF RowTypes
    <3>3. r \in {"succeeded", "partial"} =>
            Logged(t, "verify", "succeeded")' /\ \A m \in Planned : Logged(t, m, "started")'
      BY <1>1, <2>1, <2>3 DEF Started
    <3>. QED BY <2>1, <2>3, <3>1, <3>2, <3>3 DEF LogInv, ResultIsLogged
  <2>. QED BY <2>2, <2>4, <2>5, <2>6 DEF LogInv
<1>. QED BY <1>1, <1>4, <1>5 DEF Fail, Complete

\* A retry opens an attempt nothing is logged of, for a task no worker is at.
LEMMA RetryKeepsLog ==
  ASSUME Context, LogInv, Retry
  PROVE  LogInv'
<1>. USE Workers DEF Context, Base, TypeOK
<1>1. PICK S \in SUBSET Task :
        /\ \A t \in S : status[t] = "retryable_failed"
        /\ status' = [t \in Task |-> IF t \in S THEN "planned" ELSE status[t]]
        /\ attempt' = [t \in Task |-> IF t \in S THEN attempt[t] + 1 ELSE attempt[t]]
  BY DEF Retry, Retryable
<1>2. UNCHANGED <<checkpoints, pc, job, stage, outcome>>
  BY DEF Retry, threads
<1>3. \A t \in S : \A s, x : ~Logged(t, s, x)'
  BY <1>1, <1>2 DEF Logged, LogInv, LogOfThePast, RowTypes
<1>4. \A t \in Task \ S : status'[t] = status[t] /\ \A s, x : Logged(t, s, x)' <=> Logged(t, s, x)
  BY <1>1, <1>2 DEF Logged
<1>5. LogOfThePast'
  <2>1. \A t \in Task : attempt[t] <= attempt'[t]
    BY <1>1 DEF RowTypes
  <2>2. \A c \in checkpoints : c.task \in Task /\ c.attempt \in Nat
    BY DEF RowTypes, Checkpoint
  <2>3. \A t \in Task : attempt[t] \in Nat /\ attempt'[t] \in Nat
    BY <1>1 DEF RowTypes
  <2>. QED BY <1>2, <2>1, <2>2, <2>3 DEF LogInv, LogOfThePast
<1>6. WaitingUnstarted'
  BY <1>3, <1>4 DEF LogInv, WaitingUnstarted, Started
<1>7. StartedSoFar'
  <2>1. \A w \in Worker : job[w] \in Task => job[w] \in Task \ S
    BY <1>1, StatusClasses DEF Ownership
  <2>. QED BY <1>2, <1>4, <2>1, PlanOrder DEF LogInv, StartedSoFar, Started
<1>8. StartsInOrder'
  BY <1>2 DEF LogInv, StartsInOrder
<1>9. ResultIsLogged'
  <2>1. \A t \in S : status'[t] = "planned"
    BY <1>1
  <2>. QED BY <1>4, <2>1, StatusClasses DEF LogInv, ResultIsLogged, Settled, Done
<1>. QED BY <1>5, <1>6, <1>7, <1>8, <1>9 DEF LogInv

\* Every step of the queue keeps the log in line.
LEMMA LogStep == Context /\ LogInv /\ [Next]_vars => LogInv'
<1>. SUFFICES ASSUME Context, LogInv, [Next]_vars PROVE LogInv'
  OBVIOUS
<1>. USE Workers DEF Context, Base, TypeOK
<1>1. ASSUME NEW w \in Worker, Build(w) \/ Leave(w) \/ Exit(w) PROVE LogInv'
  <2>1. UNCHANGED <<job, status, attempt, checkpoints, stage, outcome>>
    BY <1>1 DEF Build, Leave, Exit, rows
  <2>2. pc'[w] \in {"idle", "exit", "off"} /\ \A v \in Worker \ {w} : pc'[v] = pc[v]
    BY <1>1 DEF Build, Leave, Exit, ThreadTypes
  <2>3. StartedSoFar'
    BY <2>1, <2>2, RowsKeep DEF LogInv, StartedSoFar
  <2>. QED BY <2>1, <2>3, RowsKeep DEF LogInv
<1>2. CASE Launch
  <2>1. UNCHANGED <<job, status, attempt, checkpoints, stage, outcome>>
    BY <1>2 DEF Launch, rows
  <2>2. \A v \in Worker : pc'[v] = pc[v] \/ pc'[v] = "start"
    BY <1>2 DEF Launch
  <2>3. StartedSoFar'
    BY <2>1, <2>2, RowsKeep DEF LogInv, StartedSoFar
  <2>. QED BY <2>1, <2>3, RowsKeep DEF LogInv
<1>3. CASE Pause \/ Resume \/ Cancel \/ RaiseFlag \/ Tick \/ UNCHANGED vars
  <2>1. UNCHANGED <<job, status, attempt, checkpoints, stage, outcome, pc>>
    BY <1>3 DEF Pause, Resume, Cancel, RaiseFlag, Tick, vars, rows, threads
  <2>2. StartedSoFar'
    BY <2>1, RowsKeep DEF LogInv, StartedSoFar
  <2>. QED BY <2>1, <2>2, RowsKeep DEF LogInv
<1>4. CASE Crash
  <2>1. UNCHANGED <<status, attempt, checkpoints>> /\ \A w \in Worker : job'[w] \notin Task
    BY <1>4 DEF Crash, rows
  <2>2. StartedSoFar'
    BY <2>1 DEF StartedSoFar
  <2>. QED BY <2>1, <2>2, RowsKeep DEF LogInv
<1>. QED BY <1>1, <1>2, <1>3, <1>4, ClaimKeepsLog, BeginKeepsLog, WorkKeepsLog, ReportKeepsLog,
            ResultKeepsLog, RetryKeepsLog
     DEF Next, Command, WorkerStep

\* A fresh batch has an empty log and no worker at work.
LEMMA LogInit == Init => LogInv
BY Workers, StatusClasses
   DEF Init, LogInv, LogOfThePast, WaitingUnstarted, StartedSoFar, StartsInOrder, ResultIsLogged,
       Started, Logged, Settled, Done

\* The log is in line with rows and threads in every reachable state.
LEMMA LogInvariant == SafeStart => (Spec => [](Context /\ LogInv))
<1>1. Base /\ Ownership => Context
  BY OwnershipExcludes DEF Context
<1>. SUFFICES ASSUME SafeStart PROVE Spec => [](Context /\ LogInv)
  OBVIOUS
<1>. QED BY BaseInvariant, OwnershipInvariant, <1>1, LogInit, LogStep, PTL DEF Spec

-----------------------------------------------------------------------------
(***************************************************************************)
(* What the log is worth.                                                  *)
(***************************************************************************)

\* The log of every attempt is a prefix of the plan: wherever a worker was
\* paused, crashed, lost its lease or was retried, no stage is begun before the
\* planned stages ahead of it.
THEOREM LogIsPlanPrefix == SafeStart => (Spec => []StartsInOrder)
<1>1. LogInv => StartsInOrder
  BY DEF LogInv
<1>. SUFFICES ASSUME SafeStart PROVE Spec => []StartsInOrder
  OBVIOUS
<1>. QED BY LogInvariant, <1>1, PTL

\* A settled row has its line of the same attempt in the log, and a repository
\* reported as migrated has been through every stage of the plan and a
\* verification of that attempt.
THEOREM SettledIsLogged == SafeStart => (Spec => []ResultIsLogged)
<1>1. LogInv => ResultIsLogged
  BY DEF LogInv
<1>. SUFFICES ASSUME SafeStart PROVE Spec => []ResultIsLogged
  OBVIOUS
<1>. QED BY LogInvariant, <1>1, PTL

\* No stage is begun twice within an attempt: a worker that is about to begin one
\* is the first to do so.
THEOREM NoStageRedone == SafeStart => (Spec => StageBegunOncePerAttempt)
<1>1. Context /\ LogInv /\ [Next]_vars =>
        [\A w \in Worker : pc[w] = "begin" /\ pc'[w] = "run" =>
           ~Logged(job[w], stage[w], "started")]_vars
  <2>. SUFFICES ASSUME Context, LogInv, NEW w \in Worker, pc[w] = "begin"
                PROVE  ~Started(job[w], stage[w])
    BY DEF Started
  <2>1. job[w] \in Task /\ stage[w] \in Stage
    BY DEF Context, Base, JobIffBusy, Busy, TypeOK, ThreadTypes
  <2>. QED BY <2>1, PlanOrder DEF LogInv, StartedSoFar
<1>. SUFFICES ASSUME SafeStart PROVE Spec => StageBegunOncePerAttempt
  OBVIOUS
<1>. QED BY LogInvariant, <1>1, PTL DEF Spec, StageBegunOncePerAttempt

-----------------------------------------------------------------------------
(***************************************************************************)
(* Results while no lease runs out.                                        *)
(***************************************************************************)

\* The lease of a busy worker is unexpired.
LeaseKept == \A w \in Worker : job[w] \in Task => lease[job[w]].left > 0

\* Without the clock no step but the owner's release takes a lease away.
LEMMA LeaseKeptStep ==
  "tick" \notin Events /\ Context /\ LeaseKept /\ [Next]_vars => LeaseKept'
<1>. SUFFICES ASSUME "tick" \notin Events, Context, LeaseKept, [Next]_vars PROVE LeaseKept'
  OBVIOUS
<1>. USE Workers DEF Context, Base, TypeOK
<1>1. ASSUME NEW w \in Worker, Claim(w) PROVE LeaseKept'
  <2>1. PICK t \in Claimable : /\ lease' = [lease EXCEPT ![t] = L!Fresh(w)]
                               /\ job' = [job EXCEPT ![w] = t]
    BY <1>1 DEF Claim
  <2>. QED BY <2>1, LeaseOps DEF LeaseKept, Claimable, RowTypes, ThreadTypes
<1>2. ASSUME NEW w \in Worker, Begin(w) \/ Report(w) PROVE LeaseKept'
  <2>1. job' = job /\ job[w] \in Task
    BY <1>2 DEF Begin, Report, JobIffBusy, Busy
  <2>2. lease' = lease \/ lease' = [lease EXCEPT ![job[w]] = L!Fresh(w)]
    BY <1>2 DEF Begin, Report
  <2>. QED BY <2>1, <2>2, LeaseOps DEF LeaseKept, RowTypes
<1>3. ASSUME NEW w \in Worker, Fail(w) \/ Complete(w) PROVE LeaseKept'
  <2>1. job[w] \in Task /\ L!Held(lease[job[w]], w)
    BY <1>3 DEF Fail, Complete, JobIffBusy, Busy, Ownership, LeaseKept, L!Held
  <2>2. job' = [job EXCEPT ![w] = NoTask]
    BY <1>3, <2>1 DEF Fail, Complete, BackToLoop
  <2>3. \A u \in Task \ {job[w]} : lease'[u] = lease[u]
    BY <1>3, <2>1 DEF Fail, Complete, RowTypes
  <2>. QED BY <2>1, <2>2, <2>3 DEF LeaseKept, ThreadTypes, ExclusiveJob
<1>4. ASSUME NEW w \in Worker, WorkerStep(w),
             ~(Claim(w) \/ Begin(w) \/ Report(w) \/ Fail(w) \/ Complete(w))
      PROVE  LeaseKept'
  BY <1>4 DEF WorkerStep, Build, Leave, Exit, Guard, WorkFails, WorkSkips, WorkSucceeds,
     WorkVerifies, rows, LeaseKept
<1>5. CASE Retry
  <2>1. PICK S \in SUBSET Task :
          /\ \A t \in S : status[t] = "retryable_failed"
          /\ lease' = [t \in Task |-> IF t \in S THEN L!NoLease ELSE lease[t]]
    BY <1>5 DEF Retry, Retryable
  <2>2. job' = job
    BY <1>5 DEF Retry, threads
  <2>. QED BY <2>1, <2>2, StatusClasses DEF LeaseKept, Ownership
<1>6. CASE Pause \/ Resume \/ Cancel \/ Launch \/ RaiseFlag \/ UNCHANGED vars
  BY <1>6 DEF Pause, Resume, Cancel, Launch, RaiseFlag, vars, rows, threads, LeaseKept
<1>7. CASE Tick
  BY <1>7 DEF Tick
<1>8. CASE Crash
  BY <1>8 DEF Crash, LeaseKept
<1>. QED BY <1>1, <1>2, <1>3, <1>4, <1>5, <1>6, <1>7, <1>8 DEF Next, Command

\* As long as no lease runs out, a worker that returns to its loop leaves a settled
\* task behind: nothing it does makes the store refuse its result.
THEOREM EveryRunRecorded == "tick" \notin Events => (Spec => RunRecordsOutcome)
<1>1. Init => LeaseKept
  BY Workers DEF Init, LeaseKept
<1>2. "tick" \notin Events => SafeStart
  BY DEF SafeStart
<1>3. Context /\ LeaseKept /\ [Next]_vars =>
        [\A w \in Worker : pc[w] \in Busy /\ pc'[w] = "idle" => status'[job[w]] \in Settled]_vars
  <2>. SUFFICES ASSUME Context, LeaseKept, Next, NEW w \in Worker,
                       pc[w] \in Busy, pc'[w] = "idle"
                PROVE  status'[job[w]] \in Settled
    BY DEF vars
  <2>. USE Workers DEF Context, Base, TypeOK
  <2>1. Fail(w) \/ Complete(w)
    <3>1. \A v \in Worker : WorkerStep(v) /\ v # w => pc'[w] = pc[w]
      BY DEF WorkerStep, Build, Claim, Leave, Exit, Guard, Begin, WorkFails, WorkSkips,
         WorkSucceeds, WorkVerifies, Report, NextStage, Fail, Complete, BackToLoop, ThreadTypes
    <3>2. WorkerStep(w) => Fail(w) \/ Complete(w)
      BY DEF Busy, WorkerStep, Build, Claim, Leave, Exit, Guard, Begin, WorkFails, WorkSkips,
         WorkSucceeds, WorkVerifies, Report, NextStage, ThreadTypes
    <3>3. ~(Command \/ Launch \/ RaiseFlag \/ Tick \/ Crash)
      BY DEF Busy, Command, Pause, Resume, Cancel, Retry, Launch, RaiseFlag, Tick, Crash, threads
    <3>. QED BY <3>1, <3>2, <3>3 DEF Next, Busy
  <2>2. job[w] \in Task /\ L!Held(lease[job[w]], w)
    BY DEF JobIffBusy, Ownership, LeaseKept, L!Held
  <2>3. CASE Fail(w)
    BY <2>2, <2>3, ResultsAreSettled DEF Fail, OutcomeReady, RowTypes
  <2>4. CASE Complete(w)
    BY <2>2, <2>4, ResultsAreSettled DEF Complete, OutcomeReady, RowTypes
  <2>. QED BY <2>1, <2>3, <2>4
<1>. SUFFICES ASSUME "tick" \notin Events PROVE Spec => RunRecordsOutcome
  OBVIOUS
<1>. QED BY LogInvariant, LeaseKeptStep, <1>1, <1>2, <1>3, PTL DEF Spec, RunRecordsOutcome
=============================================================================
