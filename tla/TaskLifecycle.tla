--------------------------- MODULE TaskLifecycle ---------------------------
(***************************************************************************)
(* What the migration queue promises about one batch, with no lease, no    *)
(* thread and no database in sight:                                        *)
(*   - a task is executed by at most one executor at a time, and only a    *)
(*     running batch hands a task out;                                     *)
(*   - within an attempt a task only moves forward through the stages;     *)
(*   - a settled task moves again only by a retry, which is a new attempt  *)
(*     and is possible only for retryable_failed;                          *)
(*   - "succeeded" and "partial" are reached from verification only;       *)
(*   - the batch completes exactly when its last open task settles, and a  *)
(*     cancelled batch stays cancelled.                                    *)
(* MigrationQueue is shown to implement this specification.                *)
(***************************************************************************)
EXTENDS TaskStates

CONSTANT Task

VARIABLES
  status,   \* status of each task
  attempt,  \* attempt number of each task
  control,  \* control state of the batch
  active    \* tasks an executor is working on

vars == <<status, attempt, control, active>>

AllSettled(st) == \A t \in Task : st[t] \in Settled

Init ==
  /\ status  = [t \in Task |-> "planned"]
  /\ attempt = [t \in Task |-> 0]
  /\ control = "running"
  /\ active  = {}

\* A running batch hands out a planned task nobody executes.
Take(t) ==
  /\ control = "running"
  /\ status[t] = "planned"
  /\ t \notin active
  /\ active' = active \cup {t}
  /\ UNCHANGED <<status, attempt, control>>

\* The executor enters a later stage.
Advance(t) ==
  /\ t \in active
  /\ status[t] \in Open
  /\ \E s \in InFlight :
       /\ Rank[status[t]] < Rank[s]
       /\ status' = [status EXCEPT ![t] = s]
  /\ UNCHANGED <<attempt, control, active>>

\* The executor records a result; the last result completes the batch.
Settle(t) ==
  /\ t \in active
  /\ status[t] \in Open
  /\ active' = active \ {t}
  /\ \E s \in Settled :
       /\ s \in {"succeeded", "partial"} => status[t] = "verifying"
       /\ status' = [status EXCEPT ![t] = s]
  /\ control' = IF control # "cancelled" /\ AllSettled(status')
                THEN "completed" ELSE control
  /\ UNCHANGED attempt

\* The executor gives up without a result: it lost its lease.
Abandon(t) ==
  /\ t \in active
  /\ active' = active \ {t}
  /\ UNCHANGED <<status, attempt, control>>

\* The process dies with every executor.
Crash ==
  /\ active' = {}
  /\ UNCHANGED <<status, attempt, control>>

\* The operator retries failed tasks; a completed batch reopens.
Requeue(S) ==
  /\ S # {}
  /\ control # "cancelled"
  /\ \A t \in S : status[t] = "retryable_failed" /\ t \notin active
  /\ status'  = [t \in Task |-> IF t \in S THEN "planned" ELSE status[t]]
  /\ attempt' = [t \in Task |-> IF t \in S THEN attempt[t] + 1 ELSE attempt[t]]
  /\ control' = IF control = "completed" THEN "running" ELSE control
  /\ UNCHANGED active

\* Pause, resume and cancel.
Steer(from, to) ==
  /\ control \in from
  /\ control' = to
  /\ UNCHANGED <<status, attempt, active>>

Next ==
  \/ \E t \in Task : Take(t) \/ Advance(t) \/ Settle(t) \/ Abandon(t)
  \/ Crash
  \/ \E S \in SUBSET Task : Requeue(S)
  \/ Steer({"running"}, "paused")
  \/ Steer({"paused"}, "running")
  \/ Steer({"running", "paused"}, "cancelled")

Spec == Init /\ [][Next]_vars
=============================================================================
