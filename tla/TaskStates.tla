----------------------------- MODULE TaskStates -----------------------------
(***************************************************************************)
(* The vocabulary the queue modules share: the values of the status column *)
(* of repository_task (domain RepoTaskState), the stages of the executor   *)
(* and the state each stage writes (state_for_stage in state.rs).          *)
(***************************************************************************)
EXTENDS Integers

\* The executor's stages, in the order run_stages and verify execute them.
Stage == {"prepare_target", "git", "lfs", "metadata", "platform_data", "verify"}
OptionalStage == {"lfs", "metadata", "platform_data"}

\* state_for_stage: the status a task shows while a stage runs.
StateOf == [s \in Stage |->
  CASE s = "prepare_target" -> "preparing"
    [] s = "git"            -> "git"
    [] s = "lfs"            -> "lfs"
    [] s = "metadata"       -> "metadata"
    [] s = "platform_data"  -> "platform_modules"
    [] s = "verify"         -> "verifying"]

InFlight == {"preparing", "git", "lfs", "metadata", "platform_modules", "verifying"}
Done     == {"succeeded", "partial", "skipped"}      \* counted in batch.completed
Settled  == Done \cup {"retryable_failed"}           \* aggregate_status is Some
Open     == {"planned"} \cup InFlight                \* still keeps the batch open
Status   == Open \cup Settled

\* Position of an open status in the pipeline.
Rank == [s \in Open |->
  CASE s = "planned"          -> 0
    [] s = "preparing"        -> 1
    [] s = "git"              -> 2
    [] s = "lfs"              -> 3
    [] s = "metadata"         -> 4
    [] s = "platform_modules" -> 5
    [] s = "verifying"        -> 6]

Control == {"running", "paused", "cancelled", "completed"}
=============================================================================
