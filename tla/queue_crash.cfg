SPECIFICATION FairSpec
CONSTANTS
  Task = {1, 2}
  Concurrency = 2
  TTL = 1
  Selected = {}
  Reports <- OneReport
  Faults = {"transient"}
  MaxAttempt = 0
  Events = {"pause", "resume", "cancel", "tick", "crash"}
  PromptStart = TRUE
  Spawns <- FullSpawn
INVARIANTS
  ExclusiveJob
  RollupExact
  EndedIffOver
  NoOpenBatchWithoutWork
  InFlightIsRecoverable
  PoolExact
  AtMostOneLateStage
PROPERTIES
  NoThreadReplaced
  StopDrains
  ImplementsLifecycle
CHECK_DEADLOCK FALSE
