SPECIFICATION Spec
CONSTANTS
  Task = {1}
  Concurrency = 1
  TTL = 1
  Selected = {}
  Reports <- OneReport
  Faults = {"transient"}
  MaxAttempt = 0
  Events = {"pause", "resume"}
  PromptStart = TRUE
  Spawns <- FullSpawn
INVARIANTS
  NoLostWakeup
CHECK_DEADLOCK FALSE
