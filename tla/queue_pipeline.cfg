SPECIFICATION Spec
CONSTANTS
  Task = {1}
  Concurrency = 1
  TTL = 1
  Selected = {"lfs", "metadata", "platform_data"}
  Reports <- AllReports
  Faults = {"transient", "permanent", "conflict"}
  MaxAttempt = 1
  Events = {"pause", "resume", "cancel", "retry", "crash", "tick"}
  PromptStart = TRUE
  Spawns <- AnySpawn
INVARIANTS
  StartsInOrder
PROPERTIES
  ImplementsLifecycle
CHECK_DEADLOCK FALSE
