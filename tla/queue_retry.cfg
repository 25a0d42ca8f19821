SPECIFICATION FairSpec
CONSTANTS
  Task = {1, 2}
  Concurrency = 2
  TTL = 1
  Selected = {}
  Reports <- OneReport
  Faults = {"transient"}
  MaxAttempt = 1
  Events = {"retry"}
  PromptStart = TRUE
  Spawns <- SomeSpawn
INVARIANTS
  ResultIsLogged
PROPERTIES
  StageBegunOncePerAttempt
  RunRecordsOutcome
  BatchCompletes
CHECK_DEADLOCK FALSE
