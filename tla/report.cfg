SPECIFICATION Spec
CONSTANTS
  t1 = t1
  t2 = t2
  Task = {t1, t2}
  Skips = {t2}
  Work = {"platform_data"}
  Error <- Errors
  Verdict = {"succeeded", "skipped", "retryable_failed"}
  Retries <- Twice
  Steps = 2
  MaxCrash = 1
  NONE = NONE
INVARIANTS
  SuccessShowsItsVerification
  StageErrorIsOfThisFailure
  RetryJudgesThisFailure
  CountersHeal
PROPERTIES
  FinishedLineIsFinal
CHECK_DEADLOCK FALSE
