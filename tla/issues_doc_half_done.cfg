SPECIFICATION Spec
CONSTANTS
  NONE = NONE
  MaxAttempts = 2
  MaxLost = 0
  Source <- TwoIssues
  Routes = {"native"}
  MaxRuns = 2
INVARIANTS
  HalfDoneIsCompleted
CHECK_DEADLOCK FALSE
