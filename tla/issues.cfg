SPECIFICATION FairSpec
CONSTANTS
  NONE = NONE
  MaxAttempts = 2
  MaxLost = 2
  Source <- TwoIssues
  Routes = {"native", "archive", "unsupported"}
  MaxRuns = 2
INVARIANTS
  TypeOK
  CopiesAreLostAnswers
  ClaimsAreThere
  ArchiveIsOnDisk
PROPERTIES
  EveryAttemptEnds
CHECK_DEADLOCK FALSE
