SPECIFICATION Spec
CONSTANTS
  Ref = {r1}
  PrivateRef = {p}
  Plan <- AllPlans
  Gateway = {"contract", "api", "github", "gitee", "generic"}
  Outages = TRUE
  Strangers = {"between", "always"}
  MaxAttempt = 2
  MaxVersion = 2
INVARIANTS
  PrivateRefsStay
  FirstAttemptSpares
  OwnTargetNotSkipped
PROPERTIES
  MigratedIsCurrent
CHECK_DEADLOCK FALSE
