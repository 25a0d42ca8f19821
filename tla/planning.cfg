SPECIFICATION Spec
CONSTANTS
  r1 = r1
  r2 = r2
  u1 = u1
  u2 = u2
  Repo = {r1, r2}
  Selection = {{r1, r2}}
  Archive = {FALSE}
  Imported = {r2}
  Granted = {"full_migration"}
  Born = {"empty"}
  Url = {u1, u2}
  Endpoint = {e1}
  Policy <- SkipOrOverwrite
  Choice <- Lfs
  Budget <- Round
  Unbounded = {}
  NONE = NONE
SYMMETRY Relabelled
INVARIANTS
  StateIsOfItsUrl
  BatchIsComplete
  OverwriteIsConfirmed
PROPERTIES
  DegradedIsAcknowledged
CHECK_DEADLOCK FALSE
