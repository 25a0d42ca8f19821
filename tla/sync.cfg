SPECIFICATION FairSpec
CONSTANTS
  Call = {c1, c2}
  Worker = {w1, w2}
  MaxRevision = 3
  Lossy = TRUE
  Refusing = TRUE
INVARIANTS
  NeverSilentlyBehind
PROPERTIES
  ImplementsScreen
  OwnCommandIsSeen
CHECK_DEADLOCK FALSE
