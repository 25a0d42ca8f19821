SPECIFICATION FairSpec
CONSTANTS
  MaxOutput = 3
  Capacity = 2
  MaxCommands = 2
INVARIANTS
  ReturnedAloneInTheMirror
  OkIsAllOfIt
PROPERTIES
  EveryRunReturns
CHECK_DEADLOCK FALSE
