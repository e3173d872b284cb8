SPECIFICATION Spec
CONSTANTS
  ProtectFirst = 1
  ProtectLast = 1
  MaxCalls = 2
  MaxLog = 7
  MaxCommands = 1
  Faults = TRUE
INVARIANTS
  ContextIsPaired
  NothingIsLost
  GroupsFoldTogether
CHECK_DEADLOCK FALSE
