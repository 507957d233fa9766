CONSTANTS
  MaxAttempts = 2
  DoPortForwarding = FALSE
  HasLan = TRUE
  HasProxy = TRUE
  Budget = 4
SPECIFICATION Spec
CHECK_DEADLOCK FALSE
PROPERTIES
  ForcedCloseIsFinal
