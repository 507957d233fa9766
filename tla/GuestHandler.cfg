CONSTANTS
  MaxAttempts = 2
  DoPortForwarding = FALSE
  HasLan = TRUE
  HasProxy = TRUE
  Budget = 6
SPECIFICATION FairSpec
CHECK_DEADLOCK FALSE
INVARIANTS
  GoneHostIsNoticed
  OneWayAtATime
PROPERTIES
  SessionKeepsPath
  SessionSettles
  TestLetsGo
