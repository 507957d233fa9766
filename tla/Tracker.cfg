CONSTANTS
  NumKeys = 4
  NumFrames = 3
  MaxStates = 16
  MaxBuffer = 2
  MaxFaults = 1
  MaxTaped = 5
  MaxFrames = 5
  MaxAfterMovie = 8
SPECIFICATION FairSpec
CHECK_DEADLOCK FALSE
INVARIANTS
  ReplayIsExact
  PlaybackIsExact
PROPERTIES
  WatchedSpec
  LockIsReleased
