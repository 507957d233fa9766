CONSTANTS
  Capacity = 3
  ReadSize = 2
  MaxRecorded = 6
  NumSubBuffers = 3
  SubSize = 2
  MaxSamples = 7
  MaxFaults = 1
  MaxPacket = 5
SPECIFICATION DriverSpec
INVARIANTS
  NoOverlap
  Accounting
  FifoUnlessDrained
  ThreadHasRecorder
  CapturingIsServed
  QueuesAgree
  RoomIsThere
  HeardIsTrue
PROPERTIES
  StopReturns
  SoundIsHeard
