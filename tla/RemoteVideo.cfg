CONSTANTS
  Pixels = 2
  MaxId = 4
  Threads = {t1, t2}
  NoThread = NoThread
  Interval = 2
SPECIFICATION FairVideoSpec
INVARIANTS
  VideoTypeOK
  DeltaIsOfItsKeyframe
  NoLostWakeup
  PictureIsTrue
PROPERTIES
  CompressReturns
