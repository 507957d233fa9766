CONSTANTS
  Pixels = 1
  MaxId = 4
  Threads = {t1, t2}
  NoThread = NoThread
  Interval = 2
SPECIFICATION Spec
INVARIANTS
  KeyframeIsLocked
