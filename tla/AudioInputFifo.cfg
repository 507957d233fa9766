CONSTANTS
  Capacity = 3
  ReadSize = 2
  MaxRecorded = 6
SPECIFICATION InputSpec
INVARIANTS
  Fifo
