CONSTANTS
  MaxAttempts = 2
  DoPortForwarding = FALSE
  Queries = {q1, q2, q3}
  Budget = 3
  MaxHandlers = 3
SPECIFICATION ThreadsSpec
CHECK_DEADLOCK FALSE
INVARIANTS
  AskedInTimeIsReceived
  NoCallbackAfterStop
PROPERTIES
  MappingIsRemoved
