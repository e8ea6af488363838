\* the first downloads may be refused
SPECIFICATION Spec
CONSTANTS
  NTasks = 4
  Concurrency = 2
  MaxRedirect = 1
  Bytes <- MCBytes
  StartFails = TRUE
  Unreliable = FALSE
INVARIANTS SlotsAreUsed
CHECK_DEADLOCK FALSE
