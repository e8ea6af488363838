\* every trouble of the environment
SPECIFICATION Spec
CONSTANTS
  Backlog = 2
  Sizes <- MCSizes
  MaxReads = 4
  Adversity <- Adversities
INVARIANTS TypeOK QueueIsContiguous BacklogStopsReading WriterIsAwake ResumeHasSocket
CHECK_DEADLOCK FALSE
