\* the response ends without a body byte in its last read
SPECIFICATION Spec
CONSTANTS
  Backlog = 2
  Sizes <- MCSizes
  MaxReads = 3
  Adversity <- SilentEnd
PROPERTIES EveryDownloadEnds
CHECK_DEADLOCK FALSE
