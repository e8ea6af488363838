\* the connection is closed before the file is open
SPECIFICATION Spec
CONSTANTS
  Backlog = 2
  Sizes <- MCSizes
  MaxReads = 2
  Adversity <- EarlyShutdown
INVARIANTS DoneMeansStored
CHECK_DEADLOCK FALSE
