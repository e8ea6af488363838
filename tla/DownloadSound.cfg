\* none of the troubles that break a promise; every request may still fail
SPECIFICATION Spec
CONSTANTS
  Backlog = 2
  Sizes <- MCSizes
  MaxReads = 3
  Adversity <- NoAdversity
INVARIANTS DoneMeansStored AnswerIsAwaited OneRequestAtATime
PROPERTIES KeepsContract FailureLeavesNoFile ToldOnce FinalStatusIsFrozen
CHECK_DEADLOCK FALSE
