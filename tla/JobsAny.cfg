\* starts may fail, downloaders may notify again, the user may interrupt
SPECIFICATION Spec
CONSTANTS
  NTasks = 4
  Concurrency = 2
  MaxRedirect = 1
  Bytes <- MCBytes
  StartFails = TRUE
  Unreliable = TRUE
INVARIANTS TypeOK JobsAreAlive DashboardAgrees RedirectsBounded AllTasksProcessed SlotsStayInUse BreakStopsJobs
PROPERTIES NothingStartsAfterBreak EveryStepCounts ImplementsPool ProgramEnds
CHECK_DEADLOCK FALSE
