SPECIFICATION Spec
CONSTANTS
  MaxWorkers = 1
  MaxEdits = 1
  MaxFaults = 0
  Schedules = {TRUE}
INVARIANT SuspendedIsPaused
