SPECIFICATION LiveSpec
CONSTANTS
  MaxWorkers = 2
  MaxEdits = 2
  MaxFaults = 1
  Schedules = {FALSE, TRUE}
INVARIANT TypeOK
INVARIANT StatusDescribesSpec
PROPERTY AcknowledgedSuspensionHolds
PROPERTY SuspensionStopsWorkers
PROPERTY WorkersAreStarted
PROPERTY DeletionCleansUp
