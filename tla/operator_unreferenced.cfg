SPECIFICATION LiveSpec
CONSTANTS
  MaxWorkers = 1
  MaxEdits = 2
  MaxFaults = 0
  Schedules = {FALSE}
PROPERTY SuspendingStops
