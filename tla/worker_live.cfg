SPECIFICATION LiveSpec
CONSTANTS
  Runs = {r1}
  r1 = r1
  NumPartitions = 2
  BatchSize = 2
  MaxOffset = 2
  Consumer = "port"
  AtomicPut = FALSE
  LogEvents <- ReadLogEvents
  Faults <- ReadFaults
INVARIANT ClaimsAreStored
PROPERTY CancelStops
PROPERTY OnlyPollHoldsUp
