SPECIFICATION Spec
CONSTANTS
  Runs = {r1}
  r1 = r1
  NumPartitions = 1
  BatchSize = 2
  MaxOffset = 3
  Consumer = "port"
  AtomicPut = TRUE
  LogEvents <- StillLog
  Faults <- OnlyPutFaults
INVARIANT ClaimsAreStored
