SPECIFICATION Spec
CONSTANTS
  Runs = {r1}
  r1 = r1
  NumPartitions = 1
  BatchSize = 2
  MaxOffset = 4
  Consumer = "port"
  AtomicPut = TRUE
  LogEvents <- AllLogEvents
  Faults <- AllFaults
INVARIANT TypeOK
INVARIANT ChainUnbroken
PROPERTY WriteOnce
PROPERTY RefinesCopy
INVARIANT InteriorMetaMatches
INVARIANT ReplayAscends
