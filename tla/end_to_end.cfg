SPECIFICATION Both
CONSTANTS
  Runs = {r1}
  r1 = r1
  NumPartitions = 1
  BatchSize = 2
  MaxOffset = 3
  Consumer = "port"
  AtomicPut = TRUE
  LogEvents <- MovingLog
  Faults <- ReadFaults
  Snapshot <- TwoSegments
  Promised <- ThreeMessages
  Hash <- AnyHash
  Configs <- PlainRestore
  Producer = "port"
  MaxRuns = 2
  RestoreFaults <- AllRestoreFaults
INVARIANT TargetAscends
INVARIANT PromisesAreKept
