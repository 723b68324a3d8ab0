SPECIFICATION Spec
CONSTANTS
  Runs = {r1, r2}
  r1 = r1
  r2 = r2
  NumPartitions = 2
  BatchSize = 2
  MaxOffset = 2
  Consumer = "port"
  AtomicPut = FALSE
  LogEvents <- StillLog
  Faults <- PutAndCrash
SYMMETRY RunSymmetry
INVARIANT SegmentIsSlice
