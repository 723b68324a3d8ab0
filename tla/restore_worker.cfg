SPECIFICATION LiveSpec
CONSTANTS
  NumTopics = 2
  NumPartitions = 2
  Stored <- SmallBackup
  Hash <- HashByIndex
  Configs <- SmallRestores
  Producer = "port"
  MaxRuns = 2
  Faults <- AllFaults
INVARIANT TypeOK
INVARIANT RestoredInOrder
INVARIANT NothingVanishes
INVARIANT CountedIsRestored
PROPERTY RefinesReplay
PROPERTY EveryRunEnds
