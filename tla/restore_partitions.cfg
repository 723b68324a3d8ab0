SPECIFICATION Spec
CONSTANTS
  NumTopics = 1
  NumPartitions = 11
  Stored <- ElevenPartitions
  Hash <- HashByIndex
  Configs <- PlainRestore
  Producer = "port"
  MaxRuns = 1
  Faults <- NoFaults
INVARIANT RestoredInOrder
