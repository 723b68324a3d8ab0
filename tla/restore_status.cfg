SPECIFICATION Spec
CONSTANTS
  Clients = {c1}
  c1 = c1
  Nobody = Nobody
  NumWorkers = 1
  NumTopics = 1
  SegmentsPerTopic = 1
  MaxCoordinators = 1
  MaxCalls = 4
  Mode = "main"
  Faults <- OnlyKafka
PROPERTY ErrorsSurvive
