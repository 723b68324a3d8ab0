SPECIFICATION LiveSpec
CONSTANTS
  Clients = {c1}
  c1 = c1
  Nobody = Nobody
  NumWorkers = 3
  NumTopics = 2
  SegmentsPerTopic = 1
  MaxCoordinators = 1
  MaxCalls = 4
  Mode = "usecase"
  Faults <- AllFaults
INVARIANT TypeOK
INVARIANT CountersNeverOverstate
INVARIANT ProgressIsEarned
INVARIANT CompletedIsOver
INVARIANT NoTopicForgotten
PROPERTY CoordinatorEnds
