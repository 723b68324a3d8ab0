SPECIFICATION Spec
CONSTANTS
  Clients = {c1, c2}
  c1 = c1
  c2 = c2
  Nobody = Nobody
  NumWorkers = 2
  NumTopics = 1
  MaxPuts = 2
  MaxCoordinators = 2
  Mode = "usecase"
  Faults <- AllFaults
SYMMETRY ClientSymmetry
INVARIANT TypeOK
INVARIANT CountersNeverOverstate
INVARIANT OneStartCountsTheStore
INVARIANT WorkerSumWithinTotal
