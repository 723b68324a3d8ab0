SPECIFICATION Spec
CONSTANTS
  Clients = {c1, c2}
  c1 = c1
  c2 = c2
  Nobody = Nobody
  NumWorkers = 1
  NumTopics = 1
  MaxPuts = 2
  MaxCoordinators = 2
  Mode = "main"
  Faults <- NoFaults
INVARIANT SingleCoordinator
