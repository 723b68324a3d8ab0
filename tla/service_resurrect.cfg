SPECIFICATION Spec
CONSTANTS
  Clients = {c1}
  c1 = c1
  Nobody = Nobody
  NumWorkers = 1
  NumTopics = 1
  MaxPuts = 2
  MaxCoordinators = 1
  Mode = "usecase"
  Faults <- NoFaults
PROPERTY StaysSuspended
