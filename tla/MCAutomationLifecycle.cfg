CONSTANTS
  Executions = {e1}
  Workers = {w1}
  Operators = {o1}
  Nodes <- MCNodes
  Entry = "trigger"
  Kind <- MCKind
  Edges <- MCEdges
  None = None
  Lease = 1
  Delay = 1
  MaxAttempts = 1
  Batch = 1
  MaxFaults = 0
  MaxRequests = 1
SPECIFICATION Spec
PROPERTY LifecycleRespected
