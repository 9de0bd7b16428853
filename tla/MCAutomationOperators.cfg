CONSTANTS
  Executions = {e1}
  Workers = {w1, w2}
  Operators = {o1, o2}
  Nodes <- MCNodes
  Entry = "trigger"
  Kind <- MCKind
  Edges <- MCEdges
  None = None
  Lease = 1
  Delay = 1
  MaxAttempts = 1
  Batch = 1
  MaxFaults = 1
  MaxRequests = 2
SPECIFICATION Spec
SYMMETRY Symmetry
INVARIANTS HandlersInTurn
PROPERTIES CancelledRests
