CONSTANTS
  Executions = {e1}
  Workers = {w1, w2}
  Operators = {o1}
  Nodes <- MCNodes
  Entry = "trigger"
  Kind <- MCKind
  Edges <- MCEdges
  None = None
  Lease = 1
  Delay = 1
  MaxAttempts = 2
  Batch = 2
  MaxFaults = 1
  MaxRequests = 0
SPECIFICATION FairSpec
INVARIANTS TypeOK SucceededMeansDone AttemptsBounded
PROPERTIES SucceededActionSticks EveryExecutionEnds
