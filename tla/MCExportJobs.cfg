CONSTANTS
  Jobs = {j1}
  Workers = {w1, w2}
  Callers = {c1, c2}
  None = None
  MaxConcurrent = 1
  MaxRows = 2
  MaxRequests = 3
  MaxCrashes = 1
SPECIFICATION FairSpec
INVARIANTS TypeOK ArtifactWhole RunningIsHeld
PROPERTIES FinishedRests EveryExportEnds
