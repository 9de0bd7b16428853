CONSTANTS
  Subs = {s1}
  Events = {}
  DirectKeys = {direct}
  Workers = {w1, w2}
  Callers = {c1}
  None = None
  MaxAttempts = 2
  Delay = 1
  MaxCalls = 1
  MaxCrashes = 0
SPECIFICATION MCTwoWorkersSpec
INVARIANTS ClaimedByOne
