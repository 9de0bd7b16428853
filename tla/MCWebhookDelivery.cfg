CONSTANTS
  Subs = {s1}
  Events = {ev}
  DirectKeys = {direct}
  Workers = {w1, w2}
  Callers = {c1, c2}
  None = None
  MaxAttempts = 2
  Delay = 1
  MaxCalls = 2
  MaxCrashes = 1
SPECIFICATION MCFairSpec
INVARIANTS TypeOK SentByOneAndCounted
PROPERTIES PublishedFinal EveryDeliveryEnds
