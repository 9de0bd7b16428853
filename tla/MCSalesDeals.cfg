CONSTANTS
  Opps = {o1}
  Negotiations = {n1}
  Offers = {f1}
  Items = {i1}
  Procs = {p1, p2}
  Amounts = {1}
  None = None
  MaxVersion = 5
SPECIFICATION Spec
INVARIANTS TypeOK DealMeansWon PaidMeansClosed
PROPERTIES TerminalDealRests OpportunityLifecycle
