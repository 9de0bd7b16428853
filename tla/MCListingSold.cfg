SPECIFICATION ListingsSpec
CONSTANTS
  Procs = {p1}
  None = None
  MaxClock = 1
  Agents = {a1}
  ListingTargets = {"IN_REVIEW", "VERIFIED", "ACTIVE", "SOLD", "RENTED", "ARCHIVED"}
  PropertyTargets = {"IN_REVIEW"}
  ExpiryDates = {None}
PROPERTY SoldStaysSold
CHECK_DEADLOCK FALSE
