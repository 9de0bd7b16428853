CONSTANTS
  Users = {u1}
  Sessions = {s1, s2}
  Tokens = {t1, t2, t3}
  Procs = {p1, p2}
  None = None
  Ttl = 1
  MaxClock = 1
SPECIFICATION Spec
SYMMETRY Symmetry
INVARIANTS
  TypeOK
  SingleLiveToken
  ReuseKillsFamily
  LiveFamilyHasToken
  RevokedTokenMeansRevokedFamily
PROPERTIES
  RefusedOnceRevoked
  ChainSpec
