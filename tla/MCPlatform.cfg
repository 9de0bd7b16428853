SPECIFICATION MCSpec
CONSTANTS
  Procs = {p1, p2}
  None = None
  MaxClock = 1
  Identities = {username, email}
  UserChanges <- MCUserChanges
  Logins = {l1}
  ResetTokens = {t1}
  Threshold = 2
  Window = 0
  Duration = 1
  ResetTtl = 1
  MaxPassword = 1
  Secrets = {s1, s2}
  Challenges = {c1}
  Codes = {k1, k2}
  ChallengeTtl = 2
  ChallengeMaxAttempts = 1
  OtpThreshold = 1
  MaxFailed = 1
  OtpLockDuration = 1
  Users = {u1}
  Roles = {"admin", "staff"}
  Permissions = {"manage", "manage.protected"}
  SystemRoles = {"admin"}
  SystemPermissions = {"manage.protected"}
  Push = push
  MaxAttempts = 2
  MaxCursor = 1
  MaxSchedules = 1
  MaxAnswers = 2
  FileRows = 3
  ImportKeys = {0, 1}
  BatchSize = 2
  CacheTtl = 1
  MaxSettingVersion = 3
  Versions = {v1, v2}
  Events = {e1}
  GraphNodes = {n1, n2, n3, n4}
  GraphEntry = n1
  Instances = {i1, i2}
  CircuitThreshold = 2
  CircuitWindow = 0
  CircuitOpenFor = 1
  CallAttempts = 2
  MaxCalls = 2
  Deliveries = {d1, d2}
  MaxDeliveryAttempts = 2
  ReconnectKeys = {r1, r2}
  PageSize = 1
  LastPage = 2
  StartRows = 2
  MaxWrites = 1
  ActivityRows = {1, 2}
  AuditRows = {3}
  RetentionBatch = 1
  MaxCredentials = 3
  MaxSignals = 3
SYMMETRY Symmetry
INVARIANTS
  PlatformTypeOK
  IdentityInvariant
  
  
  DecisionInvariant
PROPERTY LoginSteps
CHECK_DEADLOCK FALSE
