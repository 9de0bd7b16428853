SPECIFICATION MCSpec
CONSTANTS
  Procs = {p1, p2}
  None = None
  MaxClock = 1
  Ids = {x1, x2}
  Leads = {x1, x2}
  Assignees = {a1}
  Keys = {k1}
  AskedStatuses = {"QUALIFIED", "CONTACTED"}
  Children = {x1, x2, x3}
  MaxLeads = 2
  Properties = {x1, x2, x3, x4}
  Specializations = {x1, x2, x3}
  Capacities = {1, 2}
  OtherWork = 0
  Saves = {1, 2, 3}
  Agents = {a1}
  ListingTargets = {"IN_REVIEW", "VERIFIED", "ACTIVE", "PUBLISHED", "SOLD"}
  PropertyTargets = {"IN_REVIEW", "ACTIVE"}
  ExpiryDates <- MCExpiryDates
  Items = {x1, x2, x3}
  MaxVersions = 3
  ListingIds = {1, 2}
  Preferences <- MCPreferences
  Rules <- MCRules
  Candidates <- MCCandidates
  MaxCandidatePool = 2
  MaxPreferenceVersion = 4
  MaxRecommendations = 2
  RuleNames = {x1, x2}
  MaxRuleVersion = 2
  Slugs = {"a", "b"}
  FirstSlug = "a"
  MaxArticleVersion = 3
  Visitors = {v1}
  Paths = {x1, x2, x3}
  MaxChain = 3
  KindCounts = {0, 1, 2}
  ChunkSizes = {1, 2, 3}
  LevelOf <- MCLevelOf
  RowsOf <- MCRowsOf
  FirstRows <- MCFirstRows
  Facilities = {"pool"}
  Stages = {x1, x2, x3}
  Viewings = {x1, x2}
  Slots = {"ten", "eleven"}
  Readers = {x1, x2}
  Comments = {x1, x2}
  MaxSaves = 4
SYMMETRY Symmetry
INVARIANTS
  BusinessTypeOK
  
  
  BetterRanksHigher
  
PROPERTY ListingSteps
CHECK_DEADLOCK FALSE
