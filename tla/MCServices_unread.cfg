SPECIFICATION Spec
CONSTANTS
  Threads = {"h1", "h2"}
  MaxSaves = 2
  RenameReplaces = FALSE
  MaxCrashes = 1
  None = None
  Decisions = {"d1", "d2"}
  Requests = {"r1", "r2"}
  Clients = {"c1", "c2", "c3"}
  Legacy <- MCLegacy
  Submissions <- MCSubmissions
  Presets = {"lily", "narrator"}
  Request <- MCRequest
  Orchestrations = {"o1", "o2"}
  MaxVersions = 2
  Savers = {"s1", "s2"}
  Nobody = None
  Revisions = {"v1", "v2"}
  MaxAttempts = 3
  MaxMoves = 2
  Absent = None
  Files = {"TODO_AI", "TODO_TYLER"}
  Items = {"a1", "a2", "t1"}
  Contents <- MCContents
  Unreadable = {"TODO_TYLER"}
  Migrators = {"m1", "m2"}
  Todos = {1, 2}
  Texts = {"urgent", "typo"}
  Score <- MCScore
  Priorities = {2, 5}
  Rescorers = {"r1", "r2"}
  MaxWrites = 1
  Rows = {1, 2}
  Root = 1
  FRs = {"FR-1", "FR-2"}
  Levels = {2, 5}
  Offers <- MCOffers
  Readers = {"agent"}
  MaxAssessments = 2
  MaxAsks = 2
  NoValue = None
  Programs = {"portal", "mcp", "weekly"}
  MaxRows = 2
  MaxKills = 1
  Instances = {"d1", "d2", "own"}
  Kept = {"own"}
  Workers = 1
  QueueSize = 2
  MaxStarts = 2
  NoInstance = None
  Spellings = {"Fix", "fix", "ship"}
  Norm <- MCNorm
  Supplied <- MCSupplied
  Limit = 2
  MaxOthers = 2
  MaxId = 3
  Projects = {"home", "other"}
  Home = "home"
  MaxChanges = 2
CHECK_DEADLOCK FALSE
INVARIANTS OnlyMigratedRemoved
