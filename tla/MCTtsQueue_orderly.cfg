SPECIFICATION Spec
CONSTANTS
  Jobs = {1, 2, 3}
  Workers = {w1, w2}
  Operators = {op}
  Renders = {r1, r2}
  Priority <- MCPriority
  MaxRetries = 2
  QueueCap = 1
  Spoken = {2}
  Outcomes = {"ok", "uncertain", "rejected"}
  Prompt = TRUE
  MaxCrashes = 1
  None = None
SYMMETRY WorkerSymmetry
INVARIANTS HolderOwnsClaim DigestMatchesArtifact
PROPERTIES ImplementsLifecycle
