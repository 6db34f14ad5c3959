SPECIFICATION Spec
CONSTANTS
  Jobs = {1, 2}
  Workers = {w1, w2}
  Operators = {op}
  Renders = {r1}
  Priority <- MCPriority
  MaxRetries = 2
  QueueCap = 1
  Spoken = {2}
  Outcomes = {"ok", "uncertain", "rejected"}
  Prompt = FALSE
  MaxCrashes = 1
  None = None
SYMMETRY WorkerSymmetry
INVARIANTS SoleHolder
PROPERTIES AmbiguousNotReplayed
