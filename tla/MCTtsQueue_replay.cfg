SPECIFICATION Spec
CONSTANTS
  Jobs = {1}
  Workers = {w1, w2}
  Operators = {}
  Renders = {r1}
  Priority <- MCPriority
  MaxRetries = 3
  QueueCap = 2
  Spoken = {}
  Outcomes = {"transient", "uncertain"}
  Prompt = TRUE
  MaxCrashes = 0
  None = None
PROPERTIES AmbiguousNotReplayed
