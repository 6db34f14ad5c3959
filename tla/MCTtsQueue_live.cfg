SPECIFICATION FairSpec
CONSTANTS
  Jobs = {1, 2}
  Workers = {w1, w2}
  Operators = {}
  Renders = {r1}
  Priority <- MCPriority
  MaxRetries = 2
  QueueCap = 1
  Spoken = {2}
  Outcomes = {"ok", "transient", "uncertain", "rejected"}
  Prompt = TRUE
  MaxCrashes = 1
  None = None
INVARIANTS TypeOK OneOpenAttempt RetryBudget
PROPERTIES Settles
