SPECIFICATION FairSpec
CONSTANTS
  Todos = {1, 2, 3}
  Tree <- MCTree
  Requests = {q1, q2}
  MaxEvents = 2
  Instances = {d1, own}
  Kept = {own}
  Workers = 1
  QueueSize = 2
  MaxStarts = 2
  NoInstance = NoInstance
CHECK_DEADLOCK FALSE
INVARIANTS TypeOK
PROPERTIES PageCatchesUp StoppedPoolEmpties
