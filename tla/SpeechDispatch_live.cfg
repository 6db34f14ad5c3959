SPECIFICATION FairSpec
CONSTANTS
  None = None
  Limit = 5
  Sessions = {1}
  Characters = 2
  PcmQueueSize = 1
  MaxChunks = 2
  SinkFaults = TRUE
  Plays = {d1}
  Endings = {"timeout"}
  Calls = {}
  Files = {f1}
CHECK_DEADLOCK FALSE
PROPERTIES SessionEnds
