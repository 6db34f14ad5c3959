SPECIFICATION Spec
CONSTANTS
  None = None
  Limit = 5
  Sessions = {}
  Characters = 2
  PcmQueueSize = 1
  MaxChunks = 2
  SinkFaults = TRUE
  Plays = {d1}
  Endings = {"cancelled"}
  Calls = {}
  Files = {f1}
CHECK_DEADLOCK FALSE
INVARIANTS PlaybackNeverOverlaps
