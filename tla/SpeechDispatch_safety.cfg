SPECIFICATION Spec
CONSTANTS
  None = None
  Limit = 3
  Sessions = {1}
  Characters = 2
  PcmQueueSize = 1
  MaxChunks = 2
  SinkFaults = TRUE
  Plays = {d1}
  Endings = {"cancelled"}
  Calls = {c1}
  Files = {}
CHECK_DEADLOCK FALSE
INVARIANTS TypeOK QuotaLedger AudibleHoldsLease CompletedPlayedAll StopReachesPlayback
