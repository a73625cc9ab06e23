SPECIFICATION HeartbeatSpec
CONSTANTS
  MaxSeq = 6
INVARIANTS ReportsAnyLost
