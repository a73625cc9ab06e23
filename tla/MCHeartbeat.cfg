SPECIFICATION HeartbeatSpec
CONSTANTS
  MaxSeq = 6
INVARIANTS ReportsGaps
PROPERTIES StoppedMeansOffline OfflineIsNoticed AnswerComes
