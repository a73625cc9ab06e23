SPECIFICATION FairSpec
CONSTANTS
  DamageKinds = {"payload", "acknum"}
  Delays = {1, 10}
  Gaps = {0, 8, 60}
  TIMEOUT = 25
  ExitAfter = 3
  nsimmax = 5
INVARIANTS EventsInOrder NoPrematureTimeout
PROPERTIES Ends ImplementsAbp
CHECK_DEADLOCK FALSE
