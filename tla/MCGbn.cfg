SPECIFICATION FairSpec
CONSTANTS
  DamageKinds = {"payload"}
  TIMEOUT = 25
  N = 2
  AckLimit = 3
  nsimmax = 4
  ChanCap = 3
INVARIANTS InOrderOnce QueueIsWindow NeverCrashes
  ExitMeansTransferred TimerIffOutstanding AcksNeverGoBack
PROPERTIES WindowNeverMovesBack ImplementsTransfer
CHECK_DEADLOCK FALSE
