SPECIFICATION FairSpec
CONSTANTS
  DamageKinds = {"payload", "seqnum", "acknum"}
  TIMEOUT = 25
  ExitAfter = 3
  nsimmax = 5
  ChanCap = 2
INVARIANTS InOrderOnce TimerIffWaiting ChannelsOrdered
PROPERTIES ImplementsTransfer
CHECK_DEADLOCK FALSE
