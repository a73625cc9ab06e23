SPECIFICATION Spec
CONSTANTS
  DamageKinds = {}
  Delays = {1, 10}
  Gaps = {2, 28}
  TIMEOUT = 25
  N = 2
  AckLimit = 4
  nsimmax = 5
  ListCap = 8
INVARIANTS PacketsApart
PROPERTIES ImplementsGbn
CHECK_DEADLOCK FALSE
