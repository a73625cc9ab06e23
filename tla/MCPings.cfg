SPECIFICATION PingsSpec
CONSTANTS
  PKGNUM = 5
  the_id <- Pid
  Doubles <- Words
  timeout = 2
  Pings = 3
INVARIANTS
  LossNotUnderstated
  AnswersCountOnce
  TimesAreTrue
  TimeoutMeansSilence
PROPERTIES
  ClientEnds
  KeepsPinging
CHECK_DEADLOCK FALSE
