SPECIFICATION HttpFairSpec
CONSTANTS
  Client = {c1, c2}
  Nothing = "nothing"
  Page = {"hello", "index"}
  Binary = "binary"
  Missing = "missing"
  Malformed = "malformed"
  Length = 2
  Fetches = 2
  Restarts = 1
INVARIANTS
  AnswersAreRight
  AnswersAreReplies
PROPERTIES
  CacheOnlyGrows
  EndsOnlyForCause
  EveryoneIsAnswered
CHECK_DEADLOCK FALSE
