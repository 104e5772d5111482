SPECIFICATION FairSpec
CONSTANTS
  Methods = {"GET", "HEAD"}
  Bounded = TRUE
  MaxAttempts = 4
  InitialBackoff = 1
  MaxBackoff = 3
  RequestTimeout = 2
  RetryAfters = {0, 5}
  MaxRetryAfter = 5
  MaxClock = 30
INVARIANTS
  IInv
  RetriesAreSpent
  TimeIsBounded
PROPERTIES
  RetryAfterHonoured
  CallReturns
CHECK_DEADLOCK FALSE
