SPECIFICATION FairSpec
CONSTANTS
  Paths = {p}
  Entries = {0, 2}
  Blocks = {c, d}
  FromNow = {d}
  SplitPayload = {d}
  Other = Other
  None = None
  Now = Now
  MaxLog = 1
  MaxStarts = 2
INVARIANTS
  IInv
  NoSecondForwarder
  ActiveIsForwarded
PROPERTIES
  DiscoveredEventually
  ErrorEndsBridge
CHECK_DEADLOCK FALSE
