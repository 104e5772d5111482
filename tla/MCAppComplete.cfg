SPECIFICATION FairSpec
CONSTANTS
  Paths = {s, p}
  Entries = {0, 1}
  Blocks = {c}
  FromNow = {}
  SplitPayload = {}
  Other = Other
  None = None
  Now = Now
  MaxLog = 1
  MaxStarts = 1
PROPERTIES
  EndsWhenComplete
CHECK_DEADLOCK FALSE
