SPECIFICATION Spec
CONSTANTS
  Paths = {s, p}
  Entries = {0, 1}
  Blocks = {c}
  FromNow = {}
  SplitPayload = {}
  Other = Other
  None = None
  Now = Now
  MaxLog = 1
  MaxStarts = 2
INVARIANTS
  AnnouncedIsForwarded
CHECK_DEADLOCK FALSE
