SPECIFICATION Spec
CONSTANTS
  Configured = {0}
  Truncates = {FALSE}
  MaxBatch = 2
  MaxBuffer = 2
  Now = Now
  MaxLen = 2
  MaxStarts = 2
  MaxTopic = 2
INVARIANTS
  KeyIdentifiesRecord
CHECK_DEADLOCK FALSE
