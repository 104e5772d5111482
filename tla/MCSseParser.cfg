SPECIFICATION FairSpec
CONSTANTS
  Texts <- MCTexts
  Bodies <- AllBodies
  SplitEndings = FALSE
  Base64 = TRUE
  Decodable <- MCDecodable
  ControlJson <- MCControlJson
INVARIANTS
  IInv
  EventsAsSent
  FailsOnInvalid
PROPERTIES
  PushEnds
CHECK_DEADLOCK FALSE
