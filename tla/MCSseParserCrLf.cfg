SPECIFICATION Spec
CONSTANTS
  Texts <- MCTexts
  Bodies <- CrLfBodies
  SplitEndings = TRUE
  Base64 = FALSE
  Decodable = {}
  ControlJson <- MCControlJson
INVARIANTS
  EventsAsSent
CHECK_DEADLOCK FALSE
