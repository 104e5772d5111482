SPECIFICATION Spec
CONSTANTS
  Slash = Slash
  Dot = Dot
  Dash = Dash
  Space = Space
  Base = Base
  Stream = Stream
  Hole = Hole
  None = None
  a = a
  b = b
  colon = colon
  n = n
  m = m
  file = file
  beside = beside
  Beside = beside
  Stores <- MCStores
  Chars <- MCChars
  Legal <- MCLegal
  Names <- MCNames
  Configs <- MCConfigs
  Hosts <- MCHosts
  Events <- MCEvents
INVARIANTS
  ReadyMeansTopicsExist
CHECK_DEADLOCK FALSE
