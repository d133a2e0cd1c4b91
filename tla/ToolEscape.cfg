SPECIFICATION FairSpec
CONSTANTS
  MaxCalls = 1
  CallLimit = 1
  EventCap = 4
  MaxPresses = 0
  MaxEscapes = 2
PROPERTIES
  EscapeRejects
CHECK_DEADLOCK FALSE
