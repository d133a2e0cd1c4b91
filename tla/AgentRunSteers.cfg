SPECIFICATION Spec
CONSTANTS
  EventCap = 5
  QueueCap = 2
  MaxBatch = 2
  MaxSubmits = 3
  MaxEscapes = 0
  MaxToolTurns = 0
  MaxWork = 3
INVARIANTS
  SteersKept
CHECK_DEADLOCK FALSE
