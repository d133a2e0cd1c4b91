SPECIFICATION FairSpec
CONSTANTS
  EventCap = 4
  QueueCap = 1
  MaxBatch = 2
  MaxSubmits = 3
  MaxEscapes = 1
  MaxToolTurns = 1
  MaxWork = 3
INVARIANTS
  PromptsInOrder
  IdsFresh
  RepliesCommittedOnce
PROPERTIES
  SteersWaitForFinalReply
  AbortedRunEnds
CHECK_DEADLOCK FALSE
