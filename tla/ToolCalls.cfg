SPECIFICATION FairSpec
CONSTANTS
  MaxCalls = 3
  CallLimit = 2
  EventCap = 4
  MaxPresses = 2
  MaxEscapes = 1
INVARIANTS
  OnlyRefusedUnanswered
  PromptMatchesBroker
PROPERTIES
  KeepsPromise
  AbortEndsPhase
CHECK_DEADLOCK FALSE
