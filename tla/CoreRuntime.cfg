SPECIFICATION FairSpec
CONSTANTS
  CommandCap = 1
  ControlCap = 1
  MaxToolCalls = 1
  Levels = 0
  Extras <- EveryExtra
  Faults <- AllFaults
  StopReasons <- AllStopReasons
  MaxSubmits = 2
  MaxExtras = 2
  MaxReplies = 1
INVARIANTS
  Ownership
  ContextIsCommitted
  IdsIncrease
  SubmissionsDelivered
  RunsAreBracketed
  CompletedCallsAnswered
PROPERTIES
  TeardownCompletes
  InterruptSettles
  CommandsServed
  TurnsEnd
  SteerReachesBoundary
CHECK_DEADLOCK FALSE
