SPECIFICATION FairSpec
CONSTANTS
  MaxCalls = 3
  BeforeHooks = 1
  AfterHooks = 1
  ControlCap = 2
  FirstApproval = 2
  MaxDecisions = 2
INVARIANTS
  EventsTellSession
PROPERTIES
  KeepsPromise
  DecisionsServed
  CancelEndsPhase
CHECK_DEADLOCK FALSE
