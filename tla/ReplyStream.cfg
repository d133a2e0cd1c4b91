SPECIFICATION FairSpec
CONSTANTS
  MaxItems = 2
  MaxDeltas = 3
  Fragments = 1
  MaxRetries = 2
INVARIANTS
  CallsAreCommitted
  ShownInOrder
  AssemblersAgree
PROPERTIES
  AbortSettles
CHECK_DEADLOCK FALSE
