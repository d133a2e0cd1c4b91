SPECIFICATION Spec
CONSTANTS
  c1 = c1
  c2 = c2
  c3 = c3
  Calls = {c1, c2, c3}
  Paths = {"p", "q"}
  Characters <- MCCharacters
  Inputs <- MCInputs
  InitialFiles <- MCInitialFiles
  None = None
INVARIANTS
  NoUpdateLost
  EditsAreExact
PROPERTIES
  JoinedCallsSettle
CHECK_DEADLOCK FALSE
