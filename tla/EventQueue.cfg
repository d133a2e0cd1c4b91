SPECIFICATION FairSpec
CONSTANTS
  Senders = {s1, s2, s3}
  Receivers = {r1, r2}
  Capacity = 2
  MaxBatch = 2
INVARIANTS
  EarlierEventsFirst
PROPERTIES
  CloseEndsCalls
CHECK_DEADLOCK FALSE
