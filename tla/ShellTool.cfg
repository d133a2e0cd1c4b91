SPECIFICATION Spec
CONSTANTS
  MaxChunks = 3
  Characters <- MCCharacters
  ChunkTexts <- MCChunkTexts
  KeepBytes = 2
  KeepLines = 2
  ChannelCap = 1
  Limit = 2
  LineChars = 1
  Root <- MCRoot
INVARIANTS
  OutputInOrder
  CutsAreTold
  ReturnMeansEnded
PROPERTIES
  CallEnds
CHECK_DEADLOCK FALSE
