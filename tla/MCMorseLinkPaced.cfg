CONSTANTS
  Texts <- PacedTexts
  BlockSize = 4
  ShortReads = TRUE
  SilenceLimit = 5
  SleepTime = 2
  MaxTime = 18
SPECIFICATION PacedSpec
INVARIANTS
  NeverKilled
  OutputIsInput
PROPERTIES
  ReliableChannel
  ParentFinishes
CHECK_DEADLOCK FALSE
