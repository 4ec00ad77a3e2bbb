CONSTANTS
  Texts <- ShortTexts
  BlockSize = 4
  ShortReads = FALSE
  SilenceLimit = 10
  SleepTime = 2
  MaxTime = 28
SPECIFICATION UnspacedSpec
INVARIANTS
  TransmittedIdentical
CHECK_DEADLOCK FALSE
