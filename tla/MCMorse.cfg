CONSTANTS
  Texts <- FreeTexts
  BlockSize = 4
  ShortReads = FALSE
  SilenceLimit = 1
  SleepTime = 1
  MaxTime = 2
SPECIFICATION MCSpec
INVARIANTS
  TypeOK
  SubsequenceOfSent
  NoOvertaking
  RoundTrip
  CutCostsOneCharacter
  LossIsLocal
CHECK_DEADLOCK FALSE
