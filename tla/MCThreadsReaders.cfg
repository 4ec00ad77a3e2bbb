CONSTANTS
  MAXTHREADS = 2
  MaxSpurious = 0
  Rounds = 2
SPECIFICATION RwlockSpec
INVARIANT ReadersCounted
CHECK_DEADLOCK FALSE
