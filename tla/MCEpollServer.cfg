CONSTANTS
  MaxPeers = 3
  FDs = {1, 2}
  MAXEVENTS = 2
  BufSize = 1
  MaxBytes = 2
SPECIFICATION Spec
INVARIANTS
  NothingForgotten
  EventsFresh
PROPERTIES
  EventuallyPrinted
  EventuallyClosed
CHECK_DEADLOCK FALSE
