CONSTANTS
  MAXTHREADS = 3
  MaxSpurious = 1
  Rounds = 1
SPECIFICATION Spec
INVARIANTS
  TurnsKept
  AllStored
  ThreadsCounted
  SnapshotWhole
  WritersCounted
PROPERTY ProgramsEnd
CHECK_DEADLOCK FALSE
