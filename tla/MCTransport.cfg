SPECIFICATION Spec
CONSTANTS
  MaxBytes = 3
  MaxRecords = 2
  Frame <- MCFrame
  Chunks = 2
  Room = 1
  MaxFrames = 3
  MaxCommands = 1
  MaxKeys = 1
INVARIANT NoLostWake
PROPERTY ImplementsMailbox
PROPERTY NoByteAfterFailure
PROPERTY WriteEnds
PROPERTY ReaderEnds
CHECK_DEADLOCK FALSE
