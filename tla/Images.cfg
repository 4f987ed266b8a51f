CONSTANTS
  Words = 16
  Images <- MCImages
  PhdrSize = 2
  Base = 10
  Size = 4
  MaxAttempts = 2
SPECIFICATION Spec
INVARIANTS TypeOK WritesInside ReadsInside LaidOut
CHECK_DEADLOCK FALSE
