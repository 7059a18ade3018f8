SPECIFICATION FairSpec
CONSTANTS
  Program <- MCProgram
  Frames <- MCFrames
  Size <- MCSize
  Base = 4
  MaxFrame = 5
  PipeSize = 6
INVARIANTS ServedInOrder VerdictIsTrue
PROPERTIES ConnectionEnds
CHECK_DEADLOCK FALSE
