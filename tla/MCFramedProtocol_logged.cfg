SPECIFICATION Spec
CONSTANTS
  Program <- MCProgram
  Frames <- MCFrames
  Size <- MCSize
  Base = 4
  MaxFrame = 5
  PipeSize = 6
PROPERTIES IncompleteFrameIsLogged
CHECK_DEADLOCK FALSE
