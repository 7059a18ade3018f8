SPECIFICATION MCFairSpec
CONSTANTS
  Request <- MCRequest
  Digit <- MCDigit
  Letter <- MCLetter
  MaxHeader = 8
  ReadSize = 3
  MaxInt = 4
  MaxAlloc = 3
INVARIANTS RepliesInOrder ClosedAnswered
PROPERTIES ArrivedIsAnswered PiecesDoNotMatter
CHECK_DEADLOCK FALSE
