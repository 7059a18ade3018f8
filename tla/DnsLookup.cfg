SPECIFICATION FairSpec
CONSTANTS
  Lengths = {0, 11, 12, 14}
  None = None
INVARIANTS AnswerIsTrusted NoAnswerAfterEnd ContextErrorReported NothingLeft
PROPERTIES LookupEnds
CHECK_DEADLOCK FALSE
