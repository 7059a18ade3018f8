SPECIFICATION FairSpec
CONSTANTS
  Items = 3
  Available = {1, 3}
  Limit = 2
  MaxBreaks = 1
INVARIANTS OutcomeDeserved AnsweredInOrder
PROPERTIES EverythingEnds
CHECK_DEADLOCK FALSE
