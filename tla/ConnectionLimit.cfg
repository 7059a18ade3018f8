SPECIFICATION FairSpec
CONSTANTS
  Conn = {c1, c2, c3}
  Limits = {1, 2}
  None = None
INVARIANTS CountersBalance WithinBudget LineIsDecision
PROPERTIES EveryDialIsDecided IdleSlotsReclaimed
CHECK_DEADLOCK FALSE
