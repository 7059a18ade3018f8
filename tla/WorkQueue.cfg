SPECIFICATION FairSpec
CONSTANTS
  Conn = {c1, c2, c3}
  Capacity = 1
  None = None
  MaxAccepted = 3
INVARIANTS NoJobLost CountersBalance
PROPERTIES ImplementsFifo AskIsAnswered
CHECK_DEADLOCK FALSE
