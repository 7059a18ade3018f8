SPECIFICATION FairLoadSpec
CONSTANTS
  Client = {c1, c2}
  MaxAttempts = 2
  Latency = {1, 4}
  Percent = 60
INVARIANTS CutoffIsNotFailure CountsAreExact StatsByDefinition
PROPERTIES RunEnds
CHECK_DEADLOCK FALSE
