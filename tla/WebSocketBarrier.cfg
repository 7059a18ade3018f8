SPECIFICATION FairSpec
CONSTANTS
  Client = {c1, c2, c3}
INVARIANTS NoEarlyMessage AbortedIsSilent CleanRunIsComplete
PROPERTIES EveryoneReturns
CHECK_DEADLOCK FALSE
