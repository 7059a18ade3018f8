SPECIFICATION FairSpec
CONSTANTS
  Client = {c1}
  Port = {p1}
  RequestId = {1, 2}
  ClientId = 1
  Stray <- StrayMixed
  None = None
  MaxClock = 1
  MaxIncarnation = 2
PROPERTIES EveryRunEnds ImplementsService
