SPECIFICATION Spec
CONSTANTS
  Client = {c1, c2}
  Port = {p1, p2}
  RequestId = {1}
  ClientId = 1
  Stray <- StrayOther
  None = None
  MaxClock = 1
  MaxIncarnation = 2
SYMMETRY Symmetric
INVARIANTS RepliesAgree FreshUnlessPortReused
