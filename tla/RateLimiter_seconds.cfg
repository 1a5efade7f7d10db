CONSTANTS
  MaxRequests = 2
  Callers = {c1, c2}
  Refreshers = {r}
  Batches = {1, 2}
  LastSecond = 3
SPECIFICATION LimiterSpec
INVARIANTS TimelyPermitsFit
CHECK_DEADLOCK FALSE
