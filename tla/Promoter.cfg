\* two promoters over stores of both kinds: announced and unannounced jobs, an
\* operator, restarts and a rejected store call
CONSTANTS
  Jobs = {j1, j2}
  Promoters = {p1, p2}
  None = None
  Delays = {0, 4}
  PollingInterval = 2
  MaxTick = 1
  Stores = {"plain", "bulk"}
  Unannounced = TRUE
  Steering = {"promote", "remove", "stop"}
  MaxRejects = 1
CHECK_DEADLOCK FALSE
SPECIFICATION PromSpec
SYMMETRY MCSymmetry
INVARIANTS PromotedInTime NeverForgotten
