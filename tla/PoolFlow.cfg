\* two workers with both rate limits, in the store or each its own, and no
\* breaker, on a queue below the backpressure threshold that is paused,
\* drained and resumed
CONSTANTS
  w1 = w1  w2 = w2
  Workers <- TwoWorkers
  MaxReady = 2
  BatchSize = 1
  Mode = "delay"
  DepthThreshold = 4
  ResumeThreshold = 2
  Breaker = FALSE
  FailureThreshold = 2
  Cooldown = 2
  HalfOpenMax = 1
  TripOnTimeout = TRUE
  Limits = {"queue", "consumer"}
  Capacity <- FlowCapacities
  Refill <- FlowRefills
  SharedLimits = {FALSE, TRUE}
  Steering = {"pause"}
CHECK_DEADLOCK FALSE
SPECIFICATION FairPoolSpec
INVARIANT LeaseRate
PROPERTIES ReadyGetsLeased DrainEnds
