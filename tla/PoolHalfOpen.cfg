\* the breaker with trials that find the queue empty
CONSTANTS
  w1 = w1  w2 = w2
  Workers <- OneWorker
  MaxReady = 1
  BatchSize = 1
  Mode = "off"
  DepthThreshold = 3
  ResumeThreshold = 1
  Breaker = TRUE
  FailureThreshold = 1
  Cooldown = 2
  HalfOpenMax = 1
  TripOnTimeout = TRUE
  Limits = {}
  Capacity <- NoRate
  Refill <- NoRate
  SharedLimits = {FALSE}
  Steering = {}
CHECK_DEADLOCK FALSE
SPECIFICATION FairPoolSpec
PROPERTY ReadyGetsLeased
