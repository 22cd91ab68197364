\* one worker with every gate, under pause, drain, scaling and stop; batches of
\* two with outcomes of every kind
CONSTANTS
  w1 = w1  w2 = w2
  Workers <- OneWorker
  MaxReady = 3
  BatchSize = 2
  Mode = "delay"
  DepthThreshold = 2
  ResumeThreshold = 1
  Breaker = TRUE
  FailureThreshold = 2
  Cooldown = 2
  HalfOpenMax = 1
  TripOnTimeout = FALSE
  Limits = {"queue", "consumer"}
  Capacity <- WorkerCapacities
  Refill <- WorkerRefills
  SharedLimits = {FALSE}
  Steering = {"pause", "scale", "stop"}
CHECK_DEADLOCK FALSE
SPECIFICATION FairPoolSpec
INVARIANTS OneLateBatch BreakerHolds
PROPERTY OpenBreakerCools
