\* two workers over one job and the replay or snoozed copy of it; retries, a
\* lease of two clock units, which a failed attempt and its backoff outlast
CONSTANTS
  w1 = w1  w2 = w2  l1 = l1  l2 = l2  l3 = l3  i1 = i1  i2 = i2  i3 = i3
  Ids = {i1, i2}
  Queue = q1
  Queues = {q1}
  Keys = {}
  NoId = NoId  NoKey = NoKey  NoQueue = NoQueue
  Priorities = {2}
  LeaseMs = 2
  HistoryCap = 1
  MaxDeadLetters = 2
  MaxRecorded = 3
  Workers <- TwoWorkers
  Lanes <- TwoLanes
  WorkerOf <- LanePerWorker
  BatchSize = 1
  Concurrency = 2
  MaxAttempts = 2
  Backoffs = {1}
  Decisions = {"retry", "fail", "deadletter"}
  SnoozeAfter = 2
  Faults = {"execute", "addCompletedJob", "onFail", "onFailedPermanently"}
SPECIFICATION Spec
SYMMETRY MCSymmetry
INVARIANTS RuntimeTypeOK NoJobLost RenewedLeaseHeld SingleOutcome
PROPERTY Delivers
CHECK_DEADLOCK FALSE
