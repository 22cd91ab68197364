\* two workers over two jobs, one of them with batches of two, and an executor
\* of one slot: leases lapse during backoffs and while jobs wait for the slot,
\* so that several lanes may come to hold the same job; whatever follows the
\* handler inside the try block may reject
CONSTANTS
  w1 = w1  w2 = w2  l1 = l1  l2 = l2  l3 = l3  i1 = i1  i2 = i2  i3 = i3
  Ids = {i1, i2}
  Queue = q1
  Queues = {q1}
  Keys = {}
  NoId = NoId  NoKey = NoKey  NoQueue = NoQueue
  Priorities = {2}
  LeaseMs = 2
  HistoryCap = 1
  MaxDeadLetters = 2
  MaxRecorded = 2
  Workers <- TwoWorkers
  Lanes <- ThreeLanes
  WorkerOf <- TwoAndOne
  BatchSize = 2
  Concurrency = 1
  MaxAttempts = 2
  Backoffs = {1}
  Decisions = {"retry"}
  SnoozeAfter = 0
  Faults = {"addCompletedJob", "ack", "onProcessEnd"}
SPECIFICATION FairSpec
PROPERTY EveryJobSettles
CHECK_DEADLOCK FALSE
