\* three ids are enough for an original job, a competitor for its key and
\* the replay of its dead letter to be present at once
CONSTANTS
  Ids = {i1, i2, i3}
  Queues = {q1}
  Keys = {k1}
  NoId = NoId
  NoKey = NoKey
  NoQueue = NoQueue
  Priorities = {2}
  LeaseMs = 1
  HistoryCap = 1
  MaxDeadLetters = 1
  MaxRecorded = 1
SPECIFICATION StoreSpec
SYMMETRY MCSymmetry
INVARIANTS OneLivePerKey NoGhostLease
PROPERTY NoResurrection
CHECK_DEADLOCK FALSE
