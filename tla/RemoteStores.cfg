\* every shared adapter under two clients, with two jobs; with three for replays
CONSTANTS
  Ids = {i1, i2, i3}
  Clients = {c1, c2}
  NoId = NoId
  Kinds = {"postgres", "mysql", "mongodb", "dynamodb", "redis", "file"}
  Scenes = {"race", "crash", "steer", "replay"}
  MaxJobs = 2
  MaxCalls = 1
  MaxCrashes = 1
CHECK_DEADLOCK FALSE
SPECIFICATION Spec
SYMMETRY MCSymmetry
INVARIANTS NothingLost LeaseExclusive NoResurrection ReplayExact KeyUnique Listed
