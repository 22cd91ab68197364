\* two processes on one directory of job files
CONSTANTS
  Ids = {i1}
  Clients = {c1, c2}
  NoId = NoId
  Kinds = {"file"}
  Scenes = {"race"}
  MaxJobs = 1
  MaxCalls = 0
  MaxCrashes = 0
CHECK_DEADLOCK FALSE
SPECIFICATION Spec
INVARIANTS NoDoubleProcessing
