\* one of seven APIs: keyed dispatches, a batch of two chunks, a flow, a
\* workflow, schedules in two processes, four jobs over two stores in one
\* call, three jobs of one key with the plugins
CONSTANTS
  i1 = i1  i2 = i2  i3 = i3  i4 = i4  a = a  b = b  c = c
  Ids <- MCIds
  Nodes <- MCNodes  NoNode = NoNode
  Deps <- MCDeps
  Chunks <- MCChunks
  Atomic = TRUE
  IncludeFailed = FALSE
  Faults = {"enqueue", "ack", "bury"}
  MaxRuns = 2
  MaxThrows <- MCThrows
  MaxKeyed = 3
  p1 = p1  p2 = p2  s1 = s1  s2 = s2
  Procs = {p1, p2}
  Known <- MCKnown
  Durables <- MCDurables
  Target = 1
  MaxStarts = 2
  t1 = t1  t2 = t2  t3 = t3  x = x  y = y
  Bulks <- MCBulks
  Batching = {x}
  ChunkSize = 3
  Tasks = {t1, t2, t3}
  Needs <- MCNeeds
  Capacity = 2
  RefillRate = 1
  MaxTime = 2
  Scenes <- MCScenes
SYMMETRY MCSymmetry
SPECIFICATION Spec
INVARIANTS DispatchTrue  FlowTrue WorkflowTrue SchedulesTrue PluginsTrue
CHECK_DEADLOCK FALSE
