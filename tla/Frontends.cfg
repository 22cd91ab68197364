\* one request of every kind, the CLI, two connections, a page
CONSTANTS
  home = home  other = other
  Jobs = {j1, j2}
  NoJob = NoJob
  Queues <- MCQueues
  Home = home
  Stranger = Stranger
  NoName = NoName
  MaxCopies = 1
  c1 = c1  c2 = c2
  Conns = {c1, c2}
  Mixes <- MCMixes
  App = App
  MaxHistory = 2
  Replay = 1
  MaxEvents = 3
  Links = {l1, l2, l3}
  NoLink = NoLink
  Scenes <- MCScenes
  Requests <- MCRequests
  Views <- MCViews
SPECIFICATION Spec
INVARIANTS ReadsHonest RefusalsClean RetryAllTrue StreamExact TransportsKept
PROPERTIES EveryRequestEnds
CHECK_DEADLOCK FALSE
