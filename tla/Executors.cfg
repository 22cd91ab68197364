\* tasks on an executor of two slots over a pool of threads or processes
CONSTANTS
  Tasks <- MCTasks
  Priority <- MCPriority
  Concurrency = 2
  Kinds = {"inline", "thread", "process"}
  Load <- MCLoad
  Workers <- MCWorkers
  NoRun = NoRun
  Size = 2
  MaxAttempts = 2
  MaxCrashes = 1
SPECIFICATION Spec
INVARIANTS SlotsKept AnswersReach
PROPERTIES UrgentFirst EveryTaskEnds
CHECK_DEADLOCK FALSE
