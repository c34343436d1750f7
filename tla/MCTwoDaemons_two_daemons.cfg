SPECIFICATION DaemonsSpec
CONSTANTS
  Executors = {d1, d2}
  Approvals = {a1}
  Runs <- OneRun
  Requests <- PauseResume
  MaxGen = 2
  MaxTimers = 1
  MaxCrashes = 1
  MaxThrows = 1
  MaxStoreFaults = 0
  Daemons = {d1, d2}
  Tasks <- TwoTasks
  Delegates <- OneDelegate
  MAX_TASK_ATTEMPTS = 2
  MaxGraphGen = 2
SYMMETRY AnyDaemon
INVARIANTS ExclusiveGeneration GraphTypeOK RecoveredBeforeWork DependenciesFirst
           OneTaskPerAgent AttemptsAreBounded
PROPERTIES ImplementsGrant
