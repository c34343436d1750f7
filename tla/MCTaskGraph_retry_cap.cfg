SPECIFICATION GraphSpec
CONSTANTS
  Daemons = {d1, d2}
  Tasks <- TwoTasks
  Delegates <- OneDelegate
  MAX_TASK_ATTEMPTS = 2
  MaxGraphGen = 2
SYMMETRY AnyGraphDaemon
INVARIANTS RetriesAreCapped
