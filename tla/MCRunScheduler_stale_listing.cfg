SPECIFICATION Spec
CONSTANTS
  Executors = {d1}
  Approvals = {}
  Runs <- TwoRuns
  Requests <- PauseResume
  MaxGen = 1
  MaxTimers = 0
  MaxCrashes = 0
  MaxThrows = 0
  MaxStoreFaults = 0
PROPERTIES PauseSticks
