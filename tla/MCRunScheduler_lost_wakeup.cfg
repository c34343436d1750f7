SPECIFICATION Spec
CONSTANTS
  Executors = {d1, d2}
  Approvals = {a1}
  Runs <- OneRun
  Requests <- PauseResume
  MaxGen = 1
  MaxTimers = 1
  MaxCrashes = 0
  MaxThrows = 0
  MaxStoreFaults = 0
INVARIANTS NoStrandedRun
