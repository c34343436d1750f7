SPECIFICATION OneDaemonSpec
CONSTANTS
  Executors = {d1}
  Approvals = {a1}
  Runs <- TwoRuns
  Requests <- OneDaemonRequests
  MaxGen = 2
  MaxTimers = 2
  MaxCrashes = 1
  MaxThrows = 1
  MaxStoreFaults = 1
INVARIANTS TypeOK NoStrandedRun WaitingHasWaker NoOrphanedClaim
PROPERTIES TimedWaitEnds RunningRunIsServed
