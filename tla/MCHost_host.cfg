SPECIFICATION Spec
CONSTANTS
  GateRuns = {r1}
  Reqs = {q1}
  Executors = {e1, e2}
  Failures = {f1}
  MaxTurns = 3
  CpExecutors = {x1, x2}
  CpClients = {c1}
  Helpers = {h1}
  MaxEdits = 1
  MaxCpTurns = 3
  MaxCalls = 2
  Clis = {t1, t2}
  MaxSpawns = 2
  MaxCommands = 3
SYMMETRY AnyExecutor
CHECK_DEADLOCK FALSE
INVARIANTS HostTypeOK CompletedIsJustified EscalatesGradually CheckpointIsAsCaptured OutcomeIsTrue
PROPERTIES CompletesOnAuditedLedger
