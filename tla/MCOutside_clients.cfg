SPECIFICATION OutsideSpec
CONSTANTS
  Servers = {1, 2}
  Stdio = {1}
  Reconcilers = {1, 2}
  Turns = {u1}
  MaxAttempts = 2
  MaxFaults = 3
  Callers = {k1, k2}
  MaxClients = 3
  MaxLspFaults = 1
  MaxEvents = 3
  MaxStreams = 2
  Clis = {t1, t2}
  MaxSpawns = 2
  MaxCommands = 3
CHECK_DEADLOCK FALSE
INVARIANTS ClientsTypeOK CallsCanReturn ServersAreSupervised ShownWithoutGaps
PROPERTIES ClientsSettle FollowerCatchesUp StopTakesEffect
