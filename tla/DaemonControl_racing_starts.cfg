SPECIFICATION DaemonSpec
CONSTANTS
  Clis = {t1, t2}
  MaxSpawns = 2
  MaxCommands = 2
CHECK_DEADLOCK FALSE
INVARIANTS DescriptorNamesServer
