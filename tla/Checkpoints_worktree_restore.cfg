SPECIFICATION CpSpec
CONSTANTS
  CpExecutors = {x1, x2}
  CpClients = {c1}
  Helpers = {h1}
  MaxEdits = 1
  MaxCpTurns = 3
INVARIANTS RestoreBringsFilesBack
