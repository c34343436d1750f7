SPECIFICATION IndexSpec
CONSTANTS
  Callers = {}
  Workspaces = {w1, w2}
  Paths = {1}
  Lengths = {1, 2}
  Texts = {"a"}
  Stride = 32
  MaxRequests = 3
CHECK_DEADLOCK FALSE
INVARIANTS MatchesAreOfWorkspace
