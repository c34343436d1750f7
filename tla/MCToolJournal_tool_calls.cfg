SPECIFICATION Spec
CONSTANTS
  Executors = {d1, d2}
  Runs = {r1, r2}
  Scopes <- AllScopes
  ToolCalls <- SomeCalls
  GuardedCall <- mcp_tool
  MaxToolCalls = 3
  MaxCalls = 3
  MaxApprovals = 1
  MaxGen = 2
SYMMETRY AnyName
INVARIANTS TypeOK ApprovalAuthorizesOnce EffectsExclude RunningCallIsExecuted
