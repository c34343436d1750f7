SPECIFICATION Spec
CONSTANTS
  AgentIds = {a1, a2, a3}
  Keys = {2}
  Contents = {c1}
  MaxMessages = 2
  MaxChanges = 4
  MaxResident = 1
  Policies <- PolicyChoices
  Sandboxes <- SandboxChoices
  ToolDefs <- ToolChoices
  MaxAgents = 3
  ErrorTexts <- ErrorChoices
  MaxToolAttempts = 4
  Threshold = 3
  Workers = {w1, w2}
  Budgets <- BudgetChoices
  MaxEpochs = 3
  MaxResumes = 1
  MaxUse = 1
  Candidates = 2
  MaxProviderAttempts = 2
  MaxToolCalls = 2
  RetryAfters = {0, 240}
  MaxLog = 8
  MaxReplies = 2
  ContextBudgets = {7, 12}
  Sizes = {0, 3}
  Header = 2
  Marker = 1
  DiffCap = 4
  Facts = {f1, f2}
  Ids = {i1}
  Secrets = {f1}
  Confidences = {5, 7, 9}
  MaxOperations = 4
  Callers = {k1}
  Workspaces = {w1}
  Paths = {1, 2, 3}
  Lengths = {1, 2}
  Texts = {"a"}
  Stride = 1
  MaxRequests = 3
SYMMETRY AnyAgent
CHECK_DEADLOCK FALSE
INVARIANTS MissionTypeOK SnapshotRestores DeliveryIsOrderly NoCapabilityGained EffectRunsOnce  PlanFits ProjectIsVetted IndexIsCurrent
PROPERTIES FailuresAreContained
