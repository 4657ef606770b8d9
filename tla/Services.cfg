SPECIFICATION Spec
CONSTANTS
  \* Accounts
  AccountIds = {a1, a2}
  FirstAdmins = {a1}
  UserNames = {n1}
  Operators = {o1, o2}
  MaxKeys = 2
  \* Alerts
  Watches = {w1}
  Firings = {o1, o2}
  Window = 2
  MaxRecords = 1
  MaxNow = 3
  MaxSerial = 3
  \* DataApiGateway
  Editors = {e1}
  Callers = {o1, o2}
  Limit = 1
  WindowTicks = 2
  MaxDetails = 1
  PruneEvery = 2
  MaxTick = 2
  MaxApiKeys = 1
  MaxCalls = 3
  MaxMishaps = 1
  \* DataflowRuns
  FlowRuns = 3
  FlowUsers = {o1, o2}
  FlowRetries = 1
  \* Scheduler
  Runnables = {r1}
  MetricTasks = {t1}
  Scans = {o1, o2}
  Gap = 2
  MaxTime = 2
SYMMETRY Symmetric
INVARIANTS
  AccountsGuarded
  LagSpaced
  GatewayBounded
  CallsCounted
  FlowRunsSound
  TriggersSpaced
  FlagHonest
PROPERTY AlertsPruned
CHECK_DEADLOCK FALSE
