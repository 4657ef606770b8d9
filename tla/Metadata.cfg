SPECIFICATION Spec
CONSTANTS
  \* Canvas
  Nodes = {x1, x2, x3}
  \* MetricChat
  Askers = {x1, x2, x3}
  MaxTurns = 2
  MaxEdits = 2
  \* MetricGraph
  Metrics = {x1, x2, x3}
  Savers = {u1, u2}
  MaxSaves = 4
  MaxOverlap = 2
  MaxLost = 1
  \* MetricTaskRuns
  TaskIds = {t1}
  Workers = {u1, u2}
  MaxRuns = 3
  MaxCrashes = 1
  \* ModelCatalog
  Domains = {x1, x2, x3}
  Categories = {c1}
  Models = {m1}
  Layers = {l1, l2}
  Requests = {u1, u2}
  \* References
  Sources = {s1, s2}
  SyncTasks = {t1}
  Drafts = {f1}
  Clerks = {u1, u2}
  Passwords = {p1, p2}
SYMMETRY Symmetric
INVARIANTS
  CanvasJudged
  
  TablesAgree
  TaskLeftFree
  CatalogSound
PROPERTIES
  IndexForward
  SourcesKept
CHECK_DEADLOCK FALSE
