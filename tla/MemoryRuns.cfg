SPECIFICATION MemorySpec
CONSTANTS
  MaxInstances = 3
  Requests = {r1, r2}
  Reports = {m1, m2}
  RetryCount = 1
  Mysql = FALSE
  Stops = TRUE
  Faults = {"start", "stop", "order", "report", "engine"}
  MaxFaults = 1
SYMMETRY Symmetric
INVARIANTS
  RunsInLine
  NeverStuck
CHECK_DEADLOCK FALSE
