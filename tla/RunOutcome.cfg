SPECIFICATION OutcomeSpec
CONSTANTS
  MaxInstances = 3
  Requests = {r1}
  Reports = {m1, m2}
  RetryCount = 1
  Mysql = TRUE
  Stops = FALSE
  Faults = {"start", "node"}
  MaxFaults = 1
INVARIANTS
  TypeOK
  RunHistory
PROPERTY EventuallyOver
CHECK_DEADLOCK FALSE
