SPECIFICATION ResumeSpec
CONSTANTS
  Keys = {1, 2, 3}
  Mode = "incremental"
  WriteMode = "upsert"
  BatchSize = 2
  NullsFirst = TRUE
  Kinds = {}
  Cuts = {"stop", "error", "crash", "lost"}
  MaxWrites = 4
  MaxRuns = 2
INVARIANTS
  TypeOK
  OffsetCovered
PROPERTY SuccessMeansCopied
CHECK_DEADLOCK FALSE
