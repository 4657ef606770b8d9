SPECIFICATION Spec
CONSTANTS
  \* CodeCheck
  Rows = {1, 2}
  Codes = {x, y}
  Calls = {k1}
  \* ProgressDrawer
  Flows = {f1, f2}
  Slots = {s1, s2}
  MaxActs = 4
INVARIANT VerdictsCurrent
PROPERTY PollingEnds
CHECK_DEADLOCK FALSE
