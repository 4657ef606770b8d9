SPECIFICATION Spec
CONSTANTS
  Ids = {i1, i2}
  Handles = {h1, h2}
  Callers = {c1}
  NoHandle = NoHandle
  NoId = NoId
  MaxHistory = 1
  Reuse = FALSE
SYMMETRY Symmetric
INVARIANT
  InterruptedIsStopped
