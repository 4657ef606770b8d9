SPECIFICATION FairSpec
CONSTANTS
  Ids = {i1}
  Handles = {h1, h2}
  Callers = {c1, c2}
  NoHandle = NoHandle
  NoId = NoId
  MaxHistory = 1
  Reuse = TRUE
INVARIANTS
  RegistryExact
PROPERTIES
  TerminalIsFinal
  CancelledRunExits
