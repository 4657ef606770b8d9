SPECIFICATION Spec
PROPERTIES
  FullCopied
  RunEnds
  ChangesCaptured
CHECK_DEADLOCK FALSE
