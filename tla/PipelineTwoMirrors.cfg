SPECIFICATION WatchedSpec
CONSTANTS
  MaxInstances = 3
  Users = {u1, u2}
  Reports = {m1}
  Drivers = {"memory"}
  MaxFaults = 0
SYMMETRY Symmetric
INVARIANT OneMirror
CHECK_DEADLOCK FALSE
