SPECIFICATION FairSpec
CONSTANTS
  MaxInstances = 2
  Users = {u1, u2}
  Reports = {m1}
  Drivers = {"memory"}
  MaxFaults = 1
INVARIANTS
  TypeOK
  PairAgrees
  RecordSound
PROPERTY EndRecorded
CHECK_DEADLOCK FALSE
