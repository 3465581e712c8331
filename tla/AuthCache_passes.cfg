SPECIFICATION Spec
CONSTANTS
  i1 = i1
  i2 = i2
  r1 = r1
  r2 = r2
  None = None
  Instances = {i1, i2}
  Readers = {r1, r2}
  At <- OneInEach
  MaxChanges = 1
  Absent = {1}
  LoadTime = 1
  SafetyDelay = 2
  LocalTTL = 1
  Lease = 2
  RetryDelay = 1
  MaxFaults = 2
INVARIANTS SharedIsCurrent LocalCatchesUp
PROPERTIES ChangeReachesAll
CHECK_DEADLOCK FALSE
