SPECIFICATION LockSpec
CONSTANTS
  p1 = p1
  p2 = p2
  none = none
  w1 = w1
  w2 = w2
  Prints = {p1, p2}
  NoPrint = none
  Workers = {w1, w2}
  Lease = 6
  Renewal = 2
  Retention = 10
  MaxDelay = 1
  MaxRun = 9
  MaxTime = 14
  MaxFaults = 1
SYMMETRY Symmetry
INVARIANTS ExclusiveWithinLease
PROPERTIES CreatorKeepsLock
CHECK_DEADLOCK FALSE
