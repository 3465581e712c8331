SPECIFICATION Spec
CONSTANTS
  None = None
  Orphan = Orphan
  Jobs = {j1, j2}
  j1 = j1
  j2 = j2
  Workers = {w1, w2}
  w1 = w1
  w2 = w2
  MaxFaults = 3
INVARIANT NothingLost
PROPERTIES KeepsPromise QueuedIsProcessed
CHECK_DEADLOCK FALSE
