SPECIFICATION Spec
CONSTANTS
  p1 = p1
  p2 = p2
  none = none
  w1 = w1
  w2 = w2
  Prints = {p1, p2}
  NoPrint = none
  Workers = {w1, w2}
  Lease = 2
  Backoff = 1
  Retention = 4
  MaxTime = 8
  MaxFaults = 2
SYMMETRY Symmetry
INVARIANTS OneExecution SuccessIsReal
PROPERTIES OncePerRetention
CHECK_DEADLOCK FALSE
