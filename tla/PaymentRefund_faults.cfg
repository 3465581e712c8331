SPECIFICATION Spec
CONSTANTS
  o1 = o1
  w1 = w1
  w2 = w2
  Orders = {o1}
  Workers = {w1, w2}
  Amount = 2
  Idempotent = TRUE
  MaxAttempts = 1
  MaxRefunds = 3
  MaxSpend = 1
  MaxFaults = 1
SYMMETRY WorkerSymmetry
INVARIANTS NeverGivesBackMore RefundedIsPaidBack
CHECK_DEADLOCK FALSE
