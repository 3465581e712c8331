SPECIFICATION FairSpec
CONSTANTS
  o1 = o1
  o2 = o2
  w1 = w1
  w2 = w2
  Orders = {o1, o2}
  Workers = {w1, w2}
  Amount = 1
  Idempotent = FALSE
  MaxAttempts = 3
  MaxRefunds = 3
  MaxSpend = 0
  MaxFaults = 0
INVARIANTS RestingOrderKeepsBalance NeverTakesTwice
CHECK_DEADLOCK FALSE
PROPERTIES RefundedIsFinal RefundingEnds
