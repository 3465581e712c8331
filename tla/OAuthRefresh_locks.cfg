SPECIFICATION Spec
CONSTANTS
  b1 = b1
  b2 = b2
  q1 = q1
  Workers = {b1, b2, q1}
  Background = {b1, b2}
  At <- TwoProcesses
  MaxAttempts = 2
  MaxAges = 1
  MaxRequests = 1
  MaxEdits = 1
  MaxFaults = 1
INVARIANTS OneRefreshAtATime TokenKept
PROPERTIES JustQuarantine DueIsRenewed
CHECK_DEADLOCK FALSE
