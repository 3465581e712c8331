SPECIFICATION Spec
CONSTANTS
  j1 = j1
  w1 = w1
  Jobs = {j1}
  Workers = {w1}
  Hold = 2
  Funds = 3
  Others = 2
  LocksExpire = FALSE
  MaxRetries = 4
  MaxFaults = 3
INVARIANTS ChargedIfCompleted MoneyAddsUp
PROPERTIES FinishedStaysFinished HoldEnds
CHECK_DEADLOCK FALSE
