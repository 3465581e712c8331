SPECIFICATION Spec
CONSTANTS
  Clients = {r1, r2, l1}
  Live = {l1}
  r1 = r1
  r2 = r2
  l1 = l1
  Limit <- UserTwoAccountOne
  QueueLimit = 1
  SlotTTL = 2
  LeaseTTL = 2
  QueueTTL = 2
  MaxWait = 2
  MaxFaults = 1
INVARIANTS WithinLimit WaitersCounted
PROPERTIES QueueReopens
CHECK_DEADLOCK FALSE
