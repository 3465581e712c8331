SPECIFICATION BillingFairSpec
CONSTANTS
  server = server
  r1 = r1
  r2 = r2
  Instances = {server}
  Requests = {r1, r2}
  At <- Here
  Start = 3
  Reserve = 2
  QueueSize = 2
  Threshold = 2
  Trials = 1
  MaxCredits = 1
  MaxDebits = 1
  MaxFaults = 3
INVARIANTS ChargedOnce ExhaustedIsRefused
PROPERTY SolventIsServed
CHECK_DEADLOCK FALSE
