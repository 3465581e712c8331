\* A poller, a full rebuild and a request that finds nothing; two changes, whose
\* transactions may commit in the other order, and one failure.
SPECIFICATION SnapshotSpec
CONSTANTS
  p1 = p1
  f1 = f1
  r1 = r1
  Pollers = {p1}
  Rebuilders = {f1}
  Lookups = {r1}
  None = None
  MaxChanges = 2
  MaxFaults = 1
INVARIANT PublishedIsFresh
PROPERTIES Heals
CHECK_DEADLOCK FALSE
