CONSTANTS
  p1 = p1
  p2 = p2
  Events = {1, 2, 3}
  Destinations <- Mixed
  Pollers = {p1}
  BatchSize = 2
  MaxAttempts = 2
  MaxBackoff = 1
  Healthy = {"audit"}
  MaxFaults = 1
SPECIFICATION FairSpec
INVARIANTS
  TypeOK
  AttemptsCounted
PROPERTIES
  KeepsItsPromise
  Settles
CHECK_DEADLOCK FALSE
