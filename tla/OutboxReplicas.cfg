CONSTANTS
  p1 = p1
  p2 = p2
  Events = {1}
  Destinations <- Single
  Pollers = {p1, p2}
  BatchSize = 2
  MaxAttempts = 2
  MaxBackoff = 1
  Healthy = {}
  MaxFaults = 1
SPECIFICATION FairSpec
INVARIANTS
  SentWasHandled
PROPERTIES
  Settles
CHECK_DEADLOCK FALSE
