CONSTANTS
  c1 = c1
  c2 = c2
  c3 = c3
  c4 = c4
  Calls = {c1, c2, c3, c4}
  Threshold = 2
  ResetTimeout = 4
  SendTimeout = 3
SPECIFICATION FairSpec
INVARIANTS
  TypeOK
  SingleFlight
  TrialDecidesAlone
  NeverWedged
PROPERTIES
  Recovers
