CONSTANTS
  o1 = o1
  o2 = o2
  w1 = w1
  w2 = w2
  r1 = r1
  s1 = s1
  Orders = {o1, o2}
  Workers = {w1, w2}
  Reapers = {r1}
  Products <- MCProducts
  Baskets <- MCBaskets
  InitialStock <- MCStock
  Resend = {}
  Requests = {"confirm", "cancel", "orphan"}
  Seeders = {}
  Levels = {}
  ReapBatch = 1
  MaxFaults = 1
SYMMETRY Symmetry
SPECIFICATION Spec
INVARIANTS
  TypeOK
  NoWaitCycle
  ReservedMatchesHeld
  HeldFitsStock
  StockConserved
PROPERTIES
  LedgerSpec
  OutcomeIsFinal
CHECK_DEADLOCK FALSE
