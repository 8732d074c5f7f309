CONSTANTS
  o1 = o1
  Orders = {o1}
  Products <- MCProducts
  Baskets <- MCBaskets
  InitialStock <- MCStock
SPECIFICATION TrailSpec
INVARIANTS
  TrailTypeOK
  TrailIsWhole
  TrailNeverAhead
  OrphanIsNoOrder
PROPERTIES
  KeepsTheSaga
CHECK_DEADLOCK FALSE
