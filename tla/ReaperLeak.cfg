CONSTANTS
  o1 = o1
  o2 = o2
  w1 = w1
  w2 = w2
  r1 = r1
  s1 = s1
  Orders = {o1}
  Workers = {w1}
  Reapers = {r1}
  Products <- OneProduct
  Baskets <- OneUnit
  InitialStock <- OneInStock
  Resend = {o1}
  Requests = {"confirm", "cancel", "orphan"}
  Seeders = {}
  Levels = {}
  ReapBatch = 1
  MaxFaults = 0
SPECIFICATION FairSpec
PROPERTIES
  ReaperIsSafetyNet
CHECK_DEADLOCK FALSE
