CONSTANTS
  o1 = o1
  o2 = o2
  w1 = w1
  w2 = w2
  r1 = r1
  s1 = s1
  Orders = {o1, o2}
  Workers = {w1}
  Reapers = {r1}
  Products <- OneProduct
  Baskets <- OneUnit
  InitialStock <- TwoInStock
  Resend = {o1}
  Requests = {"confirm"}
  Seeders = {s1}
  Levels = {1}
  ReapBatch = 2
  MaxFaults = 1
SPECIFICATION FairSpec
PROPERTIES
  OnlyStalePutUndercounts
  ExpiredIsSettled
CHECK_DEADLOCK FALSE
