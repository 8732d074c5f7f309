CONSTANTS
  o1 = o1
  Orders = {o1}
  Products <- MCProducts
  Baskets <- MCBaskets
  InitialStock <- MCStock
SPECIFICATION TrailSpec
INVARIANT TrailIsTrue
CHECK_DEADLOCK FALSE
