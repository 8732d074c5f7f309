CONSTANTS
  o1 = o1
  o2 = o2
  Orders = {o1, o2}
  Products <- MCProducts
  Baskets <- MCBaskets
  InitialStock <- MCStock
SYMMETRY Symmetry
SPECIFICATION Spec
INVARIANTS
  ConfirmCommits
CHECK_DEADLOCK FALSE
