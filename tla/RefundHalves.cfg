SPECIFICATION Spec
CONSTANTS
  h1 = h1
  h2 = h2
  Handlers = {h1, h2}
  Rest = Rest
  Totals = {2}
  Amounts = {1, 2}
  ByHand = {}
  MaxRefunds = 2
INVARIANTS
  FullReturnShows
SYMMETRY HandlerSymmetry
CHECK_DEADLOCK FALSE
