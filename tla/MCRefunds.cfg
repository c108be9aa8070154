SPECIFICATION FairSpec
CONSTANTS
  h1 = h1
  h2 = h2
  Handlers = {h1, h2}
  Rest = Rest
  Totals = {1, 2}
  Amounts = {0, 1, 2}
  ByHand = {"paid", "refunded"}
  MaxRefunds = 3
PROPERTIES
  WithinCap
  RequestsFit
  RefundedMeansReturned
  EveryHandlerEnds
