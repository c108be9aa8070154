SPECIFICATION Spec
CONSTANTS
  l1 = l1
  l2 = l2
  p1 = p1
  t1 = t1
  t2 = t2
  Locations = {l1, l2}
  Products = {p1}
  NoLocation = NoLocation
  NoTx = NoTx
  OrderIds = {1, 2, 3}
  Txs = {t1, t2}
  MaxQuantity = 2
  StartBooks <- MCStartBooks
  Jobs <- MCDistinctOrders
INVARIANTS
  SettledOnce
PROPERTIES
  AtomicTransactions
  EveryoneEnds
CHECK_DEADLOCK FALSE
