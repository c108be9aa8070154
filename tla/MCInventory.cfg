SPECIFICATION Spec
CONSTANTS
  l1 = l1
  l2 = l2
  p1 = p1
  Locations = {l1, l2}
  Products = {p1}
  NoLocation = NoLocation
  Counters = {l2}
  Marks = {"cancelled"}
  OrderIds = {1, 2}
  MaxQuantity = 2
  MaxUnits = 4
  MaxRows = 3
INVARIANTS
  TypeOK
  HoldsMatchRows
  NoOversell
  LedgerReconstructs
PROPERTIES
  HistoryKept
  TransferRehomesAll
CHECK_DEADLOCK FALSE
