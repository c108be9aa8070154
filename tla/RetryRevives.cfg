SPECIFICATION Spec
CONSTANTS
  l1 = l1
  p1 = p1
  r1 = r1
  r2 = r2
  Locations = {l1}
  Products = {p1}
  NoLocation = NoLocation
  OrderIds = {1}
  Requests = {r1, r2}
  Operations = {"charge", "cancel"}
  Kinds = {"gateway"}
  MaxQuantity = 1
  MaxAttempts = 1
  MaxUnits = 1
  MaxRows = 2
INVARIANTS
  PendingIsReserved
CHECK_DEADLOCK FALSE
