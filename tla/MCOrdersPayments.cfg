SPECIFICATION FairSpec
CONSTANTS
  l1 = l1
  p1 = p1
  r1 = r1
  r2 = r2
  Locations = {l1}
  Products = {p1}
  NoLocation = NoLocation
  OrderIds = {1}
  Requests = {r1}
  Operations = {"charge", "news", "expiryDue", "cancel", "status", "reinstate"}
  Kinds = {"gateway", "cash"}
  MaxQuantity = 1
  MaxAttempts = 2
  MaxUnits = 1
  MaxRows = 3
INVARIANTS
  SucceededIsPaid
  LatePaymentResolved
PROPERTIES
  UnpaidIsReleased
CHECK_DEADLOCK FALSE
