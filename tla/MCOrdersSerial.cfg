SPECIFICATION Spec
CONSTANTS
  l1 = l1
  p1 = p1
  r1 = r1
  r2 = r2
  Locations = {l1}
  Products = {p1}
  NoLocation = NoLocation
  OrderIds = {1}
  Requests = {r1}
  Operations = {"charge", "news", "expiryDue", "cancel", "status", "reinstate", "payment", "correct", "items"}
  Kinds = {"gateway", "cash"}
  MaxQuantity = 2
  MaxAttempts = 1
  MaxUnits = 2
  MaxRows = 3
INVARIANTS
  PendingIsReserved
  CommittedIsTaken
  CancelledKeepsNothing
PROPERTIES
  SellsFromOneShelf
  PaidStaysPaid
CHECK_DEADLOCK FALSE
