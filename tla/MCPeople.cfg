SPECIFICATION MCSpec
CONSTANTS
  Null = Null
  e1 = e1
  e2 = e2
  Members = {"ana", "jefa", "root"}
  Assigned = {"ana"}
  TierOf <- MCTierOf
  BaseKeys = {"GROCER"}
  CustomRoles = {"c1"}
  Edits = {e1, e2}
  Requests <- MCRequests
  Staffers = {"root", "eva"}
  Root = "root"
  RootAccount = "r1"
  AdminAccounts = {"a1", "r1"}
  StafferOf <- MCStafferOf
  MaxInvitations = 2
  Customers = {"eva"}
  StoreAccounts = {"a1", "a2"}
  CustomerOf <- MCCustomerOf
  Invitees = {"eva"}
  BookRequests = {"r1"}
  MAX_ADDRESSES_PER_CLIENT = 3
  MaxCreated = 4
INVARIANTS
  RoutesServeTheirOwn
  ReadsComeAlong
  
  
  
  OneDefault
PROPERTIES
  EventuallyRegistered
CHECK_DEADLOCK FALSE
