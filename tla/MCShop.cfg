SPECIFICATION MCSpec
CONSTANTS
  Null = Null
  r1 = r1
  r2 = r2
  CartProducts = {p1, p2}
  CartOrders = {1, 2}
  CartRequests = {r1}
  MaxInCart = 2
  MaxRowIds = 3
  Methods = {"wallet"}
  ChargeRequests = {r1, r2}
  Outcomes = {"succeeded"}
  MaxAttempts = 2
  MaxBorn = 2
  Instants <- MCInstants
  PromiseDays = {0, 1, 2, 5}
  Provinces = {"A", "B"}
  ProvinceOf <- MCProvinceOf
  Locations = {"L1", "L2"}
  Counters = {"x"}
  PointIds = {1, 2}
  Options = {"o1"}
  CoverageInputs <- MCCoverageInputs
  ZoneInputs <- MCZoneInputs
  FEE = 5
  Thresholds = {0, 20}
  Subtotals = {19, 20}
  Cats = {"x", "y"}
  Products = {"p"}
  Storages = {"s"}
  Towns = {"m1", "m2"}
  Covering <- MCCovering
  Banners = {"b"}
  Featurable = {"p"}
  MaxQuantity = 1
  Pages = {"n"}
  NoticeIds = {"n"}
  Texts = {"", "t", "u"}
  Windows <- MCWindows
  Requests = {r1, r2}
  MaxVersions = 2
  OrderIds = {"o1"}
  PickupOrders = {"o1"}
  Addresses = {"eva"}
  PICKUP_REMINDER_DAYS <- MCReminderDays
  PICKUP_CUSTODY_DAYS = 3
  DaysPerMonth = 2
  Quota <- MCQuota
  Prescindibles <- MCPrescindibles
  Apagadas <- MCApagadas
  Sweepers = {"cron"}
  Slots = {"slot"}
  MaxDay = 3
  MaxCopies = 2
INVARIANTS
  RetryIsFresh
  NoExcess
  PromiseMatchesPayment
  DeadEndsReported
  AcceptedIsServable
  ShownIsServed
  RecordComplete
  MissedIsMadeUp
  RemindersBounded
PROPERTIES
  PromiseStands
CHECK_DEADLOCK FALSE
