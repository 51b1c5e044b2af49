SPECIFICATION Spec
CONSTANTS
  Tokens = {r1, r2}
  Parties = {p1, p2}
  Thing = t1
  None = None
  UnitAmounts <- MCUnitAmounts
  Default <- MCDefault
  Expenses <- MCExpenses
  Limit <- MCLimit
  MaxChanges <- MCMaxChanges
  MaxRequests <- MCMaxRequests
  MaxTime <- MCMaxTime
  Orders <- MCOrders
  Phones <- MCPhones
  Shippers <- MCShippers
  Staff <- MCStaff
  Transfers <- MCTransfers
  Window <- MCWindow
  Addresses <- MCAddresses
  Affiliates <- MCAffiliates
  Audiences <- MCAudiences
  Batch = 1
  Batches <- MCBatches
  Bodies <- MCBodies
  OfferedCarts <- MCOfferedCarts
  ChannelOf <- MCChannelOf
  Codes <- MCCodes
  Commissions = {1000000}
  Cost = 2
  Counts = {"count 1", "count 2"}
  DayMinutes = 4
  DayPlans <- MCDayPlans
  Entries <- MCEntries
  GrossAmount = 5
  Guests <- MCGuests
  Handlers <- MCHandlers
  OrderIds = {1, 2}
  Images = {2, 3}
  Keys = {1, 2}
  OfferedKinds = {"create", "advance"}
  Life = 1
  Limits = {1}
  LotSize = 1
  Lots = {1, 2}
  MaxActs = 2
  MaxAttempts = 1
  MaxCalls = 3
  MaxCarts = 1
  MaxClicks = 2
  MaxDay = 2
  MaxFlight = 2
  MaxFlights = 3
  MaxLength = 5
  MaxLines = 2
  MaxLoads = 2
  MaxOpen = 2
  MaxPolls = 2
  MaxQty = 2
  MaxReferences = 2
  MaxSales = 1
  MaxSecret = 2
  MaxSends = 2
  MaxSites = 3
  MaxStamp = 6
  MaxStarts = 4
  MaxUnits = 1
  MaxVisits = 2
  MaxWrites = 3
  Members <- MCMembers
  MinPeople = 2
  OfferedMoves = {"delivered"}
  OfferedMethods = {"cash"}
  OfferedScopes = {"site"}
  OfferedTypes = {"pickup"}
  OnHand = 2
  Opening = {1}
  OtherMembers = {"other shipper"}
  OtherSites = {"other site"}
  OwnMembers = {"shipper"}
  OwnSites = {"site"}
  Owner = "owner"
  Position <- MCPosition
  Prices = {10, 20}
  Processes <- MCProcesses
  Reach <- MCReach
  Recipients <- MCRecipients
  RefundReferences = {}
  Referrals = {"referral 1", "referral 2"}
  Reserved = 0
  Retail = 10
  Retention = 1
  StaffRoles = {"kitchen", "cashier"}
  RouteMax = 2
  RuleIds = {1}
  Scheduling = {FALSE}
  Shifts <- MCShifts
  Skus <- MCSkus
  Spent = 1
  Spots = {5}
  Statements = 2
  Stock <- MCStock
  TTL = 1
  Threshold = 9
  Tolerance = 1
  UsageLimit = 1
  PortalUsers <- MCPortalUsers
  Values <- MCValues
  WeekDays = 3
  blockSeconds = 1
  maxAttempts = 2
  windowSeconds = 1
INVARIANTS
  TypeOK
  CountersAgree
  BooksAgree
  DocumentsActOnce
  CommissionsPayOnce
  CreditsMatchOrders
  UpkeepHolds
  AccountsAdmit
  CheckoutsHold
  RulesAgree
  ReadsAreComplete
PROPERTIES
  FinalStays
  OwnersStay
  EditsKeep
SYMMETRY Symmetry
CHECK_DEADLOCK FALSE
