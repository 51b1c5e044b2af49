------------------------------ MODULE Services ------------------------------
(***************************************************************************)
(* The services around the orders that theorems are about: each over its   *)
(* own tables.  They share no table, so two services that have a name for  *)
(* a table of their own, as request or orders, have one variable here: a   *)
(* behaviour is one of a single service (see MCServices, which runs them). *)
(* A constant to which services give values of their own is a function of  *)
(* the service, named by the string that its instance applies it to.       *)
(***************************************************************************)
EXTENDS Integers, FiniteSets, Sequences

CONSTANTS
  UnitAmounts, Default, Expenses, Limit, MaxChanges, MaxRequests, MaxTime, Orders,
  Phones, Shippers, Staff, Transfers, Window,  \* functions of the service
  MaxOpen, None,                               \* bounds, and no value: of them all
  Processes, Images, Statements, MaxStarts,    \* of Startup
  Referrals, Recipients, Commissions,          \* of Payouts
  Entries,                                     \* of Ledger
  Shifts, Owner, Opening, Tolerance,           \* of CashDrawer
  Guests, MinPeople,                           \* of GroupRooms
  MaxReferences, MaxCarts, MaxVisits, MaxFlight, \* of Storefront
  MaxSends, MaxSales,                          \* of Inbox
  OfferedCarts, RuleIds, Bodies, Threshold, Life, Retention, RouteMax, \* of Deliveries
  Affiliates, Codes, MaxClicks,                \* of Affiliates
  Skus, Batches, MaxQty,                       \* of Materials
  UsageLimit, OfferedMoves,                    \* of Customers
  Prices, OfferedScopes,                       \* of Catalog
  Counts, Stock, MaxUnits,                     \* of StockLots
  Lots, LotSize, Reserved, Limits,             \* of Transfers
  MaxSecret,                                   \* of Accounts
  Audiences, maxAttempts, windowSeconds, blockSeconds, TTL, \* of SignIn
  MaxSites, StaffRoles,                        \* of Network
  Values, Members,                             \* of Settings
  Keys,                                        \* of Incidents
  PortalUsers, MaxLoads, MaxCalls,             \* of PortalPage
  OrderIds, Reach, Batch, MaxPolls, OwnSites, OtherSites, OwnMembers, OtherMembers, \* of Portal
  Position, Addresses, Spots, MaxActs, MaxFlights \* of StoreChoice

VARIABLES
  request,                                     \* of them all
  recorded, applied, process, starts,          \* of Startup
  orders, referrals, batches, items,           \* of Payouts
  entries, settlements, lines, payments, expenses, booked, closed, month, \* of Ledger
  shifts, movements, alerts,                   \* of CashDrawer
  room, reward,                                \* of GroupRooms
  page, posts, polls,                          \* of Storefront
  inbox, members, users, events, stock,        \* of Inbox
  rules, quotes, proofs, files, now,           \* of Deliveries
  codes, clicks,                               \* of Affiliates
  purchase, lots, inventory, payable, recipes, usage, finished, \* of Materials
  accounts, profiles, promotion, earned, placed, told, \* of Customers
  product, option, overrides, history, sold,   \* of Catalog
  expired, shelf, delivered, consumed, counts, adjusted, written, wasted, \* of StockLots
  transfers, kitchen, onHand, allocations, storeLots, account, \* of Transfers
  sessions, bucket, admitted,                  \* of Accounts
  active, assigned, counters, changes,         \* of SignIn
  site, closures, member, user, grants,        \* of Network
  customers, addresses, logged,                \* of PersonalData
  stored, rates, cache, past, served,          \* of Settings
  incidents,                                   \* of Incidents
  latest, live, cookie, session, snapshot, stream, timers, visible, flights,
  begun, calls, called, unseen, mark,          \* of PortalPage
  role, walk,                                  \* of Portal
  sites, signed, acts, place, saved, stores, menu, basket, quote, armed, quoting \* of StoreChoice

Boot == INSTANCE Startup
Payout == INSTANCE Payouts WITH
  MaxRequests <- MaxRequests["payout"]
Books == INSTANCE Ledger WITH
  MaxRequests <- MaxRequests["books"], Expenses <- Expenses["books"]
Drawer == INSTANCE CashDrawer WITH
  MaxRequests <- MaxRequests["drawer"], Orders <- Orders["drawer"],
  Staff <- Staff["drawer"], Shippers <- Shippers["drawer"],
  Amounts <- UnitAmounts["drawer"]
Group == INSTANCE GroupRooms WITH
  MaxRequests <- MaxRequests["group"]
Shop == INSTANCE Storefront
Desk == INSTANCE Inbox WITH
  MaxRequests <- MaxRequests["desk"], Phones <- Phones["desk"]
Home == INSTANCE Deliveries WITH
  MaxRequests <- MaxRequests["home"], MaxTime <- MaxTime["home"],
  Default <- Default["home"], Shippers <- Shippers["home"], Carts <- OfferedCarts
Partner == INSTANCE Affiliates WITH
  MaxRequests <- MaxRequests["partner"]
Kitchen == INSTANCE Materials WITH
  MaxRequests <- MaxRequests["kitchen"]
Club == INSTANCE Customers WITH
  MaxRequests <- MaxRequests["club"], Phones <- Phones["club"], Moves <- OfferedMoves
Menu == INSTANCE Catalog WITH
  MaxRequests <- MaxRequests["menu"], MaxTime <- MaxTime["menu"]
Shelf == INSTANCE StockLots WITH
  MaxRequests <- MaxRequests["shelf"], Orders <- Orders["shelf"], row <- shelf
Goods == INSTANCE Transfers WITH
  MaxRequests <- MaxRequests["goods"], Transfers <- Transfers["goods"]
Login == INSTANCE Accounts WITH
  MaxRequests <- MaxRequests["login"], Staff <- Staff["login"],
  MaxTime <- MaxTime["login"], Window <- Window["login"], Limit <- Limit["login"]
Entry == INSTANCE SignIn WITH
  MaxRequests <- MaxRequests["entry"], MaxChanges <- MaxChanges["entry"],
  MaxTime <- MaxTime["entry"]
Net == INSTANCE Network WITH
  MaxRequests <- MaxRequests["net"], Roles <- StaffRoles
Secret == INSTANCE PersonalData WITH
  MaxRequests <- MaxRequests["secret"], Phones <- Phones["secret"]
Tiers == INSTANCE Settings WITH
  Default <- Default["tiers"], MaxTime <- MaxTime["tiers"],
  MaxChanges <- MaxChanges["tiers"]
Watch == INSTANCE Incidents WITH
  MaxRequests <- MaxRequests["watch"], MaxTime <- MaxTime["watch"],
  MaxChanges <- MaxChanges["watch"], Limit <- Limit["watch"],
  Window <- Window["watch"]
Page == INSTANCE PortalPage WITH
  MaxChanges <- MaxChanges["page"], Users <- PortalUsers
Screen == INSTANCE Portal WITH
  Limit <- Limit["screen"], MaxTime <- MaxTime["screen"], Ids <- OrderIds
Near == INSTANCE StoreChoice WITH
  MaxChanges <- MaxChanges["near"]

-----------------------------------------------------------------------------
(* What the theorems assume of the constants. *)

(* Images carry a number of migrations each, and one carries the most. *)
ImagesAreCounted ==
  /\ Images \subseteq Nat /\ \E n \in Images : \A m \in Images : m <= n
  /\ Statements \in Nat

\* A settlement is numbered after its request, and commissions are finitely many.
BooksAreCounted == None \notin Books!Requests /\ IsFiniteSet(Entries)

\* A request, which names what it remits or closes, is none of the absent values.
TillIsNamed == None \notin Drawer!Requests /\ None \notin Shippers["drawer"]

\* An order carries the number of its request, which none of the absent values is.
RoomIsNamed == None \notin Group!Requests

OrderStatuses == {"new", "accepted", "delivering", "delivered", "delivery_failed", "cancelled"}
PaymentStatuses == {"pending", "paid", "expired", "refunded"}

\* The bounds are numbers, and absence is neither a row nor a state of the page.
ShopIsBounded ==
  /\ MaxReferences \in Nat /\ MaxCarts \in Nat /\ MaxVisits \in Nat \ {0}
  /\ None \notin Shop!Active /\ None \notin Shop!OrderRow
  /\ None \notin [status : OrderStatuses, payment : PaymentStatuses]

\* The day has a first request, and photos are kept for a number of minutes.
DayIsCounted == MaxRequests["home"] \in Nat \ {0} /\ Retention \in Nat

(* Quantities are counted in units, materials are finitely many. *)
UnitsAreCounted == MaxQty \in Nat /\ IsFiniteSet(Skus)

(* None is no request that writes. *)
WritersAreNamed == None \notin Menu!Requests

(* A window is not empty and lets something through. *)
PaceIsSet ==
  /\ MaxTime["login"] \in Nat /\ Window["login"] \in Nat \ {0} /\ Limit["login"] \in Nat \ {0}
  /\ None \notin [requests : Int, ends : Int]

(* None is no request that writes; sites are counted. *)
SitesAreCounted == None \notin Net!Requests /\ MaxSites \in Nat

\* The clock counts, and so does the time a copy lives.
SettingsAreTimed == TTL \in Nat /\ MaxTime["tiers"] \in Nat

(* The clock counts, and None is neither a time nor a row. *)
AlertsAreTimed ==
  MaxTime["watch"] \in Nat /\ Window["watch"] \in Nat /\ None \notin Watch!Time \cup Watch!Incident

(* Orders have a number, and reach a status that is one; None is no order, and  *)
(* no place in a list.                                                          *)
OrdersAreNumbered ==
  /\ OrderIds \subseteq Int /\ Reach \in Seq(Screen!Statuses) \ {<<>>}
  /\ None \notin [at : Int, committed : BOOLEAN, status : Screen!Statuses]
  /\ None \notin [at : Int, id : Int]

(* The chain has finitely many stores; stores and addresses are where numbers   *)
(* say, or nobody knows.                                                        *)
StoresArePlaced ==
  /\ IsFiniteSet(DOMAIN Position) /\ Spots \subseteq Int
  /\ \A s \in DOMAIN Position : Position[s] \in Int \cup {None}
  /\ \A a \in DOMAIN Addresses : Addresses[a].at \in Int \cup {None}

ASSUME ServicesAssumption ==
  /\ ImagesAreCounted
  /\ BooksAreCounted
  /\ TillIsNamed
  /\ RoomIsNamed
  /\ ShopIsBounded
  /\ DayIsCounted
  /\ UnitsAreCounted
  /\ WritersAreNamed
  /\ PaceIsSet
  /\ SitesAreCounted
  /\ SettingsAreTimed
  /\ AlertsAreTimed
  /\ OrdersAreNumbered
  /\ StoresArePlaced
=============================================================================
