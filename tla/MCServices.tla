----------------------------- MODULE MCServices -----------------------------
(***************************************************************************)
(* The services around the orders, and two orders that share a product,    *)
(* checked in one run.  The modules share no table, so a behaviour is one  *)
(* of a single `part`, chosen at the start: its tables are in their        *)
(* variables, and those it does not have are None and stay so.  At the end *)
(* are the values TLC gives the constants.                                 *)
(***************************************************************************)
EXTENDS Services, TLC

CONSTANTS
  Handlers, RefundReferences, MaxAttempts, OnHand, MaxStamp, OfferedMethods,
  OfferedTypes, Scheduling, OfferedKinds,      \* of OrderSystem
  WeekDays, DayMinutes, DayPlans, Retail, MaxLines, \* of Rules
  ChannelOf, GrossAmount, Cost, Spent, MaxWrites, MaxDay, \* of Reports
  MaxLength                                    \* of SqlText

VARIABLES
  part,                                        \* the service a behaviour is of
  attempts, transactions, refunds, reservations, activeOrders, allocation,
  ledger, cashSales, staff, req,               \* of OrderSystem
  input, answer,                               \* of Rules
  today, writes, report,                       \* of Reports
  text                                         \* of SqlText

vars == <<part,
  orders, attempts, transactions, refunds, reservations, stock, activeOrders,
  allocation, ledger, cashSales, staff, req, shifts, movements, alerts, request,
  transfers, kitchen, onHand, allocations, storeLots, account, entries, lots,
  expired, shelf, delivered, consumed, counts, adjusted, written, wasted, purchase,
  inventory, payable, recipes, batches, usage, finished, settlements, lines,
  payments, expenses, booked, closed, month, referrals, items, members, codes,
  clicks, room, reward, accounts, profiles, promotion, earned, placed, told, users,
  sessions, bucket, admitted, now, active, assigned, counters, changes, product,
  option, overrides, history, sold, site, closures, member, user, grants, stored,
  rates, cache, past, served, page, posts, polls, input, answer, today, writes,
  report, latest, live, cookie, session, snapshot, stream, timers, visible, flights,
  begun, calls, called, unseen, mark, rules, quotes, proofs, files, incidents,
  customers, addresses, logged, text, recorded, applied, process, starts, sites,
  signed, acts, place, saved, stores, menu, basket, quote, armed, quoting, inbox,
  events, role, walk>>

\* With its theorems, for MCServices_proof.
Product == INSTANCE OrderLife_proof WITH
  Orders <- Orders["product"], Transfers <- Transfers["product"],
  Shippers <- Shippers["product"], Kinds <- OfferedKinds, References <- RefundReferences
Rule == INSTANCE Rules WITH
  Amounts <- UnitAmounts["rule"]
Money == INSTANCE Reports WITH
  Orders <- Orders["money"], Expenses <- Expenses["money"], Gross <- GrossAmount
Sql == INSTANCE SqlText

ASSUME ProductAssumption == Product!TablesAssumption

(* The variables a part does not have. *)
Unused ==
  /\ part \notin {"product", "payout", "partner", "group", "shop", "money", "home",
                  "secret", "screen"} =>
       orders = None
  /\ part # "product" =>
       attempts = None /\ transactions = None /\ refunds = None /\ reservations = None /\
       activeOrders = None /\ allocation = None /\ ledger = None /\ cashSales = None /\
       staff = None /\ req = None
  /\ part \notin {"product", "desk"} =>
       stock = None
  /\ part # "drawer" =>
       shifts = None /\ movements = None
  /\ part \notin {"drawer", "watch", "desk"} =>
       alerts = None
  /\ part \notin {"drawer", "goods", "shelf", "kitchen", "books", "payout",
                  "partner", "group", "club", "login", "entry", "menu", "net",
                  "tiers", "home", "watch", "secret", "desk"} =>
       request = None
  /\ part # "goods" =>
       transfers = None /\ kitchen = None /\ onHand = None /\ storeLots = None /\
       account = None
  /\ part \notin {"goods", "money"} =>
       allocations = None
  /\ part \notin {"goods", "books"} =>
       entries = None
  /\ part \notin {"shelf", "kitchen"} =>
       lots = None
  /\ part # "shelf" =>
       expired = None /\ shelf = None /\ delivered = None /\ consumed = None /\
       adjusted = None /\ written = None /\ wasted = None
  /\ part \notin {"shelf", "watch"} =>
       counts = None
  /\ part # "kitchen" =>
       purchase = None /\ inventory = None /\ payable = None /\ recipes = None /\
       usage = None /\ finished = None
  /\ part \notin {"kitchen", "payout"} =>
       batches = None
  /\ part # "books" =>
       settlements = None /\ lines = None /\ payments = None /\ booked = None /\
       closed = None /\ month = None
  /\ part \notin {"books", "money"} =>
       expenses = None
  /\ part # "payout" =>
       referrals = None
  /\ part \notin {"payout", "group"} =>
       items = None
  /\ part \notin {"partner", "desk"} =>
       members = None
  /\ part \notin {"partner", "net"} =>
       codes = None
  /\ part # "partner" =>
       clicks = None
  /\ part # "group" =>
       room = None /\ reward = None
  /\ part \notin {"club", "secret"} =>
       accounts = None
  /\ part # "club" =>
       profiles = None /\ promotion = None /\ earned = None /\ placed = None /\ told = None
  /\ part \notin {"login", "desk"} =>
       users = None
  /\ part \notin {"login", "entry"} =>
       sessions = None
  /\ part # "login" =>
       bucket = None /\ admitted = None
  /\ part \notin {"login", "entry", "menu", "tiers", "home", "watch", "screen"} =>
       now = None
  /\ part # "entry" =>
       active = None /\ assigned = None /\ counters = None
  /\ part \notin {"entry", "tiers", "watch", "near"} =>
       changes = None
  /\ part # "menu" =>
       product = None /\ option = None /\ overrides = None /\ history = None /\ sold = None
  /\ part # "net" =>
       site = None /\ closures = None /\ member = None /\ user = None /\ grants = None
  /\ part # "tiers" =>
       stored = None /\ rates = None /\ cache = None /\ past = None /\ served = None
  /\ part \notin {"shop", "desk"} =>
       page = None
  /\ part # "shop" =>
       posts = None /\ polls = None
  /\ part # "rule" =>
       input = None /\ answer = None
  /\ part # "money" =>
       today = None /\ writes = None /\ report = None
  /\ part # "page" =>
       latest = None /\ live = None /\ cookie = None /\ session = None /\ snapshot = None /\
       timers = None /\ visible = None /\ begun = None /\ calls = None /\ called = None /\
       unseen = None /\ mark = None
  /\ part \notin {"page", "screen"} =>
       stream = None
  /\ part \notin {"page", "near"} =>
       flights = None
  /\ part # "home" =>
       rules = None /\ quotes = None /\ proofs = None /\ files = None
  /\ part # "watch" =>
       incidents = None
  /\ part # "secret" =>
       customers = None /\ addresses = None /\ logged = None
  /\ part # "sql" =>
       text = None
  /\ part # "boot" =>
       recorded = None /\ applied = None /\ process = None /\ starts = None
  /\ part # "near" =>
       sites = None /\ signed = None /\ acts = None /\ place = None /\ saved = None /\
       stores = None /\ menu = None /\ basket = None /\ quote = None /\ armed = None /\
       quoting = None
  /\ part # "desk" =>
       inbox = None /\ events = None
  /\ part # "screen" =>
       role = None /\ walk = None

UnusedStay ==
  /\ part \notin {"product", "payout", "partner", "group", "shop", "money", "home",
                  "secret", "screen"} =>
       UNCHANGED <<orders>>
  /\ part # "product" =>
       UNCHANGED <<attempts, transactions, refunds, reservations, activeOrders,
                   allocation, ledger, cashSales, staff, req>>
  /\ part \notin {"product", "desk"} =>
       UNCHANGED <<stock>>
  /\ part # "drawer" =>
       UNCHANGED <<shifts, movements>>
  /\ part \notin {"drawer", "watch", "desk"} =>
       UNCHANGED <<alerts>>
  /\ part \notin {"drawer", "goods", "shelf", "kitchen", "books", "payout",
                  "partner", "group", "club", "login", "entry", "menu", "net",
                  "tiers", "home", "watch", "secret", "desk"} =>
       UNCHANGED <<request>>
  /\ part # "goods" =>
       UNCHANGED <<transfers, kitchen, onHand, storeLots, account>>
  /\ part \notin {"goods", "money"} =>
       UNCHANGED <<allocations>>
  /\ part \notin {"goods", "books"} =>
       UNCHANGED <<entries>>
  /\ part \notin {"shelf", "kitchen"} =>
       UNCHANGED <<lots>>
  /\ part # "shelf" =>
       UNCHANGED <<expired, shelf, delivered, consumed, adjusted, written, wasted>>
  /\ part \notin {"shelf", "watch"} =>
       UNCHANGED <<counts>>
  /\ part # "kitchen" =>
       UNCHANGED <<purchase, inventory, payable, recipes, usage, finished>>
  /\ part \notin {"kitchen", "payout"} =>
       UNCHANGED <<batches>>
  /\ part # "books" =>
       UNCHANGED <<settlements, lines, payments, booked, closed, month>>
  /\ part \notin {"books", "money"} =>
       UNCHANGED <<expenses>>
  /\ part # "payout" =>
       UNCHANGED <<referrals>>
  /\ part \notin {"payout", "group"} =>
       UNCHANGED <<items>>
  /\ part \notin {"partner", "desk"} =>
       UNCHANGED <<members>>
  /\ part \notin {"partner", "net"} =>
       UNCHANGED <<codes>>
  /\ part # "partner" =>
       UNCHANGED <<clicks>>
  /\ part # "group" =>
       UNCHANGED <<room, reward>>
  /\ part \notin {"club", "secret"} =>
       UNCHANGED <<accounts>>
  /\ part # "club" =>
       UNCHANGED <<profiles, promotion, earned, placed, told>>
  /\ part \notin {"login", "desk"} =>
       UNCHANGED <<users>>
  /\ part \notin {"login", "entry"} =>
       UNCHANGED <<sessions>>
  /\ part # "login" =>
       UNCHANGED <<bucket, admitted>>
  /\ part \notin {"login", "entry", "menu", "tiers", "home", "watch", "screen"} =>
       UNCHANGED <<now>>
  /\ part # "entry" =>
       UNCHANGED <<active, assigned, counters>>
  /\ part \notin {"entry", "tiers", "watch", "near"} =>
       UNCHANGED <<changes>>
  /\ part # "menu" =>
       UNCHANGED <<product, option, overrides, history, sold>>
  /\ part # "net" =>
       UNCHANGED <<site, closures, member, user, grants>>
  /\ part # "tiers" =>
       UNCHANGED <<stored, rates, cache, past, served>>
  /\ part \notin {"shop", "desk"} =>
       UNCHANGED <<page>>
  /\ part # "shop" =>
       UNCHANGED <<posts, polls>>
  /\ part # "rule" =>
       UNCHANGED <<input, answer>>
  /\ part # "money" =>
       UNCHANGED <<today, writes, report>>
  /\ part # "page" =>
       UNCHANGED <<latest, live, cookie, session, snapshot, timers, visible, begun,
                   calls, called, unseen, mark>>
  /\ part \notin {"page", "screen"} =>
       UNCHANGED <<stream>>
  /\ part \notin {"page", "near"} =>
       UNCHANGED <<flights>>
  /\ part # "home" =>
       UNCHANGED <<rules, quotes, proofs, files>>
  /\ part # "watch" =>
       UNCHANGED <<incidents>>
  /\ part # "secret" =>
       UNCHANGED <<customers, addresses, logged>>
  /\ part # "sql" =>
       UNCHANGED <<text>>
  /\ part # "boot" =>
       UNCHANGED <<recorded, applied, process, starts>>
  /\ part # "near" =>
       UNCHANGED <<sites, signed, acts, place, saved, stores, menu, basket, quote,
                   armed, quoting>>
  /\ part # "desk" =>
       UNCHANGED <<inbox, events>>
  /\ part # "screen" =>
       UNCHANGED <<role, walk>>

Init ==
  /\ \/ part = "product" /\ Product!Init
     \/ part = "drawer" /\ Drawer!Init
     \/ part = "goods" /\ Goods!Init
     \/ part = "shelf" /\ Shelf!Init
     \/ part = "kitchen" /\ Kitchen!Init
     \/ part = "books" /\ Books!Init
     \/ part = "payout" /\ Payout!Init
     \/ part = "partner" /\ Partner!Init
     \/ part = "group" /\ Group!Init
     \/ part = "club" /\ Club!Init
     \/ part = "login" /\ Login!Init
     \/ part = "entry" /\ Entry!Init
     \/ part = "menu" /\ Menu!Init
     \/ part = "net" /\ Net!Init
     \/ part = "tiers" /\ Tiers!Init
     \/ part = "shop" /\ Shop!Init
     \/ part = "rule" /\ Rule!Init
     \/ part = "money" /\ Money!Init
     \/ part = "page" /\ Page!Init
     \/ part = "home" /\ Home!Init
     \/ part = "watch" /\ Watch!Init
     \/ part = "secret" /\ Secret!Init
     \/ part = "sql" /\ Sql!Init
     \/ part = "boot" /\ Boot!Init
     \/ part = "near" /\ Near!Init
     \/ part = "desk" /\ Desk!Init
     \/ part = "screen" /\ Screen!Init
  /\ Unused

Next ==
  /\ UnusedStay /\ UNCHANGED part
  /\ \/ part = "product" /\ Product!Next
     \/ part = "drawer" /\ Drawer!Next
     \/ part = "goods" /\ Goods!Next
     \/ part = "shelf" /\ Shelf!Next
     \/ part = "kitchen" /\ Kitchen!Next
     \/ part = "books" /\ Books!Next
     \/ part = "payout" /\ Payout!Next
     \/ part = "partner" /\ Partner!Next
     \/ part = "group" /\ Group!Next
     \/ part = "club" /\ Club!Next
     \/ part = "login" /\ Login!Next
     \/ part = "entry" /\ Entry!Next
     \/ part = "menu" /\ Menu!Next
     \/ part = "net" /\ Net!Next
     \/ part = "tiers" /\ Tiers!Next
     \/ part = "shop" /\ Shop!Next
     \/ part = "rule" /\ Rule!Next
     \/ part = "money" /\ Money!Next
     \/ part = "page" /\ Page!Next
     \/ part = "home" /\ Home!Next
     \/ part = "watch" /\ Watch!Next
     \/ part = "secret" /\ Secret!Next
     \/ part = "sql" /\ Sql!Next
     \/ part = "boot" /\ Boot!Next
     \/ part = "near" /\ Near!Next
     \/ part = "desk" /\ Desk!Next
     \/ part = "screen" /\ Screen!Next

Spec == Init /\ [][Next]_vars

-----------------------------------------------------------------------------
\* Every table of every part holds rows of the schema only (product: see BankRaces).
TypeOK ==
  /\ part = "drawer" => Drawer!TypeOK
  /\ part = "goods" => Goods!TypeOK
  /\ part = "shelf" => Shelf!TypeOK
  /\ part = "kitchen" => Kitchen!TypeOK
  /\ part = "books" => Books!TypeOK
  /\ part = "payout" => Payout!TypeOK
  /\ part = "partner" => Partner!TypeOK
  /\ part = "group" => Group!TypeOK
  /\ part = "club" => Club!TypeOK
  /\ part = "login" => Login!TypeOK
  /\ part = "entry" => Entry!TypeOK
  /\ part = "menu" => Menu!TypeOK
  /\ part = "net" => Net!TypeOK
  /\ part = "tiers" => Tiers!TypeOK
  /\ part = "shop" => Shop!TypeOK
  /\ part = "rule" => Rule!TypeOK
  /\ part = "money" => Money!TypeOK
  /\ part = "page" => Page!TypeOK
  /\ part = "home" => Home!TypeOK
  /\ part = "watch" => Watch!TypeOK
  /\ part = "secret" => Secret!TypeOK
  /\ part = "sql" => Sql!TypeOK
  /\ part = "boot" => Boot!TypeOK
  /\ part = "near" => Near!TypeOK
  /\ part = "desk" => Desk!TypeOK
  /\ part = "screen" => Screen!TypeOK

\* Two orders that compete for two units neither make nor lose one, and the reserved
\* counter is the sum of the active reservations; a remittance is backed by the
\* COD it hands over and a site has one open shift, although both are looked up
\* before they are written.
CountersAgree ==
  /\ part = "product" => Product!StockConserved /\ Product!ReservedMatchesReservations
  /\ part = "drawer" => Drawer!RemittanceIsBacked /\ Drawer!OneOpenShift

\* What is paid has its payment, an entry is in one settlement, an approved
\* expense is in the books, whichever two clerks settle, pay and review at once.
BooksAgree ==
  /\ part = "books" => Books!PaidHasPayment /\ Books!SettledOnce /\ Books!ExpenseBooked

\* A supply document does its work once: a transfer that is received is charged
\* once and in full, a count writes its shortage once, a purchase gets no more than
\* it ordered; a delivery its shipper ended has its proof; a request of a
\* customer and its alert are closed together, by one.
DocumentsActOnce ==
  /\ part = "goods" => Goods!ReceivedOnce
  /\ part = "shelf" => Shelf!ShortageOnce
  /\ part = "kitchen" => Kitchen!ReceivedWithinOrder
  /\ part = "home" => Home!EndHasProof /\ Home!PhotoIsKept
  /\ part = "desk" => Desk!ClosedTogether /\ Desk!ResolvedByOne /\ Desk!SentIsStored

\* A commission goes out with one batch, and only when its order was past dispute.
CommissionsPayOnce ==
  /\ part = "payout" => Payout!BatchedOnce /\ Payout!EarnedAfterDispute

\* A group has one order and its host the reward of that order; a click is
\* credited to the order it led to; codes of a paused affiliate rest.
CreditsMatchOrders ==
  /\ part = "group" => Group!OneOrderPerRoom /\ Group!RewardMatchesOrder
  /\ part = "partner" => Partner!ClickMatchesOrder /\ Partner!PausedCodesRest

\* What runs unattended does its work: an open incident is alerted, at most once
\* per window; what was erased stays erased, and who reads personal data is on
\* record; a process serves on the whole schema of its image, and no setting is
\* served a TTL after it was replaced.
UpkeepHolds ==
  /\ part = "watch" => Watch!AlertsApart /\ Watch!OpenIsAlerted
  /\ part = "secret" => Secret!ErasedStaysErased /\ Secret!AnsweredIsLogged
  /\ part = "boot" => Boot!ServedSchemaIsComplete /\ Boot!SchemaIsWhole
  /\ part = "tiers" => Tiers!StaleAtMostTTL

\* A phone has one account, an account one role, a site its own code, and a client no more requests
\* in a window than the limit; a request is served by a session that is in force.
AccountsAdmit ==
  /\ part = "login" => Login!OneAccountPerPhone /\ Login!RequestsArePaced
  /\ part = "entry" => Entry!ServedInForce /\ Entry!AudiencesApart
  /\ part = "net" => Net!OneRole /\ Net!CodesApart

\* Within one visit of the page a cart becomes one order, through retries and lost
\* answers, and the order costs the delivery fee it was quoted.
CheckoutsHold ==
  /\ part = "shop" => Shop!OneOrderPerCheckout
  /\ part = "home" => Home!FeeIsQuoted

\* The pure rules agree with their definitions: hours, shares of the revenue, the
\* balance of a statement, what a role lists, reads and may act on, and the buttons
\* it is offered.  A report adds up and shows what the orders and expenses say;
\* statements reach the database as written.
RulesAgree ==
  /\ part = "rule" =>
       /\ Rule!HoursAgree /\ Rule!SharesAddUp /\ Rule!StatementBalances
       /\ Rule!ScopesAgree /\ Rule!MasksAgree /\ Rule!OfferedIsAllowed
  /\ part = "money" => Money!BreakdownsAddUp /\ Money!ReportsAgree
  /\ part = "sql" => Sql!PlaceholdersAgree /\ Sql!CutsAgree

\* A list that is paged shows every order once, the stream of events skips none it
\* could see; the portal page shows the latest data and its own user's, the order
\* page the menu and the fee of the store that serves, the nearest.
ReadsAreComplete ==
  /\ part = "screen" => Screen!PagesListOnce /\ Screen!StreamSkipsNone
  /\ part = "page" => Page!PageIsFresh /\ Page!DataIsOwn
  /\ part = "near" => Near!ShownIsChosen /\ Near!NearestServes

\* What is final stays: the figures of a closed shift, the yield of a batch, what a
\* purchase has received, the closed books, a paid commission, the end of an order on
\* the page, an approval.
FinalStays ==
  [][ /\ part = "drawer" => Drawer!ClosedIsFinal
      /\ part = "kitchen" => Kitchen!YieldIsFinal /\ Kitchen!ReceiptsStay
      /\ part = "books" => Books!ClosedBooksStay
      /\ part = "payout" => Payout!PaidIsFinal
      /\ part = "shop" => Shop!EndedStays
      /\ part = "desk" => Desk!ApprovedStays ]_vars

\* A code keeps its affiliate, a profile its account, an order page the store its
\* customer chose.
OwnersStay ==
  [][ /\ part = "partner" => Partner!CodeKeepsOwner
      /\ part = "club" => Club!ProfileKeepsAccount
      /\ part = "near" => Near!StoreIsKept ]_vars

\* An edit keeps what it does not name: a price or a closure another request set meanwhile.
EditsKeep ==
  [][ /\ part = "menu" => Menu!EditsKeepPrice
      /\ part = "net" => Net!EditsKeepStatus ]_vars

-----------------------------------------------------------------------------
(* The values TLC gives the constants, from two sets of identities that are    *)
(* alike and one identity.  Plans are the days of Rules: closed, one or two     *)
(* intervals, ones that run past midnight.                                     *)
CONSTANTS Tokens, Parties, Thing

Symmetry == Permutations(Tokens) \cup Permutations(Parties)

Plans == {<<>>, <<<<0, 1>>>>, <<<<1, 3>>>>, <<<<3, 1>>>>, <<<<0, 1>>, <<2, 3>>>>, <<<<2, 0>>>>}
MCUnitAmounts == [drawer |-> {1}, rule |-> {1, 5}]
MCDefault == [tiers |-> <<0, 6, 8>>, home |-> 3]
MCExpenses == [books |-> {Thing}, money |-> {1}]
MCLimit == [login |-> 1, watch |-> <<1, 0>>, screen |-> 1]
MCMaxChanges == [entry |-> 1, tiers |-> 2, page |-> 1, watch |-> 2, near |-> 1]
MCMaxRequests ==
  [drawer |-> 4, goods |-> 7, shelf |-> 5, kitchen |-> 7, books |-> 3, payout |-> 6,
   partner |-> 4, group |-> 5, club |-> 3, login |-> 5, entry |-> 3, menu |-> 3,
   net |-> 4, home |-> 4, watch |-> 2, secret |-> 5, desk |-> 2]
MCMaxTime ==
  [login |-> 3, entry |-> 1, menu |-> 1, tiers |-> 2, home |-> 2, watch |-> 2,
   screen |-> 1]
MCOrders == [product |-> Parties, drawer |-> Parties, shelf |-> {Thing}, money |-> {1, 2}]
MCPhones == [club |-> Parties, secret |-> Parties, desk |-> {Thing}]
MCShippers == [product |-> {}, drawer |-> {"shipper"}, home |-> {Thing}]
MCStaff == [drawer |-> {"cashier"}, login |-> {"staff"}]
MCTransfers == [product |-> {}, goods |-> {Thing}]
MCWindow == [login |-> 2, watch |-> 1]
MCAddresses ==
  [home |-> [at |-> 2, names |-> <<0, 2>>], office |-> [at |-> None, names |-> <<2, 0>>]]
MCAffiliates == Parties
MCAudiences == [portal |-> {"owner"}, customer |-> {"customer"}]
MCBatches == {Thing}
MCBodies == {[type |-> "time_window", min |-> 1, max |-> None, fee |-> 5, freeOver |-> 2]}
MCOfferedCarts == {[value |-> 1, distance |-> 1], [value |-> 2, distance |-> 1]}
MCChannelOf == <<"website", "partner">>
MCCodes == Tokens
MCDayPlans == Plans
MCEntries == {Thing}
MCGuests == Parties
MCHandlers == Tokens
MCMembers == {Thing}
MCPosition == <<4, 1>>
MCProcesses == Parties
MCReach == <<"new", "accepted">>
MCRecipients == Parties
MCShifts == Tokens
MCSkus == {Thing}
MCStock == <<1, 2>>
MCPortalUsers == Parties
MCValues == {<<0, 6, 8>>, <<0, 8, 9>>}
=============================================================================
