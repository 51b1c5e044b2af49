# Đảo Chè: a verification of its orders, money, stock and pages

Đảo Chè is the ordering, kitchen, delivery and finance system of a chain of dessert shops: a
Next.js application (`app/`) over a set of command handlers (`lib/`) and one PostgreSQL database
(`db/`).  Everything that matters happens in rows that several requests read and write at the same
time, with no locks of their own and, for most decisions, no lock of the database either.  This
directory models the handlers, the pages that call them and the jobs that run beside them, checks the
models with TLC, and proves with TLAPS what holds of the order core, the idempotency keys, the courier,
the services around them and the pages for any number of orders, requests, transfers, trips, processes,
sessions and answers on their way.

All lines below are lines of the repository.

## 1. The system

### How a request runs

A handler reads rows, decides, and then issues one *batch*: `db/postgres-runtime.ts:239-256` runs the
statements of a batch in one transaction, one statement at a time, at PostgreSQL's default isolation
(READ COMMITTED), over a pool of ten connections (267).  Nothing holds the reads and the batch
together.  A handler finds out that it was overtaken from the number of rows its first UPDATE changed,
and it looks at that number *after* the batch has committed: the other statements of the batch have
taken effect unless they carry a condition of their own.  The tests run on one in-process connection,
so no test ever interleaves two requests.

### Inventory

| Component | State | Operations | What makes it correct | Module |
|---|---|---|---|---|
| Order commands (`lib/commands-orders.ts`) | orders, items, slots, the counter of orders in progress, staff | `order.create`, `.item.start/done`, `.amend`, `.advance`, `.assign` | an order moves along its flow and ends once; a bank order is not made before it is paid; counters, staff and books follow the order | `OrderCommands`, `OrderSystem` |
| Order rules (`lib/order-logic.ts`, `command-guards.ts`, `portal-access.ts`) | none | next status, derived columns, who may do and see what | a closed order stays closed; what a role may do is what it sees and is offered | `OrderLogic`, `PortalScope`, `Rules` |
| Bank payments (`lib/sepay.ts`) | attempts, transfers, alerts | webhook, review, expiry, sweep, status page | every transfer counts once or is queued for a person | `SePay` |
| Refunds (`lib/commands-finance.ts:307-410`) | refunds and all of the above | `payment.refund` | order, books and stock follow | `SePay` |
| Stock of tracked products | stock row, reservations | reserve, release, consume, overwrite | units are neither made nor lost | `OrderTables`, `OrderCommands` |
| Idempotency (`lib/idempotency.ts`) | `idempotency_keys` | claim, wait, answer, release | a command of one key takes effect once, a retry is answered | `Idempotency`, `OnceOnly` |
| Courier bookings (`lib/delivery-store.ts`, `lib/lalamove.ts`) | jobs, events, the provider's trips | quote, book, webhook, cancel, dispatch | one trip per order; news do not contradict the order | `Courier` |
| Fees, routes, proofs (`lib/delivery-fees.ts`, `commands-delivery.ts`, `delivery-cleanup.ts`) | rules, quotes, routes, proofs, files | quote, lock, confirm, upload, clean up | an order costs its quote; an end has its proof | `Deliveries` |
| Cash drawer (`lib/network-commands.ts`, `commands-finance.ts`) | shifts, movements | open, close, voucher, sale, refund, remit | one open shift; what is handed over was received; a closed shift is final | `CashDrawer` |
| Books and periods (`lib/commands-finance.ts`, `commands-finance-compliance.ts`) | ledger, settlements, payments, expenses, closed periods | settle, pay, approve, review, close | paid once, listed once, closed books stay | `Ledger` |
| Supply chain (`lib/commands-supply-chain.ts`, `commands-inventory.ts`, `supply-chain-store.ts`) | transfers, lots, counts, waste, purchases, recipes, batches, store debts | all commands but the edit of suppliers | a document does its work once; a final one stays | `Transfers`, `StockLots`, `Materials` |
| Group orders (`lib/commands-group.ts`) | room, choices, link, reward | add, close, finalise, expire | one order per room, and the host's reward is that order's | `GroupRooms` |
| Commissions and payouts (`lib/commands-payout.ts`, `referrals.ts`) | referrals, batches, items | earn, void, batch, pay | a commission is paid once and after the dispute window | `Payouts` |
| Affiliates (`lib/commands-partners.ts`, `affiliate-attribution.ts`) | members, codes, clicks | apply, approve, pause, click, credit | a code keeps its owner; a click is credited once | `Affiliates`, `Inbox` |
| Customers (`lib/customer-loyalty.ts`, `data-integrity.ts`) | profiles, accounts, points, promotion, addresses, reviews, notices | order, register, deliver, review | a profile stays with its account | `Customers` |
| Access (`lib/auth/*`, `lib/*-session.ts`, `lib/rate-limit.ts`) | accounts, sessions, counters | bootstrap, create, sign in, serve, change, reset, suspend, count | one account per phone; a request is served by what is in force; limits hold | `Accounts`, `SignIn` |
| Catalogue (`lib/commands-catalog.ts`) | product, options, prices, history | create, edit, archive, set price | an edit keeps what it does not name | `Catalog` |
| Sites and staff (`lib/network-commands.ts`) | site, closures, members, roles | edit, close, invite, leave | as above; one role per account | `Network` |
| Settings (`lib/settings-store.ts`, `commands-settings.ts`) | rows, history, the cache of each process | set, reset, serve | no value is served a TTL after it was replaced | `Settings` |
| Hours, shares, statements (`lib/site-hours.ts`, `finance-allocation.ts`) | none | pure computations | agree with their definitions | `Rules` |
| Requests of customers (`app/api/customer-requests`, `lib/supply-chain-store.ts`) | applications, messages, alerts | send, approve, resolve | a request and its alert are closed together, by one | `Inbox` |
| Monitoring, privacy (`lib/runtime-monitoring.ts`, `privacy.ts`) | incidents, alerts, erased rows, access log | check, alert, erase, read | an open incident is alerted; what is erased stays erased | `Incidents`, `PersonalData` |
| Lists, stream, reports (`lib/scoped-operations.ts`, `finance-reports.ts`, `operations-snapshot.ts`, `app/api/stream`) | cursors | page, poll, report | complete, once, adding up | `Portal`, `Reports` |
| Order page (`app/order/controller.tsx`) | cart, order, address, store, menu, fee | check out, poll, choose, fetch | one order per checkout; what is shown is of the store that serves | `Storefront`, `StoreChoice`, `Inbox` |
| Portal page (`app/portal/page.tsx`) | session, snapshot, stream, timers | sign in, load, reconnect, command | fresh data, its own user's; only allowed buttons | `PortalPage`, `PortalScope` |
| Database access and start (`db/*`, `scripts/*`) | versions, processes | rewrite, cut, migrate, serve | statements mean what was written; whole schemas only | `SqlText`, `Startup` |
| Seeds, imports, headers, rendering | none | | out of scope | none |

Interactions: handlers call each other only through the tables.  `order.advance`, `payment.refund`,
the webhook, the sweep and the courier's webhook all write `operation_orders`; all but the courier's
webhook write the books; create, amend, advance and refund write the stock; finance, supply chain,
access and catalogue keep tables of their own and meet the orders in one or two columns, which their
modules carry along.

### What is hard here

* A decision on a row read earlier: payment gate, amount to hand over, commission to pay, price to keep.
* Statements of a losing batch that have no condition of their own.
* A subquery of an UPDATE or an INSERT that is not evaluated again when the row lock is granted.
* Stamps (`updated_at`) used as the identity of an update.
* Transfers, courier news and answers to the pages that come again, late, or out of order.
* A process that dies between two statements; the victim of a deadlock; a step after the commit that fails.
* Effects of a page that are still waiting when what they asked for has changed.

`PROJECT.json` lists the hazards one by one with their lines and the properties about them.

## 2. Modules

### The order core

| Module | What it is |
|---|---|
| `OrderLogic` | pure rules: flows, derived columns, roles and transitions |
| `OrderTables` | constants, tables, rows, requests in flight, fragments of SQL batches that several handlers issue |
| `OrderCommands` | `order.create`, `order.amend`, `order.advance`, `order.assign`, `catalog.site-stock.upsert` |
| `SePay` | transfers, webhook, review, expiry, sweep, status page; `payment.refund` |
| `OrderSystem` | the composition: `Init`, `Next`, `Spec`, `FairSpec` and all properties |
| `OrderLifecycle` | the abstract specification: the life of an order as its users are promised it |
| `OnceOnly` | the abstract specification of an idempotency key: one effect, its response for everybody |
| `Idempotency` | `runIdempotent` for the requests of one key, with crashes, late failures and the cleanup |
| `Courier` | the delivery of one order by Lalamove: booking, dispatch, webhook, refresh, cancellation, next to the staff |
| `MCOrderSystem` | symmetry of the order core, for TLC |
| `Services` | the services: their tables, one instance of each module, the assumptions on their constants |
| `MCServices` | the composition of the services, its properties, and the values TLC gives the constants |
| `OrderSystem_proof`, `OrderLife_proof`, `Idempotency_proof`, `Courier_proof`, `Services_proof`, `Admin_proof`, `MCServices_proof` | theorems, see section 4 |

A handler `h` is one request being served.  `req[h]` holds the label `at` of the statement it executes
next and what it has read and worked out.  Reading and writing are different actions, and other
handlers run in between.

* A batch that locks, with its first statement, a row that every competing batch locks first is one
  action (`AdvanceCommit`, `AmendCommit`, `CreateCommit`, `WebhookFlag`, `ExpireAttempt`).
* A batch with a statement that can be overtaken is cut there: the webhook takes the snapshot of its
  sum (`WebhookMatch`) before the attempt's row lock is granted (`WebhookCommit`, or
  `WebhookOvertaken` if the attempt was closed meanwhile); the INSERT of a refund is checked
  (`RefundInsert`) before the rest of its batch (`RefundCommit`); `order.assign` decides on the
  shipper (`AssignUpdate`) before it gets the order (`AssignCommit`); `order.amend` reads the items
  (`AmendItems`) and the order (`AmendRead`) over two connections.
* `Abort` is a crash, an error of the database or the victim of a deadlock: the batch in progress is
  rolled back, what was committed before stays.
* `ClosePeriod` closes the accounting period of some orders' ledger rows, at any time.  `BooksClosed`
  is what a request under way then meets: `assertLedgerPeriodOpen` (`lib/commands-finance-compliance.ts:10-14`)
  or the trigger of the ledger (`drizzle/0110_finance_compliance.sql:78-93`) refuses its next statement, the
  batch is rolled back and the request ends with the error, what was committed before stays.  It is enabled
  (`WritesClosedBooks`) exactly if that statement asks for the period or would write a row of a closed one;
  the step that the statement would be is then disabled.
* `SendTransfer`, `Lapse` and `UpsertStock` are the world: a customer pays, time passes, a person
  edits the catalogue.

Abstractions of the core:

* One site and one tracked product at price 1: an order's total is its quantity.
* `received_amount` is kept as the *set* of transfers that was summed into it (`credited`); a
  cash attempt that was collected shows its expected amount (`collected`).
* `updated_at` is a stamp: handlers compare it for equality only, so a stamp is drawn when it is first
  written, different from all that a row or a request still holds.  Two requests in the same
  millisecond, which would share a stamp, are not modelled; one *sweep*, which uses one `now` for all
  its batches, is.
* Conditions on tables that are not part of the core (an open shift, a proof of delivery) make a request
  fail before it writes: a request that is not made.  Accounting periods are not of that kind and are
  modelled, as the column `closed` of an order's ledger rows.  The webhook asks for an open period only after
  it has committed its transaction (`lib/sepay.ts:373`, 418-421): the row then stays `received`, and a delivery
  that is repeated is answered as a duplicate (378).  A sweep that meets a closed period stops, with the
  attempts it has not come to (363).  The rows of an order fall into one period; those an order makes later,
  a refund's and a reward's, are not in `ledger`.
* `bank.reconcile.import` (`lib/commands-finance.ts:282-284`), which marks such a `received` row as matched
  without crediting an attempt, is no action of the core: nothing after it finishes what the webhook began.
* The order and its latest attempt, which `order.advance` reads one after the other for a
  cancellation, are read in one step: the batch's condition on the status is about the first read, and
  a transfer between the two makes the second read refuse what the model's later read refuses too.
* What follows the order's batch (promotions, loyalty, referrals) is in `Customers` and `Payouts`, the
  lots a delivery takes in `StockLots`, the clicks in `Affiliates`, quotes in `Deliveries`, each with
  the statements of `order.create` and `order.advance` that concern its tables.

### Idempotency keys

`Idempotency` is about the requests of one scope and key: keys share nothing.  `row` is the row of the
key, `at[r]` the statement of `runIdempotent` that request `r` executes next.  A response is named by
the request that executed, so that a stale, foreign or second response cannot hide.  `Execute` is the
command of `app/api/operations/route.ts:51-108`: it commits, is refused, throws, or throws after its
batch has committed (`"late"`: the click's attribution or the snapshot that follow fail).  `Faults` says
which failures a run allows.  A retry of a client is a further request.  `Cleanup` deletes a row that is
seven days old: it is not enabled while a request of the key executes, and the wait of 200 looks of 25 ms
is cut to `MaxPolls` looks.

### The courier

`Courier` is about one delivery order that is paid for and being prepared.  `job` is its row of
`delivery_jobs` (status `"none"`: there is none yet; `trip`: `provider_order_id`; `last`:
`last_provider_updated_at`), `recorded` and `processed` are `delivery_events`.  The provider is a part of
the module: `trips` is the state of each trip it made, `news` are the webhooks it sends, at any time
after the event, in any order and again.  It is modelled from how the code uses it and marked external.  The site's
shippers are free or busy with other orders at the start.

* A booking is `BookRead`, `BookInsert` (the unique index on the order decides), `Place` (the
  trip is made or not, the answer arrives or not), `BookCommit` or `BookFail`.  The automatic dispatch
  (`AutoRead`, `AutoQuote`) joins it at `BookRead`.
* A webhook is `Receive` (reads the job), `RecordNews` (inserts the event; duplicates, unmatched and
  stale news end here), `ReplaceTrip`, `ApplyNews` (the batch).  A refresh polls the provider
  (`RefreshPoll`) and then hands a webhook of *this* moment to the same code (`RefreshStamp`); its event
  has an identifier of its own, so it is not kept among the recorded ones.
* `Advance`, `Assign` and `ConfirmRoute` are the staff's commands on the same order, as single steps:
  `OrderCommands` has their interleavings.
* Left out: quotes (whether a valid one is at hand is open), the statements on books, cash and stock that
  `COMPLETED` shares with `order.advance`, the margin alert, and the sweep that raises an alert for a trip
  without a driver.  `CANCELED`, `REJECTED` and `EXPIRED` are one status, alerts are the flag `flagged`.
  `Abort` also stands for `COMPLETED` news refused because a period is closed (`lib/delivery-store.ts:382-386`, after the
  event was inserted).  The trip is read and the provider called in one step by refresh and cancellation.  Batches stamp the
  job with the current `clock`.

### The services

Each of the following modules keeps the tables of one service and stands alone.  They share a form.
`request` is the sequence of the requests that have started, each with the label `at` of the statement
it executes next and what it has read; `Begin` starts one, at most `MaxRequests` in all and `MaxOpen` at
a time.  A request that is refused changes nothing and is left out.  One that dies simply does not go
on: no action is fair, so every prefix of a request is among its behaviours.  A batch is one step,
unless a statement of it can be overtaken before its row is locked; then the module's header says where
it is cut.

| Module | State | Actions, by the code they stand for |
|---|---|---|
| `CashDrawer` | `shifts`, `movements`, `alerts` of one site | `shift.open` and `.close`, `cash.movement.create`, the cash sale of `order.advance`, the cash refund, `cash.remit`; the EXISTS of an INSERT before its commit |
| `Ledger` | commissions, `settlements` with `lines` and `payments`, `expenses`, `booked` rows, `closed` months | `finance.settle` in its three forms, `expense.create` and `.approve`, `accounting-period.close`; a transaction is *written*, waiting for locked rows, before it is *committed*, because the triggers of `drizzle/0110` look at the period when the row is written |
| `Transfers` | `transfers` with their lots, kitchen and store stock, the store's internal account | `transfer.request` to `.receive` and `.reject`, `internal.payment`, `internal.credit-limit.set` |
| `StockLots` | lots of one product at one store, its stock row, counts, waste | FEFO consumption of a delivery, expiry, `waste.record`, `stockcount.open`, `.submit`, `.approve` |
| `Materials` | purchases, raw lots, inventory, recipes, batches, what they used and made | `purchase.create` and `.receive`, `recipe.upsert`, `production.plan`, `.start`, `.complete`, `inventory.adjust` |
| `Payouts` | orders as far as disputes go, `order_referrals`, batches with items | the reward of an order, the job that voids and that earns after the dispute window, the batch that is made and the batch that is marked as paid; the file of a batch only reads |
| `Affiliates` | members, codes, clicks, attributed orders | application, `affiliate.approve` and `.pause`, tracking, attribution; the click is looked up and marked (`lib/affiliate-attribution.ts:91-101`) in one step |
| `GroupRooms` | one room, choices, orders, reward | choices, countdown, sweep, finalisation in four transactions with a crash between any two |
| `Customers` | accounts, profiles, promotion, points, orders, notices | an order with what follows its batch, registration, delivery, health notices, reviews, addresses |
| `Accounts` | users, sessions, one rate-limit bucket | bootstrap, creation, sign-in, change, reset, suspension, `consumeBucket` and its sweep |
| `SignIn` | one account's standing, sessions of three audiences, failure counters | sign-in with its block, `readSessionForAudience` statement by statement, while the account changes |
| `Catalog` | one product, option, overrides, history, sold prices | edits of product, option and stock row, price overrides and their history, the price an order resolves |
| `Network` | a site, closures, codes, a member with account and roles | `site.*`, `staff.*` |
| `Settings` | stored versions, the members' rates, a cache per process | load, serve, change, invalidate |
| `Storefront` | the page's checkout, requests in flight, server orders | submit, answers lost or late, payment and tracking polls, reload |
| `StoreChoice` | position, saved addresses, list of stores, menu, quote, effects in flight | choices of the customer, the effects' fetches, cancellation, timers |
| `Inbox` | requests, alerts, events, a partner's account, stock alerts | forms, chat and handover, approval, resolution, shortage sweep |
| `PortalScope` | none | what lists, guards, snapshot and page say a role sees, may do, is offered: each from its own lines |
| `Rules` | one input, one answer | opening hours, shares, bank statement, scopes, masks, buttons: compared with independent definitions |
| `Portal` | orders stamped before they commit, one walk, one stream | cursor pagination, `poll` of the stream |
| `Reports` | orders, allocations, expenses while four kinds of report read them | snapshot, dashboard, P&L, summary |
| `PortalPage` | cookie, session, snapshot, stream, timers, loads in flight | sign-in and out, events, reconnects, visibility, commands |
| `Deliveries` | rules, quotes, orders, proofs, files | rules, quote, order, route, code, photo, end, clean-up |
| `Incidents` | counts over time, incidents, alerts | a health request: count, open, claim, post, resolve |
| `PersonalData` | profile, account, orders with details, addresses, access log | order, registration, erasure, logged reads |
| `SqlText` | one text of a statement | `toPostgresPlaceholders` and `splitPostgresScript` against PostgreSQL's own reading |
| `Startup` | recorded and applied migrations, processes of two images | start, read, execute, commit, fail, serve, exit |

Abstractions of the services: money is in units of the smallest amount that makes a difference; time is
counted in ticks of the shortest delay that matters; names, phones and keys are model values; a clock
that several processes read is one clock.  `Accounts` lets time pass only if no request would be counted
more than a tick after it read its time: the sole case in which a client gets more than two windows'
worth of requests, and the module says so.  `SqlText` knows the characters its scanners tell apart.

## 3. Runs

The first four and the courier's configurations keep one order, two requests in flight, up to two
transfers, quantities up to two and one or two attempts per order.  The hazards are races of two
handlers on one order (three writers take turns because a handler that ends is free for another
request), so two in flight reach every pair of reads and writes; two orders are needed only where they
share a row (stock): that is the part `product` of `Services`.
`Answered` has closings and no `abort`: a request that dies is not answered, and its transfer stays `received`,
as its hazard in `PROJECT.json` says; `BankRaces` has both, for the safety properties.
`MaxStamp` exceeds the number of stamps that rows and requests can hold.  The bounded systems stop when
all requests, orders and transfers have been made, so deadlock is not checked; liveness is.

| Run | Question | Properties |
|---|---|---|
| `BankRaces` | webhook, transitions, sweep, refund and crashes race on a bank order, whose period may close | `TypeOK`, `KitchenGate`, `PaidMeansFunded`, `ActiveCounted`, `EffectsFollowOrder` (`CancelledEarnsNothing`, `CommissionNeedsDelivery`, `KitchenFollowsStatus`, `StockConserved`, `ReservedMatchesReservations`), `CancelledByRequestReleasesStock` |
| `BankAmended` | the same with amendments and a supplemental attempt | `NoDoubleCredit`, `ActiveNotOverCounted`, `ClosedAttemptsTakeNothing` |
| `CashDelivery` | a cash order delivered by a shipper, amended and refunded, whose period may close | `CashSaleIsTotal`, `CarrierIsBusy`, `ImplementsLifecycle` |
| `Answered` | every request is answered and every transfer settles, with the two exceptions below, under stock edits and closings | `EveryRequestAnswered`, `TransfersSettle`, `StockRowValid` |
| `OneKey` | three requests of one key with two contents, all faults | `TypeOK`, `OneEffectUnlessError`, `ImplementsOnceOnly`, `EveryRequestEnds` |
| `CourierBooks` | two requests book, dispatch, cancel and hear of two trips, answers get lost, processes die | `TypeOK`, `OneTrip`, `RunningIsKnown`, `DeliveredCountedOnce`, `ChargedForDelivery`, `JobNotAheadOfTrip` |
| `CourierReports` | all kinds of requests report on one trip, late and again | `NoWayBack` |
| `Services` | the services, each on its own | see below |

In `OneKey` three requests are one that holds the claim, one that waits and one that comes after the key
was released or erased; two contents make conflicts, and `MaxPolls = 2` lets a waiter see the row in two
different states and still give up.

In `CourierBooks` the second trip is what a second booking would make or what replaces the first; four
instants let a trip be made, assigned, picked up and completed, or replaced and called off, with two
requests that overlap.  `CourierReports` adds refreshes, which multiply the stamps, and leaves the second
trip away.  `MaxTime` bounds the provider's events and the stamps of refreshes.

### The run `Services`

The services share no table, so their product would only multiply states.  `Services` declares the tables
and takes one instance of every module; a constant that several modules have (`Orders`, `MaxRequests`) is a
function of the part, so that each keeps a value of its own.  `MCServices` lets a behaviour be one of a
single `part`, chosen at the start: the tables the part does not have are `None` and stay so (`Unused`,
`UnusedStay`).  The part `product` is an instance of the order core.  The properties are conjunctions
`part = "..." => Instance!Property`, grouped by what they promise:

| Property | Parts and what they promise |
|---|---|
| `CountersAgree` | two orders on two units: `StockConserved`, `ReservedMatchesReservations`; `CashDrawer`: `RemittanceIsBacked`, `OneOpenShift` |
| `BooksAgree` | `Ledger`: `PaidHasPayment`, `SettledOnce`, `ExpenseBooked` |
| `DocumentsActOnce` | `Transfers.ReceivedOnce`, `StockLots.ShortageOnce`, `Materials.ReceivedWithinOrder`, `Deliveries.EndHasProof` and `.PhotoIsKept`, `Inbox.ClosedTogether`, `.ResolvedByOne`, `.SentIsStored` |
| `CommissionsPayOnce` | `Payouts`: `BatchedOnce`, `EarnedAfterDispute` |
| `CreditsMatchOrders` | `GroupRooms`: `OneOrderPerRoom`, `RewardMatchesOrder`; `Affiliates`: `ClickMatchesOrder`, `PausedCodesRest` |
| `UpkeepHolds` | `Incidents`: `AlertsApart`, `OpenIsAlerted`; `PersonalData`: `ErasedStaysErased`, `AnsweredIsLogged`; `Startup`: `ServedSchemaIsComplete`, `SchemaIsWhole`; `Settings.StaleAtMostTTL` |
| `AccountsAdmit` | `Accounts`: `OneAccountPerPhone`, `RequestsArePaced`; `SignIn`: `ServedInForce`, `AudiencesApart`; `Network`: `OneRole`, `CodesApart` |
| `CheckoutsHold` | `Storefront.OneOrderPerCheckout`, `Deliveries.FeeIsQuoted` |
| `RulesAgree` | `Rules`: `HoursAgree`, `SharesAddUp`, `StatementBalances`, `ScopesAgree`, `MasksAgree`, `OfferedIsAllowed`; `Reports`: `BreakdownsAddUp`, `ReportsAgree`; `SqlText`: `PlaceholdersAgree`, `CutsAgree` |
| `ReadsAreComplete` | `Portal`: `PagesListOnce`, `StreamSkipsNone`; `PortalPage`: `PageIsFresh`, `DataIsOwn`; `StoreChoice`: `ShownIsChosen`, `NearestServes` |
| `FinalStays` (action) | `CashDrawer.ClosedIsFinal`, `Materials.YieldIsFinal` and `.ReceiptsStay`, `Ledger.ClosedBooksStay`, `Payouts.PaidIsFinal`, `Storefront.EndedStays`, `Inbox.ApprovedStays` |
| `OwnersStay` (action) | `Affiliates.CodeKeepsOwner`, `Customers.ProfileKeepsAccount`, `StoreChoice.StoreIsKept` |
| `EditsKeep` (action) | `Catalog.EditsKeepPrice`, `Network.EditsKeepStatus` |
| `TypeOK` | the types of all parts |

Bounds, and the distinct states of each part checked alone.  `MaxOpen = 2` everywhere: two requests that
overlap, and requests that come before and after them.

| Part | Bound | States |
|---|---|---|
| two orders | two units, two requests in flight, create and advance (the sweep is in `BankRaces`) | 6.5 k |
| `CashDrawer` | four requests, two shifts, two orders, one shipper | 151 k |
| `Transfers` | seven requests on one transfer of two lots | 2.8 k |
| `StockLots` | five requests on two lots and two counts | 142 k |
| `Materials` | seven requests, one purchase of one item, one batch | 274 k |
| `Ledger` | three requests, one commission, one expense, two months | 70 k |
| `Payouts` | six requests, two commissions, two payees | 86 k |
| `Affiliates` | four requests, two affiliates, two codes, two clicks | 28 k |
| `GroupRooms` | five requests, two guests beside the host | 188 k |
| `Customers` | three requests on two phones and a promotion of one use | 127 k |
| `Accounts` | five requests, two users, windows of two ticks, three ticks | 60 k |
| `SignIn` | three requests, two audiences, one change of the account | 108 k |
| `Catalog`, `Network` | three and four requests | 35 k, 41 k |
| `Settings` | two processes, two values, two changes, TTL of one tick | 87 k |
| `Storefront` | two references, two visits, two requests in flight | 426 k |
| `StoreChoice` | two addresses, a spot, two acts, three effects in flight | 346 k |
| `Inbox` | two requests of the staff, two sent from the page, one sale | 75 k |
| `Rules` | weeks of three days of four minutes, six kinds of day; all roles; statements of two lines | 59 k |
| `Portal` | two orders, pages of one row, two polls | 11 k |
| `Reports` | two orders, one expense, three writes between the queries of a report | 153 k |
| `PortalPage` | two users, one change, two loads and three calls | 142 k |
| `Deliveries` | four requests, two carts, two ticks | 344 k |
| `Incidents` | two health requests, two checks, two changes | 89 k |
| `PersonalData` | five requests, two phones | 124 k |
| `SqlText` | all texts of five characters | 111 k |
| `Startup` | two processes, images of two and three migrations of two statements, four starts | 8.4 k |

Larger instances were checked once while the modules were written: two orders with the sweep (88 k
states), `Affiliates` with five requests (201 k), `SignIn` with two changes (294 k), `Deliveries` with five
requests (1.05 M), `Incidents` with three (4.7 M), `Reports` with four writes (613 k), `PortalPage` with
two changes (7.1 M), `Inbox` with four requests and two phones (4.2 M).

### Fairness

`FairSpec`: in the core, weak fairness of each handler's next statement (`Continue`, or `BooksClosed` when it
is refused).  The server runs a request it
has accepted to its end, and PostgreSQL grants a row lock when its holder ends; nothing obliges a
customer to pay or a person to ask, so arrivals and the world are not fair.  Two exceptions are in the
properties because the code has them.  `TransfersSettle` lets a transfer stay `received` if the period of its
order's books is closed.  `EveryRequestAnswered` lets a refund wait at its INSERT while books are closed
(`MayBeOvertaken`): a refund that waits for the uncommitted reference of another can, when that one is refused,
be overtaken by a third with the same reference, and so on; without closings every holder of the reference
commits and the wait ends.  In `Idempotency`, weak
fairness of the next statement of every request that has been sent.  The services state no liveness:
their requests are sequences of statements without loops or waits.

### Where the code and its documents disagree

Each of these runs checks one property that states what a document, an alert or an error message of the
repository says, and TLC finds a behaviour of the code that violates it.

| Run | What is said | What happens |
|---|---|---|
| `ExpiredHoldsStock` | cancelling gives the stock back (`README.md:48`) | an order cancelled by expiry keeps its reservation for ever |
| `PaidThenCancelled` | a paid order cannot be cancelled directly (`docs/SEPAY_SETUP.md:46`) | a cancellation that read the order before it was paid succeeds |
| `PartialLost` | partial transfers accumulate (`docs/SEPAY_SETUP.md:44`) | two overlapping part payments: one is forgotten |
| `LateCompletion` | the fee is recorded when the webhook confirms `COMPLETED` (`docs/LALAMOVE_SETUP.md:26`) | a refresh in between makes that webhook stale, and the fee is recorded nowhere |

The models contain further behaviours of this kind.  They are what the code does, the properties are
stated so that they say what does hold, and no run is spent on them:

* *Roles.*  `order.item.start` and `.done` ask `orderIsInPortalScope` about an order of which they name
  only the id and the site (`lib/commands-orders.ts:475`): every role whose policy lists statuses is
  refused with 403, although `lib/portal-access.ts` gives it the capability
  (`PortalScope.itemIsInPortalScope`).
* *Losing batches.*  The unguarded statements of a batch whose guarded UPDATE lost stay:
  `purchase.receive` (`lib/commands-supply-chain.ts:156-165`; two items and three receipts close the order with
  an item missing), `production.complete` (268-290),
  `transfer.pack` (387-392), `staff.update` and `.deactivate` (`lib/network-commands.ts:349-378`).
* *Money.*  A direct payment races the settlement of the same commission
  (`lib/commands-finance.ts:449`, 541); two revenue policies can be active at once (548-559); two refunds
  of one attempt together exceed what came in; two assignments take one shipper; a losing delivery
  collects the cash; a transfer whose webhook dies or is refused for closed books after `lib/sepay.ts:373` stays
  `received`, is a duplicate when it is delivered again, and is called matched by `bank.reconcile.import`
  without being credited.
* *Customers.*  A promotion is used more often than its limit, two first orders give an account two
  profiles, an erased profile gets name and phone back from a later order
  (`lib/data-integrity.ts:130-146`); points go to any order with a customer
  (`lib/commands-orders.ts:441-448`), though the comment above says accounts only.
* *Groups.*  A retried finalisation is refused as `duplicate_client_reference`
  (`lib/commands-group.ts:105` says it may be repeated).
* *Inbox.*  A resolved shortage alert never comes back (INSERT OR IGNORE,
  `lib/supply-chain-store.ts:118-152`); an approval whose account failed cannot be repeated; a message
  typed while the handover is under way reaches nobody.
* *Lists.*  The stream's cursor passes events that commit late; a reload keeps the cart and not the client
  reference; a fee rule across midnight never applies (`lib/delivery-fees.ts:76-77`); unsorted intervals
  of a day name a later reopening (`lib/site-hours.ts:107`).
* *Access.*  A login counter loses concurrent failures (`lib/auth/rate-limit.ts:67-101`); a reset sets
  `must_change_password` in a second statement (`app/api/auth/users/route.ts:149`).
* *Upkeep.*  A settings load that crosses an invalidation caches the old value again (for a TTL); a process
  that dies between claim and post loses the alert; the clean-up deletes a file before it clears the column
  that names it; a rejected runtime promise stays cached (`db/runtime-database.ts:74-80`).

## 4. Proofs

TLAPS checks these for every value of the constants; those of the order core under `TablesAssumption`, the
composed ones of the services under `ServicesAssumption` and `ProductAssumption`, the others under what their
entry names.  TLC checked every property on small constants before it was proved.

### Orders and payments (`OrderSystem_proof`, `OrderLife_proof`)

Each of the invariants contains those before it.  All theorems hold with periods that close at any time
(`ClosePeriod`) and requests that are refused for it (`BooksClosed`): the first changes only `ledger[o].closed`,
the second only ends a request.

* `TypesHold`: `Spec => []TypeOK`.  One lemma per action; the fragments of SQL batches have their own
  (`ActiveTypes`, `VoidTypes`, `PostTypes`, `StockTypes`, `CloseTypes`).  `TypeOK` is inductive as it
  stands because every request record carries the type of the data its next statement uses.
* `KitchenGateHolds`: `Spec => []KitchenGate`, and `PaidMeansFundedHolds`:
  `Spec => []PaidMeansFunded`.  Neither is inductive: `order.advance` commits a transition that it
  allowed on an earlier read, and its UPDATE asks only for the status.  The invariant `FundingInv` adds
  that a transition about to commit was read funded and is about an order that exists
  (`AdvancesAreFunded`), that a create about to commit inserts an order that is nobody else's
  (`CreatesAreNew`), and that an attempt without a row is not paid (`UnusedAreUnpaid`).  Every action but
  three satisfies `FundingStep`: `paid_at` is never cleared, no order changes its method, and no
  order is let into the kitchen or called paid without funds; `QuietStep` shows once that this
  preserves `FundingInv`.  The reads of create and advance and the insertion of an order are treated
  on their own.
* `NoDoubleCreditHolds` and `ClosedAttemptsTakeNothingHolds` (an action property).  `MoneyInv` adds that
  a transfer has one request that serves it (`OneRequestServes`) and is not counted before that request
  commits (`NotYetCounted`); that the sum a webhook took before its row lock holds transfers matched to
  the same attempt (`SumsAreMatched`); and that a webhook's, a sweep's and a refund's attempt exist.
  The sum may be *older* than the row, as the run `PartialLost` shows, but never holds a transfer of another
  attempt.
* `LifecycleImplemented`: `Spec => ImplementsLifecycle`, the refinement of `OrderLifecycle`, step by
  step, with `ClosedIsFinalHolds`, a property of the abstraction carried to the concrete row.
  `LifeInv` says that a transition under way is a step of the flow from the status it has read
  (`AdvancesFollow`), that only deliveries are assigned, and that a refund cancels only from `new` and
  `accepted`.  Every statement but the insertion satisfies `LifeStep`: it moves one order, along its
  flow, and lets none into the kitchen without funds.
* `CashSaleIsTotalHolds` and `CancelledByRequestReleasesStockHolds`, with `BooksFollowOrder`.
  `EffectsInv` ties books, sale and reservation of each order to its row, and says that a delivery under
  way has read the total the order has: it was read in a status in which no amendment gets through.
* `StockRowValidHolds`: the CHECK of the stock row, catalogue edits and amendments included.
* `ActiveNotOverCountedHolds`, for any number of attempts, and `ActiveCountedHolds` under
  `MaxAttempts = 1`: with a supplemental attempt the expiry of the first decrements the counter
  again, so equality holds only there (`BankRaces` has one attempt, `BankAmended` two).
* `KitchenColumnHolds` and `KitchenFollowsStatusHolds`: the columns are those the status admits; those that
  `kitchenForOrder` derives if nobody assigns, because `order.assign` moves a ready order to `assigned` and
  leaves the kitchen's column.
* `CarrierIsBusyHolds`: `CarrierInv` adds that an order not yet handed over has no shipper, so that the only
  step that gives it one makes that shipper busy, and a transition frees the shipper only if it closes the
  order.  It is stated for one order and any number of shippers and requests: with a second order two assignments
  may each find the same shipper free, because a subquery is not evaluated again when the row lock is granted
  (`lib/commands-orders.ts:802`), and the first to be delivered frees him.  The run checks it with one order.
* `StockConservedHolds`: units of a product are conserved, for any number of orders.  The sum over the
  reservations is a fold, which the provers cannot unfold; the lemmas before the theorem characterise it: a sum over a
  finite set does not depend on the choice of the fold's order, shown by looking at a smallest
  counterexample, and changes by the difference when one summand changes.  The theorem is about a shop without
  amendments and typed stock (`"amend" \notin Kinds /\ "stock" \notin Kinds`): `catalog.site-stock.upsert`
  overwrites the row with what a person typed, and `order.amend` may reserve by items it read over another
  connection than the order (`lib/commands-orders.ts:503`).
* `EffectsFollowOrderHolds`: all of `EffectsFollowOrder`, under the three conditions above; they hold in
  the run `BankRaces`, which checks it.

### Idempotency keys (`Idempotency_proof`)

* `KeysHaveTheirTypes`, `OneEffectUnlessErrorHolds`, `OnceOnlyHolds`: `Idempotency` allows one effect that no
  error disowned, and implements `OnceOnly`, for any number of requests, contents, looks and any faults; from
  `IdempotencyAssumption`.  The invariant `KeyInv` adds to the types that at most one request works
  with the claim and the row has its content and no response; that what took effect and was not disowned
  is the worker's, or belongs to a crashed process whose row is still there, or is the response on record.
  `OneEffectHolds`: without late failures and failures of the UPDATE the exception for errors is not
  needed.

### The courier (`Courier_proof`)

For any number of trips, requests and shippers, from `CourierAssumption`.

* `CourierTypesHold`: `TypeOK` of `Courier`, inductive as it stands.
* `OneTripHolds`: `Spec => []OneTrip`.  The invariant adds `Reserved`: while there is no job, nobody has asked
  the provider and there is no trip; of the requests that are about to ask there is one, and there is no trip
  yet.  The row of the job is a permission that is given once (`BookInsert`) and used once (`Place`); every
  other step but the replacement of a trip satisfies `NoPermission`.
* `DeliveredCountedOnceHolds` and `NoWayBackHolds`: the first is inductive with the types; the second
  needs that the order never is in a status outside of its way (`Forward`), so that the transitions the
  staff may ask for (`StaffGoForward`, from the definitions of `OrderLogic`) lead forward.
* `RunningIsKnownHolds`: `KnownInv` adds to the above that one request at most has asked the provider; that
  the job stays `"booking"`, without a trip, until that request has its answer; that a request which got past
  the lookup of its trip found a job that has one (`Traced`), and no job loses its trip; and that a trip
  which takes over another one has been made (`Made`).
* `ChargedForDeliveryHolds`: news of a completion are true wherever they are, sent, held by a request or
  polled (`Tells`), because a completed trip stays completed and a delivered order delivered (`EndsStep`).
* `JobNotAheadOfTripHolds`: `AheadInv` says the same of every status, not only of the last one: what is
  sent, polled or held by a request has happened to the trip it is about, and a trip never goes back.

### The services (`Services_proof`, `Admin_proof`)

The two modules take each service by INSTANCE and prove its properties from its own `Init` and `Next`,
section by section: first the assumption on the constants, if one is needed, then the shapes of the rows and
what the requests under way have read and still rely on, the invariant, a lemma per action, the theorems.
None of the assumptions is more than what the code's types say: numbers are numbers, a set is finite, the
model value `None` is no row.

| Section | Invariant, and why it is needed | Theorems about |
|---|---|---|
| `Startup` | `SchemaInv`: a start is at a version whose predecessors are all on record; the next one is the least one missing, which exists because the numbers are well founded.  `ImagesAreCounted`: an image carries the migrations 1 to n, as `db/migrate.ts` sorts its files | `SchemaIsWhole`, `ServedSchemaIsComplete` |
| `Payouts` | `PayoutInv`: what is paid has left with an item | `BatchedOnce`, `EarnedAfterDispute`, `PaidIsFinal` |
| `Ledger` | `BooksInv`: two transactions that have written share no row (`Locked`), what the first UPDATE asked for is still so (`WritesHold`), no period was closed when they wrote (`GuardHeld`).  `BooksAreCounted` | `TypeOK`, `PaidHasPayment`, `SettledOnce`, `ExpenseBooked`, `ClosedBooksStay` |
| `CashDrawer` | `TillInv`: a row that waits for its INSERT is the request's own and names no shipper; a shift was closed by a request that ended.  `TillIsNamed` | `OneOpenShift`, `RemittanceIsBacked`, `ClosedIsFinal` |
| `GroupRooms` | `RoomInv`: there is one order, and a finalisation that goes on knows it.  `RoomIsNamed` | `OneOrderPerRoom`, `RewardMatchesOrder` |
| `Storefront` | `ShopInv`: a cart of a visit is sent under one reference (`OneReference`), which the page keeps with the cart (`PageGoesOn`).  `ShopIsBounded` | `OneOrderPerCheckout`, `EndedStays` |
| `Inbox` | `DeskInv`: a call in flight has no row, an answered one has; every row has its alert; who is logged resolved it | `ClosedTogether`, `ResolvedByOne`, `SentIsStored`, `ApprovedStays` |
| `Deliveries` | `HomeInv`: what a request made has its number; an end under way has its proof; what the clean-up is about to delete is of a time that stays over.  `DayIsCounted` | `FeeIsQuoted`, `EndHasProof`, `PhotoIsKept` |
| `Affiliates` | `PartnerInv`; `ClickInv`: an order still to come names a click with its code or none, and the clean-up only shifts the list, since the oldest clicks expire first | `PausedCodesRest`, `CodeKeepsOwner`, `ClickMatchesOrder` |
| `Materials` | `KitchenInv`: a receipt that still finds the order new has read that it is new, and what it adds to what it has read is within the order.  `Owes`: the items received are in the amount owed, by the lemmas on sums.  `UnitsAreCounted`, and the SKUs are finite | `ReceivedWithinOrder`, `ReceiptsStay`, `YieldIsFinal` |
| `Customers` | `ClubInv` | `ProfileKeepsAccount` |
| `Catalog` | `MenuInv`: an edit that holds the product's stamp holds its price; no request to come has a stamp of the past.  `WritersAreNamed` | `EditsKeepPrice` |
| `StockLots` | `ShelfInv`: a shortage is taken off only with its entry, whose key lets one in | `ShortageOnce` |
| `Transfers` | `GoodsInv`: a receipt under way is of a transfer on its way or come; the debts are those of the transfers that came, one each; shelf, lots and debt are the sum over them | `ReceivedOnce` |
| `SignIn` | `ServingInv`: a request remembers all that holds of its session by now, so that what a check finds true it has remembered; a session is inserted once, by the request it is numbered after | `ServedInForce`, `AudiencesApart` |
| `Accounts` | `AccountsInv`: sessions and requests are about accounts that exist.  `PaceInv`: since a window was opened no more came through than it counted, with the window before it the limit more, beyond its end nothing; what was swept or is over was such a window.  `PaceIsSet` | `OneAccountPerPhone`, `RequestsArePaced` |
| `Network` | `NetInv`: a creation under way knows that every smaller number is taken; edits hold stamps of the past.  `SitesAreCounted` | `CodesApart`, `OneRole`, `EditsKeepStatus` |
| `PersonalData` | `PrivacyInv`: an order exists once the request that made it is done | `ErasedStaysErased`, `AnsweredIsLogged` |
| `Settings` | `SettingsInv`: a copy is dated when its answer came, a tick at most after it was read.  `SettingsAreTimed` | `StaleAtMostTTL` |
| `Incidents` | `WatchInv`: the stamp of an incident only grows, by more than a window; who has set it posts the alert or is dead; of the alerts posted or about to be no two are near.  `AlertsAreTimed` | `AlertsApart`, `OpenIsAlerted` |

| `PortalPage` | `PageInv`: what the last load has read is the data as it is, or a timer, an event not yet sent or a gap of the stream stands between them (`ReadIsKnown`); loads after a sign-in ask with its cookie (`AskedByOwner`) | `PageIsFresh`, `DataIsOwn` |
| `Portal` | `ScreenInv`: what was in sight all along is beyond the cursor or listed once (`Walking`); what the stream's cursor has passed was sent, comes with its poll, or was late (`Streaming`).  `OrdersAreNumbered` | `PagesListOnce`, `StreamSkipsNone` |
| `StoreChoice` | `NearInv`: what is awaited carries the place it was asked for.  `ShownInv`: what is awaited and not cancelled was asked for the place shown (`AskedForPlace`), and the timer of the choice is set when list or place changed since.  `StoresArePlaced` | `StoreIsKept`, `ShownIsChosen`, `NearestServes` |

### The services together (`MCServices_proof`)

Each property of the run `Services` but `TypeOK` and `RulesAgree` is a theorem about `MCServices!Spec`:
`CountersAgreeHolds`, `BooksAgreeHolds`, `CommissionsPayOnceHolds`, `CreditsMatchOrdersHolds`,
`DocumentsActOnceHolds`, `AccountsAdmitHolds`, `CheckoutsHoldHolds`, `UpkeepHoldsHolds`, `ReadsAreCompleteHolds`,
and the action properties `FinalStaysHolds`, `OwnersStayHolds`, `EditsKeepHolds`.  A lemma for each part
(`DrawerAlone`, `BooksAlone`, ...) says that a behaviour of the part is one of the part's module: it starts with
the module's `Init`, every step is a step of its `Next` or leaves its tables alone, and no step changes the
part.  So what holds of a module's `Spec` holds of the composition while the part is the module's, and the
properties are conjunctions of that.  `ServicesAssumption` is the conjunction of the sections' assumptions, with each
part's own constants; TLC evaluates it on the run.  `CountersAgreeHolds` has the hypothesis of
`StockConservedHolds`, no amendments and no typed stock, which the run satisfies (`OfferedKinds`).

The sums.  The community modules fold a finite set in the order in which CHOOSE picks its elements, so a sum has
no equation of its own for one element more.  The first section of `Services_proof` gives it one, without the
library's induction theorems: by the well-foundedness of the naturals a set of finite sets has one with the fewest elements, and
a smallest set on which two solutions of the fold's recursion differ, or which depends on the order, is
impossible (`TotalsExist`, `SolutionsAgree`, `AnyOrder`).  `TotalWith`, `TotalAdds` and `TotalOfMost` then say
what an element, another sum and an element worth nothing do to a sum.  `ReceivedOnce`,
`ReceivedWithinOrder` and `RequestsArePaced` rest on them.

An attempt to prove found one wrong property.  `Materials` used to state that a purchase called received has
all of its items.  With one item TLC agreed; the invariant that the proof needs is false with two: of
three receipts that overlap, the one that loses the order leaves an item behind, without touching
`updated_at`, and the third closes the order with another item missing (`lib/commands-supply-chain.ts:156-165`).
No text of the repository denies it, so it is no finding; `ReceivedWithinOrder` and `ReceiptsStay` say what does
hold, for any number of items, and the loss is listed in section 3.

### Only model-checked

* Liveness: fairness and ENABLED are out of the provers' reach (`EveryRequestAnswered`, `TransfersSettle`,
  `EveryRequestEnds`).
* `CarrierIsBusy` with several orders does not hold; see `CarrierIsBusyHolds`.
* `RulesAgree`: what `Rules`, `Reports` and `SqlText` compute, against their definitions.  These are recursions
  and sums over sequences of data, so a proof is an induction over data.
* `MCServices!TypeOK`: the type invariants of the services but `Ledger`'s.  The proofs above carry the shapes they
  need in their invariants.



## 5. Plan

1. *Done*: the order and payment core, its abstract life, types and the kitchen gate.
2. *Done*: `Idempotency`, its abstraction `OnceOnly`, and the proofs of both safety properties.
3. *Done*: `Courier`: bookings, webhooks, refreshes, cancellations and automatic dispatch of one order,
   with the proofs of all its safety properties.
4. *Done*: money, supply chain, groups, partners, customers, access, catalogue, sites, settings, pages,
   lists, reports, monitoring, privacy, migrations: the modules of `Services`.
5. *Done*, proofs: every safety property of the order core, the keys and the courier; every safety property of
   the services, on their own and composed, but those of section 4's last list.
6. Open, proofs: the type invariants of the services; `Reports`, once its sums are written so that the lemmas on
   sums of `Services_proof` apply.

### Not modelled

* Seeds, imports of data, HTTP headers, redirects, images and their checks: no state of the service.
* Rendering: sheets, tables, filters and charts of the two pages.
* Commands that are one INSERT or UPDATE of a row nobody else decides on: suppliers, partners, the stages of
  an onboarding, internal transfer prices, revenue policies, the queue of electronic invoices, saved
  company profiles, the retention of logs.
* Prices of options and the validation of input: arithmetic and syntax of one request.
* Two requests in one millisecond, and clocks of several hosts that disagree.
