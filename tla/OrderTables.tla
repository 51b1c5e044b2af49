---------------------------- MODULE OrderTables ----------------------------
(***************************************************************************)
(* The tables the order and payment handlers share, the requests that are  *)
(* in flight over them, and the fragments of SQL batches that more than    *)
(* one handler issues.                                                     *)
(*                                                                         *)
(* A handler is one request being served.  It reads rows, keeps the copies *)
(* in req[h], and later writes; other handlers run in between.  A batch is *)
(* one PostgreSQL transaction at READ COMMITTED (db/postgres-runtime.ts,   *)
(* batch): a batch that locks the row every other writer of its tables     *)
(* locks first is one action, a batch whose statements can be overtaken is *)
(* cut where it can be.                                                    *)
(*                                                                         *)
(* Abstractions.  One site and one tracked product at price 1, so that an  *)
(* order's total is its quantity.  A stamp stands for the text of `now`:   *)
(* handlers only compare stamps for equality, so a stamp is drawn when it  *)
(* is first written, one that no row and no request holds (two requests in *)
(* one millisecond are not modelled).  An open shift and a proof of        *)
(* delivery are asked for before anything is written: a request that fails *)
(* there is one that is not made.  An accounting period may close under a  *)
(* request at any time, and a trigger of the ledger then rolls its batch   *)
(* back, so that is modelled.                                              *)
(***************************************************************************)
EXTENDS OrderLogic, Integers, FiniteSets, FiniteSetsExt

CONSTANTS
  Orders,        \* order ids
  Handlers,      \* requests that can be in flight at once
  Transfers,     \* bank transfers (SePay transaction ids)
  References,    \* provider references of refunds
  Shippers,
  MaxAttempts,   \* payment attempts of an order: the first and the supplemental ones
  MaxQty,        \* largest quantity of an order, and largest transfer
  OnHand,        \* stock on hand at the start
  MaxStamp,      \* stamps are 0..MaxStamp
  OfferedMethods, OfferedTypes,  \* what the shop's customers choose from
  Scheduling,    \* whether an order may be placed for later: a subset of BOOLEAN
  Kinds          \* the kinds of request that are made

NoShipper == "no shipper"

Nowhere == "nowhere"          \* the target of a transfer that names no attempt

RequestKinds ==
  {"create", "amend", "advance", "assign", "refund", "webhook", "sweep", "stock", "close",
   "abort"}

ASSUME TablesAssumption ==
  /\ MaxAttempts \in Nat \ {0} /\ MaxQty \in Nat \ {0}
  /\ OnHand \in Nat /\ MaxStamp \in Nat
  /\ IsFiniteSet(Orders) /\ IsFiniteSet(Transfers)
  /\ OfferedMethods \subseteq Methods /\ OfferedTypes \subseteq FulfillmentTypes
  /\ Scheduling \subseteq BOOLEAN
  /\ Kinds \subseteq RequestKinds
  /\ NoShipper \notin Shippers /\ Nowhere \notin Orders

VARIABLES
  orders,        \* operation_orders
  attempts,      \* payment_attempts, oldest first; the last is the latest
  transactions,  \* payment_transactions, with the transfers on their way
  refunds,       \* payment_refunds
  reservations,  \* catalog_stock_reservations
  stock,         \* catalog_site_stock of the product at the site
  activeOrders,  \* operation_sites.active_orders
  allocation,    \* finance_order_allocations.status
  ledger,        \* finance_ledger_entries: revenue and affiliate commission
  cashSales,     \* cash_movements of type 'sale', by order: the amount, 0 for none
  staff,         \* operation_staff.status of the shippers
  req            \* what each handler is doing

payment == <<attempts, transactions, refunds>>
stockRows == <<reservations, stock>>
books == <<allocation, ledger, cashSales>>
vars == <<orders, attempts, transactions, refunds, reservations, stock,
          activeOrders, allocation, ledger, cashSales, staff, req>>

-----------------------------------------------------------------------------
(* Rows.                                                                   *)

Stamps == 0 .. MaxStamp
Attempts == 1 .. MaxAttempts
Amounts == 0 .. MaxQty

PaymentStatuses ==
  {"pending", "partially_paid", "paid", "expired", "cancelled", "refunded",
   "partially_refunded"}

OrderRow ==
  [status : OrderStatuses \cup {"none"}, kitchen : KitchenStatuses,
   delivery : DeliveryStatuses, method : Methods, ftype : FulfillmentTypes,
   pay : PaymentStatuses, total : Amounts, shipper : Shippers \cup {NoShipper},
   reason : {"", "payment_expired", "by request"}, updatedAt : Stamps]

\* received_amount is written either as the sum of the matched transfers or, for
\* cash, as the expected amount: credited is the set that was summed, collected
\* says that cash was taken.  paidAt: paid_at is set; lapsed: expires_at has passed.
AttemptRow ==
  [provider : {"sepay", "cash"}, expected : Amounts,
   credited : SUBSET Transfers, collected : BOOLEAN,
   status : {"none", "pending", "partially_paid", "paid", "overpaid", "expired",
             "failed", "refunded"},
   paidAt : BOOLEAN, lapsed : BOOLEAN]

\* afterExpiry: the bank's transaction date is after the attempt's expires_at.
TransactionRow ==
  [state : {"unsent", "sent", "received", "matched", "late_payment",
            "closed_payment", "unmatched"},
   o : Orders \cup {Nowhere}, a : Attempts, amount : Amounts, afterExpiry : BOOLEAN]

RefundRow ==
  [ref : References, provider : {"sepay", "cash"}, o : Orders, a : Attempts,
   amount : Nat]

ReservationRow == [quantity : Amounts, status : {"none", "active", "released", "consumed"}]

StockRow == [onHand : Nat, reserved : Nat, available : BOOLEAN]

\* closed: the rows' occurred_at lies in a closed accounting period.
LedgerRow ==
  [revenue : {"none", "pending", "posted", "voided"},
   commission : {"none", "pending", "earned", "voided"}, closed : BOOLEAN]

BookStatuses == {"none", "pending", "posted", "voided"}

NoOrder ==
  [status |-> "none", kitchen |-> "queued", delivery |-> "unassigned",
   method |-> "cash", ftype |-> "delivery", pay |-> "pending", total |-> 0,
   shipper |-> NoShipper, reason |-> "", updatedAt |-> 0]

NoAttempt ==
  [provider |-> "cash", expected |-> 0, credited |-> {}, collected |-> FALSE,
   status |-> "none", paidAt |-> FALSE, lapsed |-> FALSE]

Unsent ==
  [state |-> "unsent", o |-> Nowhere, a |-> 1, amount |-> 0, afterExpiry |-> FALSE]

-----------------------------------------------------------------------------
(* Requests.  `at` names the statement the handler executes next; the other *)
(* fields are what it has read and worked out: from, seen: the order's status *)
(* and updated_at as they were read.                                         *)

Idle == [at |-> "idle"]

CreateRequest ==
  [at : {"create.commit"}, o : Orders, qty : Amounts, method : Methods,
   ftype : FulfillmentTypes, later : BOOLEAN]

\* held: the quantity of the items as they were read.
AmendItemsRequest == [at : {"amend.read"}, o : Orders, held : Amounts]

\* delta: the change of the stock reserved; due: the amount of the payment attempt
\* that is added, 0 for none.
AmendRequest ==
  [at : {"amend.commit"}, o : Orders, qty : Amounts, delta : Int, due : Amounts,
   seen : Stamps]

\* cash: the transition collects the cash of the order, total.
AdvanceRequest ==
  [at : {"advance.commit"}, o : Orders, from : OrderStatuses,
   to : OrderStatuses, kitchen : KitchenStatuses, delivery : DeliveryStatuses,
   cash : BOOLEAN, total : Amounts, shipper : Shippers \cup {NoShipper}]

AssignRequest ==
  [at : {"assign.update", "assign.commit"}, o : Orders, s : Shippers]

\* full: the amount is all that was left to refund of the attempt; cancels: it ends
\* the order; prior: the attempt's refunds when this one was inserted.
RefundRequest ==
  [at : {"refund.insert", "refund.commit"}, o : Orders, a : Attempts,
   ref : References, amount : Nat, full : BOOLEAN, cancels : BOOLEAN,
   from : OrderStatuses, seen : Stamps, prior : SUBSET RefundRow]

WebhookRequest == [at : {"webhook.lookup", "webhook.reread"}, t : Transfers]

\* full: with this transfer the attempt, as it was read, has all that is expected.
CheckRequest == [at : {"webhook.match"}, t : Transfers, full : BOOLEAN]

\* sum: the transfers the subquery of received_amount added up.
MatchRequest ==
  [at : {"webhook.commit"}, t : Transfers, sum : SUBSET Transfers]

\* open, empty: the attempt as it was read, still open and with nothing received.
FlagRequest ==
  [at : {"webhook.flag"}, t : Transfers,
   verdict : {"late_payment", "closed_payment"}, open : BOOLEAN, empty : BOOLEAN]

DueAttempt == [o : Orders, a : Attempts, empty : BOOLEAN]

SweepRequest == [at : {"sweep.expire"}, now : Stamps, due : SUBSET DueAttempt]

Request ==
  {Idle} \cup CreateRequest \cup AmendItemsRequest \cup AmendRequest \cup AdvanceRequest
    \cup AssignRequest \cup RefundRequest \cup WebhookRequest \cup CheckRequest
    \cup MatchRequest \cup FlagRequest \cup SweepRequest

KeepsStamp == {"amend.commit", "refund.insert", "refund.commit"}

Busy == {h \in Handlers : req[h].at # "idle"}

UsedStamps ==
  {orders[o].updatedAt : o \in Orders}
    \cup {req[h].seen : h \in {g \in Handlers : req[g].at \in KeepsStamp}}
    \cup {req[h].now : h \in {g \in Handlers : req[g].at = "sweep.expire"}}

\* A stamp that compares unequal with all that are held.
FreshStamps ==
  LET free == Stamps \ UsedStamps
  IN  IF free = {} THEN {} ELSE {CHOOSE n \in free : TRUE}

Begin(h, kind, r) == kind \in Kinds /\ req[h] = Idle /\ req' = [req EXCEPT ![h] = r]

Goto(h, label) == req' = [req EXCEPT ![h].at = label]

End(h) == req' = [req EXCEPT ![h] = Idle]

-----------------------------------------------------------------------------
(* Reading the tables.                                                     *)

Total(transfers) == MapThenSumSet(LAMBDA t : transactions[t].amount, transfers)

Received(att) == IF att.collected THEN att.expected ELSE Total(att.credited)

RefundsOf(o, a) == {r \in refunds : r.o = o /\ r.a = a}

AmountOf(rows) == MapThenSumSet(LAMBDA r : r.amount, rows)

Matched(o, a) ==
  {t \in Transfers : /\ transactions[t].state = "matched"
                     /\ transactions[t].o = o /\ transactions[t].a = a}

Exists(o, a) == attempts[o][a].status # "none"

\* ORDER BY created_at DESC LIMIT 1
Latest(o) ==
  CHOOSE a \in Attempts : Exists(o, a) /\ \A b \in Attempts : Exists(o, b) => b <= a

AwaitsMoney == {"pending", "partially_paid"}
TakesMoney == {"pending", "partially_paid", "paid", "overpaid"}

-----------------------------------------------------------------------------
(* Fragments of the batches.  Trigger finance_ledger_closed_period_guard   *)
(* rolls a batch back that inserts or updates a row of a closed period:    *)
(* such a batch has no step here, its request ends in BooksClosed.         *)

\* Mutation: MAX(0, .) left out.
Floor0_None(n) == n

Floor0(n) == IF n < 0 THEN 0 ELSE n

\* CHECK catalog_site_stock_valid: a batch that breaks it is rolled back whole.
StockValid(onHand, reserved) == 0 <= reserved /\ reserved <= onHand

\* Mutations: every batch decrements, whether or not it closed the order; the same,
\* without MAX.
LeaveActive_Always(closed) == activeOrders' = Floor0(activeOrders - 1)
LeaveActive_NoFloor(closed) == activeOrders' = activeOrders - 1

\* active_orders = MAX(0, active_orders - 1), for the batch that closed the order
LeaveActive(closed) ==
  activeOrders' = IF closed THEN Floor0(activeOrders - 1) ELSE activeOrders

Voided(row) == [row EXCEPT !.revenue = "voided", !.commission = "voided"]

\* Mutation: only rows that are still pending are voided.
VoidRevenue_Pending(o, applies) ==
  /\ allocation' = IF applies /\ allocation[o] = "pending"
                   THEN [allocation EXCEPT ![o] = "voided"] ELSE allocation
  /\ applies => ~ ledger[o].closed
  /\ ledger' = IF applies /\ ledger[o].revenue = "pending"
               THEN [ledger EXCEPT ![o] = Voided(@)] ELSE ledger

VoidRevenue(o, applies) ==
  /\ applies => ~ ledger[o].closed
  /\ allocation' = IF applies THEN [allocation EXCEPT ![o] = "voided"] ELSE allocation
  /\ ledger' = IF applies THEN [ledger EXCEPT ![o] = Voided(@)] ELSE ledger

Unposted(o) == "pending" \in {ledger[o].revenue, ledger[o].commission}

\* Mutation: a commission is earned as soon as revenue is posted.
PostRevenue_Earned(o, commission, applies) ==
  /\ applies /\ Unposted(o) => ~ ledger[o].closed
  /\ allocation' = IF applies /\ allocation[o] = "pending"
                   THEN [allocation EXCEPT ![o] = "posted"] ELSE allocation
  /\ ledger' = IF applies
               THEN [ledger EXCEPT
                       ![o].revenue = IF @ = "pending" THEN "posted" ELSE @,
                       ![o].commission = IF @ = "pending" THEN "earned" ELSE @]
               ELSE ledger

\* Posts what is pending; a commission that is pending becomes commission.
PostRevenue(o, commission, applies) ==
  /\ applies /\ Unposted(o) => ~ ledger[o].closed
  /\ allocation' = IF applies /\ allocation[o] = "pending"
                   THEN [allocation EXCEPT ![o] = "posted"] ELSE allocation
  /\ ledger' = IF applies
               THEN [ledger EXCEPT
                       ![o].revenue = IF @ = "pending" THEN "posted" ELSE @,
                       ![o].commission = IF @ = "pending" THEN commission ELSE @]
               ELSE ledger

\* Mutations: the reservation is not closed; it is closed before the stock row is
\* updated, which then finds no active one.
ReleaseStock_KeepRow(o, applies) ==
  LET live == applies /\ reservations[o].status = "active"
  IN  /\ stock' = IF live THEN [stock EXCEPT !.reserved = Floor0(@ - reservations[o].quantity)]
                  ELSE stock
      /\ UNCHANGED reservations
ReleaseStock_RowFirst(o, applies) ==
  /\ UNCHANGED stock
  /\ reservations' = IF applies /\ reservations[o].status = "active"
                     THEN [reservations EXCEPT ![o].status = "released"] ELSE reservations

\* Gives an active reservation back to the shelf.
ReleaseStock(o, applies) ==
  LET live == applies /\ reservations[o].status = "active"
  IN  /\ stock' = IF live THEN [stock EXCEPT !.reserved = Floor0(@ - reservations[o].quantity)]
                  ELSE stock
      /\ reservations' = IF live THEN [reservations EXCEPT ![o].status = "released"]
                         ELSE reservations

Cancelled(row, pay, reason, now) ==
  [row EXCEPT !.status = "cancelled", !.kitchen = "cancelled",
              !.delivery = "cancelled", !.pay = pay, !.reason = reason,
              !.updatedAt = now]
=============================================================================
