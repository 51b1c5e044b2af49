---------------------------- MODULE OrderSystem ----------------------------
(***************************************************************************)
(* The order and payment core: order commands, refunds and bank payments   *)
(* running against the same tables, and what must hold of them.            *)
(***************************************************************************)
EXTENDS OrderCommands, SePay

Init ==
  /\ orders = [o \in Orders |-> NoOrder]
  /\ attempts = [o \in Orders |-> [a \in Attempts |-> NoAttempt]]
  /\ transactions = [t \in Transfers |-> Unsent]
  /\ refunds = {}
  /\ reservations = [o \in Orders |-> [quantity |-> 0, status |-> "none"]]
  /\ stock = [onHand |-> OnHand, reserved |-> 0, available |-> TRUE]
  /\ activeOrders = 0
  /\ allocation = [o \in Orders |-> "none"]
  /\ ledger = [o \in Orders |-> [revenue |-> "none", commission |-> "none", closed |-> FALSE]]
  /\ cashSales = [o \in Orders |-> 0]
  /\ staff = [s \in Shippers |-> "available"]
  /\ req = [h \in Handlers |-> Idle]

\* A request arrives and makes its first reads.
Arrive(h) ==
  \/ CreateRead(h) \/ AmendItems(h) \/ AdvanceRead(h) \/ AssignRead(h)
  \/ RefundRead(h) \/ WebhookReceive(h) \/ SweepRead(h)

\* A request goes on.
Continue(h) ==
  \/ CreateCommit(h) \/ CreateRejected(h)
  \/ AmendRead(h) \/ AmendRefused(h) \/ AmendCommit(h) \/ AmendRejected(h)
  \/ AdvanceCommit(h) \/ AssignUpdate(h) \/ AssignCommit(h)
  \/ RefundInsert(h) \/ RefundCommit(h)
  \/ WebhookUnmatched(h) \/ WebhookLookup(h) \/ WebhookMatch(h) \/ WebhookCommit(h)
  \/ WebhookOvertaken(h) \/ WebhookReread(h) \/ WebhookFlag(h) \/ ExpireAttempt(h)

\* The handler's next statement asks for an open period, or writes ledger rows, and
\* the period of its order's rows is closed.
WritesClosedBooks(h) ==
  LET r == req[h]
      Closed(o) == ledger[o].closed
  IN  CASE r.at = "webhook.match" -> ~ PeriodOpen(h)
        [] r.at = "webhook.commit" -> Closed(transactions[r.t].o) /\ PostsOrder(h)
        [] r.at = "webhook.flag" -> Closed(transactions[r.t].o) /\ FlagCloses(h)
        [] r.at = "sweep.expire" -> \E d \in r.due : Closed(d.o) /\ ExpiryCloses(r, d)
        [] r.at = "advance.commit" -> Closed(r.o) /\ AdvancePosts(r)
        [] r.at = "amend.commit" -> Closed(r.o) /\ AmendWins(r)
        [] r.at = "refund.commit" -> Closed(r.o) /\ r.cancels
        [] OTHER -> FALSE

\* "accounting_period_closed": what is in progress is rolled back and the request is
\* answered with the error.  What it committed before stays: a webhook leaves its
\* transaction as received, which a repeated delivery takes for a duplicate; a sweep
\* leaves the attempts that it has not come to.
BooksClosed(h) ==
  /\ WritesClosedBooks(h)
  /\ End(h)
  /\ UNCHANGED <<orders, payment, stockRows, activeOrders, books, staff>>

\* A handler dies between two statements: a crash, an error of the database, the
\* victim of a deadlock.  What it had not committed is rolled back.
Abort(h) ==
  /\ "abort" \in Kinds /\ h \in Busy
  /\ End(h)
  /\ UNCHANGED <<orders, payment, stockRows, activeOrders, books, staff>>

\* accounting-period.close: the rows of some orders fall into the period.
ClosePeriod ==
  /\ "close" \in Kinds
  /\ \E os \in SUBSET {o \in Orders : orders[o].status # "none" /\ ~ ledger[o].closed} \ {{}} :
       ledger' = [o \in Orders |-> [ledger[o] EXCEPT !.closed = @ \/ o \in os]]
  /\ UNCHANGED <<orders, payment, stockRows, activeOrders, allocation, cashSales, staff, req>>

World ==
  \/ \E t \in Transfers : SendTransfer(t)
  \/ \E o \in Orders, a \in Attempts : Lapse(o, a)
  \/ UpsertStock
  \/ ClosePeriod

Next == World \/ \E h \in Handlers : Arrive(h) \/ Continue(h) \/ BooksClosed(h) \/ Abort(h)

Spec == Init /\ [][Next]_vars

\* The server finishes the requests it has accepted.
FairSpec == Spec /\ \A h \in Handlers : WF_vars(Continue(h) \/ BooksClosed(h))

-----------------------------------------------------------------------------
(* Types                                                                   *)

\* Every table holds rows of its type and every request the data its next
\* statement needs.
TypeOK ==
  /\ orders \in [Orders -> OrderRow]
  /\ attempts \in [Orders -> [Attempts -> AttemptRow]]
  /\ transactions \in [Transfers -> TransactionRow]
  /\ refunds \subseteq RefundRow
  /\ reservations \in [Orders -> ReservationRow]
  /\ stock \in StockRow
  /\ activeOrders \in Nat
  /\ allocation \in [Orders -> BookStatuses]
  /\ ledger \in [Orders -> LedgerRow]
  /\ cashSales \in [Orders -> Amounts]
  /\ staff \in [Shippers -> {"available", "busy"}]
  /\ req \in [Handlers -> Request]

-----------------------------------------------------------------------------
(* Vocabulary of the properties                                            *)

Placed == {o \in Orders : orders[o].status # "none"}
IsBank(o) == orders[o].method = "bank_transfer"
Open == {o \in Placed : orders[o].status \notin {"delivered", "cancelled"}}
InTheKitchen == OrderStatuses \ {"new", "cancelled"}

\* Some attempt of the order was paid in full at some time.
Funded(o) == \E a \in Attempts : attempts[o][a].paidAt

ActiveReservations == {o \in Orders : reservations[o].status = "active"}
Consumed == {o \in Orders : reservations[o].status = "consumed"}
QuantityOf(os) == MapThenSumSet(LAMBDA o : reservations[o].quantity, os)

\* Money received and not given back.
NetReceived(o) ==
  MapThenSumSet(LAMBDA a : Received(attempts[o][a]) - AmountOf(RefundsOf(o, a)), Attempts)

\* A webhook is between its snapshot and its commit, or between its statements.
BeingMatched(o, a) ==
  \E h \in Busy : /\ req[h].at \in {"webhook.commit", "webhook.reread", "webhook.flag"}
                  /\ transactions[req[h].t].o = o /\ transactions[req[h].t].a = a

-----------------------------------------------------------------------------
(* Money                                                                   *)

\* A bank order reaches the kitchen, or anything after it, only if one of its
\* payment attempts has been paid in full; cancellation is the only way around.
\* order.advance checks this on a row it reads, and its update asks only that
\* the status is still the one read.
KitchenGate == \A o \in Placed : IsBank(o) /\ orders[o].status \in InTheKitchen => Funded(o)

\* The row of a bank order says "paid" only if some attempt of it was paid in full,
\* although the webhook, the sweep, refunds and cancellations all write the column.
PaidMeansFunded == \A o \in Placed : IsBank(o) /\ orders[o].pay = "paid" => Funded(o)

\* Whatever is summed into an attempt is a transfer sent to it that stays matched:
\* no transfer counts twice, and none counts that is queued for review.
NoDoubleCredit ==
  \A o \in Orders, a \in Attempts : attempts[o][a].credited \subseteq Matched(o, a)

\* An attempt that was closed (expired, failed, refunded) never takes money again,
\* and what it took is not forgotten.
ClosedAttemptsTakeNothing ==
  [][\A o \in Orders, a \in Attempts :
       Exists(o, a) /\ attempts[o][a].status \notin TakesMoney =>
         /\ attempts'[o][a].status \notin TakesMoney
         /\ attempts'[o][a].credited = attempts[o][a].credited]_vars

\* A cancelled order earns nothing: its allocation and its ledger are voided, also
\* when a webhook posts them in a race with the cancellation.
CancelledEarnsNothing ==
  \A o \in Placed : orders[o].status = "cancelled" =>
    /\ allocation[o] = "voided"
    /\ ledger[o].revenue = "voided" /\ ledger[o].commission = "voided"

\* An affiliate's commission is earned by delivered orders only.
CommissionNeedsDelivery ==
  \A o \in Orders : ledger[o].commission = "earned" => orders[o].status = "delivered"

\* A delivered cash order has one sale movement, of the order's total; an order in
\* any other state, or paid by transfer, has none.
CashSaleIsTotal ==
  \A o \in Placed :
    cashSales[o] = IF orders[o].status = "delivered" /\ ~ IsBank(o)
                   THEN orders[o].total ELSE 0

-----------------------------------------------------------------------------
(* Counters, stock, staff, columns that must agree                         *)

\* The site's counter of orders in progress never exceeds the orders in progress.
ActiveNotOverCounted == activeOrders <= Cardinality(Open)

\* While every order has one payment attempt it is exactly their number, whoever
\* closes the order: a command, a refund, the webhook or the sweep.
ActiveCounted == activeOrders = Cardinality(Open)

\* The product's reserved count is the sum of the active reservations.
ReservedMatchesReservations == stock.reserved = QuantityOf(ActiveReservations)

\* What left the shelf is what was consumed by orders.
StockConserved == stock.onHand + QuantityOf(Consumed) = OnHand

\* An order that a person cancelled holds no stock back.
CancelledByRequestReleasesStock ==
  \A o \in Placed : orders[o].reason = "by request" => o \notin ActiveReservations

\* However the stock row is overwritten under live reservations, no later batch
\* fails on its CHECK: the row stays valid.
StockRowValid == StockValid(stock.onHand, stock.reserved)

\* The kitchen column goes with the status column, which different handlers write.
KitchenFollowsStatus ==
  \A o \in Placed :
    IF orders[o].status = "new"
    THEN orders[o].kitchen \in {"scheduled", "queued"} \cup
           (IF IsBank(o) /\ orders[o].pay # "paid" THEN {"payment-pending"} ELSE {})
    ELSE orders[o].kitchen = kitchenForOrder(orders[o].status, orders[o].kitchen)

\* What an order carries with it goes with its status, whoever wrote that: the
\* books of a cancelled order are voided, no commission is earned before the
\* delivery, the kitchen works on what it should, and the stock is what the
\* delivered took and the others hold.
EffectsFollowOrder ==
  /\ CancelledEarnsNothing /\ CommissionNeedsDelivery /\ KitchenFollowsStatus
  /\ StockConserved /\ ReservedMatchesReservations

\* The shipper of an order on its way is busy.
CarrierIsBusy ==
  \A o \in Placed :
    orders[o].status \in InDelivery /\ orders[o].shipper # NoShipper =>
      staff[orders[o].shipper] = "busy"

-----------------------------------------------------------------------------
(* The abstract specification                                              *)

Lifecycle ==
  INSTANCE OrderLifecycle WITH
    status <- [o \in Orders |-> orders[o].status],
    ftype  <- [o \in Orders |-> orders[o].ftype],
    bank   <- [o \in Orders |-> IsBank(o)],
    funded <- [o \in Orders |-> Funded(o)]

\* The order core implements the life of an order that its users are promised.
ImplementsLifecycle == Lifecycle!Spec

-----------------------------------------------------------------------------
(* Liveness, under FairSpec                                                *)

\* A refund waits for the reference that another one has inserted; if that is refused
\* for closed books, a third may insert the reference before the first is awake.
MayBeOvertaken(h) == req[h].at = "refund.insert" /\ \E o \in Orders : ledger[o].closed

\* Every request is answered, also one that is refused because its books were closed
\* under it: none waits for a lock or loops forever.  A refund may, if others whose
\* books are closed overtake it again and again.
EveryRequestAnswered ==
  \A h \in Handlers : (h \in Busy) ~> (h \notin Busy \/ MayBeOvertaken(h))

\* Every transfer SePay delivered ends up applied to an order or queued for review.
\* Only the closing of the period of its order's books may prevent that: the handler
\* looks at the period after it has inserted the transaction.
TransfersSettle ==
  \A t \in Transfers :
    LET at == transactions[t]
    IN  (at.state = "received") ~>
          \/ at.state \in {"matched", "late_payment", "closed_payment", "unmatched"}
          \/ at.o # Nowhere /\ ledger[at.o].closed

-----------------------------------------------------------------------------
(* What documents and comments of the repository say, and the code does    *)
(* not always do: each is the subject of a run that violates it.           *)

\* README.md:48: cancelling gives the stock back.
CancelledReleasesStock ==
  \A o \in Placed : orders[o].status = "cancelled" => o \notin ActiveReservations

\* docs/SEPAY_SETUP.md:46: a paid order cannot be cancelled directly.
PaidOrderNotCancelled ==
  \A o \in Placed : orders[o].reason = "by request" => NetReceived(o) = 0

\* docs/SEPAY_SETUP.md:44: partial transfers accumulate.
PartialTransfersAccumulate ==
  \A o \in Orders, a \in Attempts :
    ~ BeingMatched(o, a) => attempts[o][a].credited = Matched(o, a)

=============================================================================
