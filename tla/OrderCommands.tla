--------------------------- MODULE OrderCommands ---------------------------
(***************************************************************************)
(* The order commands (lib/commands-orders.ts): create, amend, advance,    *)
(* assign, and the stock edit of lib/commands-catalog.ts.                  *)
(***************************************************************************)
EXTENDS OrderTables

FirstAttempt(method, qty) ==
  [NoAttempt EXCEPT !.provider = IF method = "bank_transfer" THEN "sepay" ELSE "cash",
                    !.expected = qty, !.status = "pending"]

NewOrder(r, now) ==
  [status |-> "new",
   kitchen |-> CASE r.later -> "scheduled"
                 [] ~ r.later /\ r.method = "bank_transfer" -> "payment-pending"
                 [] OTHER -> "queued",
   delivery |-> IF r.ftype = "delivery" THEN "unassigned" ELSE "not-required",
   method |-> r.method, ftype |-> r.ftype, pay |-> "pending", total |-> r.qty,
   shipper |-> NoShipper, reason |-> "", updatedAt |-> now]

-----------------------------------------------------------------------------
(* order.create                                                            *)

CreateRead(h) ==
  /\ stock.available
  /\ \E o \in Orders, qty \in 1 .. MaxQty, method \in OfferedMethods,
       ftype \in OfferedTypes, later \in Scheduling :
       /\ orders[o].status = "none"
       /\ \A g \in Busy : req[g].at = "create.commit" => req[g].o # o
       /\ stock.onHand - stock.reserved >= qty
       /\ Begin(h, "create", [at |-> "create.commit", o |-> o, qty |-> qty,
                              method |-> method, ftype |-> ftype, later |-> later])
  /\ UNCHANGED <<orders, payment, stockRows, activeOrders, books, staff>>

\* reserved = reserved + ? WHERE track_stock = 1 AND status = 'available'
ReservedBy(qty) == IF stock.available THEN stock.reserved + qty ELSE stock.reserved

NewLedger == [revenue |-> "pending", commission |-> "pending", closed |-> FALSE]

CreateCommit(h) ==
  LET r == req[h]
  IN  /\ r.at = "create.commit"
      /\ StockValid(stock.onHand, ReservedBy(r.qty))
      /\ stock' = [stock EXCEPT !.reserved = ReservedBy(r.qty)]
      /\ reservations' =
           [reservations EXCEPT ![r.o] = [quantity |-> r.qty, status |-> "active"]]
      /\ \E now \in FreshStamps : orders' = [orders EXCEPT ![r.o] = NewOrder(r, now)]
      /\ attempts' = [attempts EXCEPT ![r.o][1] = FirstAttempt(r.method, r.qty)]
      /\ allocation' = [allocation EXCEPT ![r.o] = "pending"]
      /\ ledger' = [ledger EXCEPT ![r.o] = NewLedger]
      /\ activeOrders' = activeOrders + 1
      /\ End(h)
      /\ UNCHANGED <<transactions, refunds, cashSales, staff>>

\* "insufficient_product_stock": the CHECK rolled the batch back
CreateRejected(h) ==
  /\ req[h].at = "create.commit"
  /\ ~ StockValid(stock.onHand, ReservedBy(req[h].qty))
  /\ End(h)
  /\ UNCHANGED <<orders, payment, stockRows, activeOrders, books, staff>>

-----------------------------------------------------------------------------
(* order.amend                                                             *)

Amendable == {"new", "accepted"}

\* Attempts the order has no row for: an amendment may add one (a bound).
UnusedAttempts(o) == {a \in Attempts : ~ Exists(o, a)}

NeedsSupplement(row, qty) == row.method = "bank_transfer" /\ qty > row.total

\* The order and its items are read at the same time over two connections: the
\* items, held, may be those of before an amendment that the order row has seen.
\* (Items read after the order are newer only if the batch is to lose anyway.)
AmendItems(h) ==
  /\ \E o \in Orders :
       /\ orders[o].status \in Amendable
       /\ Begin(h, "amend", [at |-> "amend.read", o |-> o, held |-> orders[o].total])
  /\ UNCHANGED <<orders, payment, stockRows, activeOrders, books, staff>>

AmendRead(h) ==
  LET o == req[h].o
      held == req[h].held
  IN  /\ req[h].at = "amend.read"
      /\ orders[o].status \in Amendable
      /\ \E qty \in 1 .. MaxQty :
           /\ qty > held => stock.onHand - stock.reserved >= qty - held
           /\ NeedsSupplement(orders[o], qty) => UnusedAttempts(o) # {}
           /\ req' = [req EXCEPT ![h] =
                [at |-> "amend.commit", o |-> o, qty |-> qty, delta |-> qty - held,
                 due |-> IF NeedsSupplement(orders[o], qty) THEN qty - orders[o].total ELSE 0,
                 seen |-> orders[o].updatedAt]]
      /\ UNCHANGED <<orders, payment, stockRows, activeOrders, books, staff>>

\* "order_not_amendable", or no stock for the amended quantity
AmendRefused(h) ==
  /\ req[h].at = "amend.read"
  /\ \/ orders[req[h].o].status \notin Amendable
     \/ stock.onHand - stock.reserved < MaxQty - req[h].held
  /\ End(h)
  /\ UNCHANGED <<orders, payment, stockRows, activeOrders, books, staff>>

\* WHERE order_status IN ('new', 'accepted') AND updated_at = ?
AmendWins(r) == orders[r.o].status \in Amendable /\ orders[r.o].updatedAt = r.seen

RestockPossible(r) == StockValid(stock.onHand, stock.reserved + r.delta)

\* The first attempt the order has no row for.
Following(o, a) == ~ Exists(o, a) /\ a > 1 /\ Exists(o, a - 1)

AmendedAttempts(r) ==
  [a \in Attempts |->
     CASE r.due > 0 /\ Following(r.o, a) -> FirstAttempt("bank_transfer", r.due)
       [] attempts[r.o][a].provider = "cash" /\ attempts[r.o][a].status = "pending" ->
            [attempts[r.o][a] EXCEPT !.expected = r.qty]
       [] OTHER -> attempts[r.o][a]]

Restock(r) ==
  IF r.delta # 0
  THEN /\ RestockPossible(r)
       /\ stock' = [stock EXCEPT !.reserved = @ + r.delta]
       /\ reservations' =
            [reservations EXCEPT ![r.o] = [quantity |-> r.qty, status |-> "active"]]
  ELSE UNCHANGED stockRows

\* The amounts of the ledger rows are written too: not into a closed period.
AmendCommit(h) ==
  LET r == req[h]
  IN  /\ r.at = "amend.commit"
      /\ AmendWins(r) /\ ~ ledger[r.o].closed
      /\ \E now \in FreshStamps :
           orders' = [orders EXCEPT ![r.o].total = r.qty, ![r.o].updatedAt = now]
      /\ attempts' = [attempts EXCEPT ![r.o] = AmendedAttempts(r)]
      /\ Restock(r)
      /\ End(h)
      /\ UNCHANGED <<transactions, refunds, activeOrders, books, staff>>

\* "order_amendment_conflict", or the CHECK rolled the batch back
AmendRejected(h) ==
  LET r == req[h]
  IN  /\ r.at = "amend.commit"
      /\ \/ ~ AmendWins(r)
         \/ r.delta # 0 /\ ~ RestockPossible(r)
      /\ End(h)
      /\ UNCHANGED <<orders, payment, stockRows, activeOrders, books, staff>>

-----------------------------------------------------------------------------
(* order.advance                                                           *)

\* A counter order that is ready has no shipper to be assigned to.
NextStatus(row, requested) ==
  IF row.ftype \in CounterTypes /\ row.status = "ready" /\ requested = "assigned"
  THEN "delivered" ELSE requested

InScope(role, row) ==
  /\ row.status \in VisibleStatuses(role)
  /\ role = "shipper" => row.shipper # NoShipper

\* Mutation: an order that is partly paid, or whose payment expired, passes.
PaymentGate_Pending(row, to) ==
  row.method = "bank_transfer" /\ row.pay = "pending" => to = "cancelled"

\* "payment_required": a bank order that is not paid can only be cancelled
PaymentGate(row, to) ==
  row.method = "bank_transfer" /\ row.pay # "paid" => to = "cancelled"

NothingReceived(o) == Received(attempts[o][Latest(o)]) = 0

MayAdvance(role, o, to) ==
  /\ orders[o].status \notin ClosedStatuses \cup {"none"}
  /\ InScope(role, orders[o])
  /\ PaymentGate(orders[o], to)
  /\ to = "cancelled" => NothingReceived(o)
  /\ to = "delivered" => ~ ledger[o].closed
  /\ assertOrderTransition(role, orders[o].status, to, orders[o].ftype, orders[o].pay)

CashCollected(row, to) == to = "delivered" /\ row.method = "cash"

\* The order and, for a cancellation, its latest attempt are read one after the
\* other; here the two reads are one step.
AdvanceRead(h) ==
  /\ \E o \in Orders, requested \in OrderStatuses :
       LET row == orders[o]
           to == NextStatus(row, requested)
       IN  /\ \E role \in AdvanceRoles : MayAdvance(role, o, to)
           /\ Begin(h, "advance",
                [at |-> "advance.commit", o |-> o, from |-> row.status,
                 to |-> to, kitchen |-> kitchenForOrder(to, row.kitchen),
                 delivery |-> deliveryForOrder(to, row.delivery, row.ftype),
                 cash |-> CashCollected(row, to), total |-> row.total,
                 shipper |-> row.shipper])
  /\ UNCHANGED <<orders, payment, stockRows, activeOrders, books, staff>>

\* Mutation: WHERE id = ?
AdvanceWins_Always(r) == TRUE

\* WHERE id = ? AND order_status = ?
AdvanceWins(r) == orders[r.o].status = r.from

AdvancedOrder(r, now) ==
  [orders[r.o] EXCEPT
     !.status = r.to, !.kitchen = r.kitchen, !.delivery = r.delivery,
     !.pay = CASE r.to = "cancelled" -> "cancelled"
               [] r.cash -> "paid"
               [] OTHER -> @,
     !.reason = IF r.to = "cancelled" THEN "by request" ELSE @,
     !.updatedAt = now]

\* Neither statement asks whether the transition took place.
AdvancedAttempt(r, att) ==
  CASE r.cash /\ att.provider = "cash" /\ att.status = "pending" ->
         [att EXCEPT !.collected = TRUE, !.status = "paid", !.paidAt = TRUE]
    [] r.to = "cancelled" /\ att.status \in {"pending", "expired"} ->
         [att EXCEPT !.status = "failed"]
    [] OTHER -> att

\* Mutation: the reservation is not marked consumed.
ConsumeStock_KeepRow(o, applies) ==
  LET live == applies /\ reservations[o].status = "active"
      q == reservations[o].quantity
  IN  /\ stock' = IF live THEN [stock EXCEPT !.onHand = Floor0(@ - q),
                                             !.reserved = Floor0(@ - q)]
                  ELSE stock
      /\ UNCHANGED reservations

ConsumeStock(o, applies) ==
  LET live == applies /\ reservations[o].status = "active"
      q == reservations[o].quantity
  IN  /\ stock' = IF live THEN [stock EXCEPT !.onHand = Floor0(@ - q),
                                             !.reserved = Floor0(@ - q)]
                  ELSE stock
      /\ reservations' = IF live THEN [reservations EXCEPT ![o].status = "consumed"]
                         ELSE reservations

AdvanceBooks(r, won) ==
  CASE r.to = "cancelled" -> VoidRevenue(r.o, won) /\ ReleaseStock(r.o, won)
    [] r.to = "delivered" -> PostRevenue(r.o, "earned", won) /\ ConsumeStock(r.o, won)
    [] OTHER -> UNCHANGED <<allocation, ledger, stockRows>>

\* The batch writes a ledger row of the order.
AdvancePosts(r) ==
  /\ AdvanceWins(r)
  /\ r.to = "cancelled" \/ (r.to = "delivered" /\ Unposted(r.o))

\* Mutation: the sale does not ask whether the transition took place.
RecordSale_Always(r, won) ==
  cashSales' = IF r.cash /\ cashSales[r.o] = 0
               THEN [cashSales EXCEPT ![r.o] = r.total] ELSE cashSales

\* INSERT OR IGNORE of the one sale movement of the order
RecordSale(r, won) ==
  cashSales' = IF r.cash /\ won /\ cashSales[r.o] = 0
               THEN [cashSales EXCEPT ![r.o] = r.total] ELSE cashSales

\* Mutation: a transition that lost frees the shipper too.
FreeShipper_Always(r, won) ==
  staff' = IF r.to \in ClosedStatuses /\ r.shipper # NoShipper
           THEN [staff EXCEPT ![r.shipper] = "available"] ELSE staff

FreeShipper(r, won) ==
  staff' = IF r.to \in ClosedStatuses /\ r.shipper # NoShipper /\ won
           THEN [staff EXCEPT ![r.shipper] = "available"] ELSE staff

AdvanceCommit(h) ==
  LET r == req[h]
  IN  /\ r.at = "advance.commit"
      /\ \E now \in FreshStamps :
           orders' = IF AdvanceWins(r) THEN [orders EXCEPT ![r.o] = AdvancedOrder(r, now)]
                     ELSE orders
      /\ attempts' = [attempts EXCEPT ![r.o] =
                        [a \in Attempts |-> AdvancedAttempt(r, attempts[r.o][a])]]
      /\ RecordSale(r, AdvanceWins(r))
      /\ LeaveActive(AdvanceWins(r) /\ r.to \in {"delivered", "cancelled"})
      /\ AdvanceBooks(r, AdvanceWins(r))
      /\ FreeShipper(r, AdvanceWins(r))
      /\ End(h)
      /\ UNCHANGED <<transactions, refunds>>

-----------------------------------------------------------------------------
(* order.assign                                                            *)

AssignRead(h) ==
  /\ \E o \in Orders, s \in Shippers :
       /\ orders[o].status = "ready" /\ orders[o].ftype = "delivery"
       /\ staff[s] = "available"
       /\ Begin(h, "assign", [at |-> "assign.update", o |-> o, s |-> s])
  /\ UNCHANGED <<orders, payment, stockRows, activeOrders, books, staff>>

\* The UPDATE of the order takes its snapshot: the EXISTS on the shipper's row is
\* decided here, and is not decided again when the order's row lock is granted.
AssignUpdate(h) ==
  /\ req[h].at = "assign.update"
  /\ IF staff[req[h].s] = "available" THEN Goto(h, "assign.commit") ELSE End(h)
  /\ UNCHANGED <<orders, payment, stockRows, activeOrders, books, staff>>

AssignCommit(h) ==
  LET r == req[h]
      won == orders[r.o].status = "ready"
  IN  /\ r.at = "assign.commit"
      /\ \E now \in FreshStamps :
           orders' = IF won
                     THEN [orders EXCEPT ![r.o].shipper = r.s, ![r.o].status = "assigned",
                                         ![r.o].delivery = "assigned", ![r.o].updatedAt = now]
                     ELSE orders
      /\ staff' = IF won THEN [staff EXCEPT ![r.s] = "busy"] ELSE staff
      /\ End(h)
      /\ UNCHANGED <<payment, stockRows, activeOrders, books>>

-----------------------------------------------------------------------------
(* catalog.site-stock.upsert overwrites the whole stock row.               *)

UpsertStock ==
  /\ "stock" \in Kinds
  /\ \E onHand \in 0 .. OnHand :
       \E reserved \in 0 .. onHand, available \in BOOLEAN :
         stock' = [onHand |-> onHand, reserved |-> reserved, available |-> available]
  /\ UNCHANGED <<orders, payment, reservations, activeOrders, books, staff, req>>
=============================================================================
