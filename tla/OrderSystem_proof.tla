------------------------- MODULE OrderSystem_proof --------------------------
(***************************************************************************)
(* Of OrderSystem, for any number of orders, attempts, transfers and       *)
(* requests: first its types, then that no bank order is made or called    *)
(* paid before it is funded, then that no transfer is counted twice.       *)
(***************************************************************************)
EXTENDS OrderSystem, TLAPS

-----------------------------------------------------------------------------
(* Types                                                                   *)

\* A request that is about to execute a statement holds the data of that statement.
LEMMA RequestShape ==
  ASSUME NEW r \in Request
  PROVE  /\ r.at = "create.commit" => r \in CreateRequest
         /\ r.at = "amend.read" => r \in AmendItemsRequest
         /\ r.at = "amend.commit" => r \in AmendRequest
         /\ r.at = "advance.commit" => r \in AdvanceRequest
         /\ r.at \in {"assign.update", "assign.commit"} => r \in AssignRequest
         /\ r.at \in {"refund.insert", "refund.commit"} => r \in RefundRequest
         /\ r.at \in {"webhook.lookup", "webhook.reread"} => r \in WebhookRequest
         /\ r.at = "webhook.match" => r \in CheckRequest
         /\ r.at = "webhook.commit" => r \in MatchRequest
         /\ r.at = "webhook.flag" => r \in FlagRequest
         /\ r.at = "sweep.expire" => r \in SweepRequest
  BY DEF Request, Idle, CreateRequest, AmendItemsRequest, AmendRequest, AdvanceRequest,
         AssignRequest, RefundRequest, WebhookRequest, CheckRequest, MatchRequest,
         FlagRequest, SweepRequest

\* A request starts, goes on with other data, and ends.
LEMMA RequestTypes ==
  ASSUME TypeOK, NEW h \in Handlers, NEW r \in Request, NEW kind
  PROVE  /\ Begin(h, kind, r) => req' \in [Handlers -> Request]
         /\ req' = [req EXCEPT ![h] = r] => req' \in [Handlers -> Request]
         /\ End(h) => req' \in [Handlers -> Request]
  BY DEF TypeOK, Begin, End, Request

LEMMA EndTypes ==
  ASSUME TypeOK, NEW h \in Handlers, End(h)
  PROVE  req' \in [Handlers -> Request]
  BY RequestTypes DEF TypeOK

LEMMA FreshTypes ==
  ASSUME NEW now \in FreshStamps
  PROVE  now \in Stamps
  BY DEF FreshStamps

-----------------------------------------------------------------------------
(* The fragments of the batches keep the types of the tables they write.   *)

LEMMA FloorTypes == \A n \in Int : Floor0(n) \in Nat
  BY DEF Floor0

LEMMA ActiveTypes ==
  ASSUME TypeOK, NEW closed \in BOOLEAN, LeaveActive(closed)
  PROVE  activeOrders' \in Nat
  BY FloorTypes DEF TypeOK, LeaveActive

LEMMA VoidTypes ==
  ASSUME TypeOK, NEW o \in Orders, NEW applies \in BOOLEAN, VoidRevenue(o, applies)
  PROVE  allocation' \in [Orders -> BookStatuses] /\ ledger' \in [Orders -> LedgerRow]
  BY DEF TypeOK, VoidRevenue, Voided, BookStatuses, LedgerRow

LEMMA PostTypes ==
  ASSUME TypeOK, NEW o \in Orders, NEW applies \in BOOLEAN,
         NEW c \in {"pending", "earned"}, PostRevenue(o, c, applies)
  PROVE  allocation' \in [Orders -> BookStatuses] /\ ledger' \in [Orders -> LedgerRow]
<1> DEFINE row == [ledger[o] EXCEPT !.revenue = IF @ = "pending" THEN "posted" ELSE @,
                                    !.commission = IF @ = "pending" THEN c ELSE @]
<1>1. ledger \in [Orders -> LedgerRow] /\ ledger[o] \in LedgerRow
  BY DEF TypeOK
<1>2. row \in LedgerRow
  BY <1>1 DEF LedgerRow
<1>3. ledger' = IF applies THEN [ledger EXCEPT ![o] = row] ELSE ledger
  BY <1>1 DEF PostRevenue
<1>4. allocation' \in [Orders -> BookStatuses]
  BY DEF TypeOK, PostRevenue, BookStatuses
<1> QED
  BY <1>1, <1>2, <1>3, <1>4

LEMMA StockTypes ==
  ASSUME TypeOK, NEW o \in Orders, NEW applies \in BOOLEAN,
         ReleaseStock(o, applies) \/ ConsumeStock(o, applies)
  PROVE  stock' \in StockRow /\ reservations' \in [Orders -> ReservationRow]
<1>1. /\ stock \in StockRow /\ stock.reserved \in Nat /\ stock.onHand \in Nat
      /\ reservations[o].quantity \in Nat
  BY DEF TypeOK, StockRow, ReservationRow, Amounts
<1>2. /\ Floor0(stock.reserved - reservations[o].quantity) \in Nat
      /\ Floor0(stock.onHand - reservations[o].quantity) \in Nat
  BY <1>1, FloorTypes
<1>3. stock' \in StockRow
  BY <1>1, <1>2 DEF ReleaseStock, ConsumeStock, StockRow
<1>4. reservations' \in [Orders -> ReservationRow]
  BY DEF TypeOK, ReleaseStock, ConsumeStock, ReservationRow
<1> QED
  BY <1>3, <1>4

-----------------------------------------------------------------------------
(* The actions keep the types.                                             *)

LEMMA CreateReadTypes ==
  ASSUME TypeOK, NEW h \in Handlers, CreateRead(h)
  PROVE  TypeOK'
  BY TablesAssumption DEF TypeOK, CreateRead, Begin, Request, CreateRequest, payment, stockRows, books, Amounts

LEMMA CreateCommitTypes ==
  ASSUME TypeOK, NEW h \in Handlers, CreateCommit(h)
  PROVE  TypeOK'
<1> DEFINE r == req[h]
<1>1. r \in CreateRequest
  BY RequestShape DEF TypeOK, CreateCommit
<1>2. orders' \in [Orders -> OrderRow]
  <2>1. PICK now \in FreshStamps : orders' = [orders EXCEPT ![r.o] = NewOrder(r, now)]
    BY DEF CreateCommit
  <2>2. NewOrder(r, now) \in OrderRow
    BY <1>1, FreshTypes DEF CreateRequest, NewOrder, OrderRow, KitchenStatuses,
       DeliveryStatuses, OrderStatuses, PaymentStatuses
  <2> QED
    BY <2>1, <2>2 DEF TypeOK
<1>3. attempts' \in [Orders -> [Attempts -> AttemptRow]]
  BY <1>1 DEF TypeOK, CreateCommit, CreateRequest, FirstAttempt, NoAttempt, AttemptRow
<1>4. stock' \in StockRow
  <2>1. /\ stock \in StockRow /\ StockValid(stock.onHand, ReservedBy(r.qty))
        /\ stock' = [stock EXCEPT !.reserved = ReservedBy(r.qty)]
    BY DEF TypeOK, CreateCommit
  <2>2. stock.reserved \in Nat /\ r.qty \in Nat
    BY <1>1, <2>1 DEF CreateRequest, Amounts, StockRow
  <2>3. ReservedBy(r.qty) \in Nat
    BY <2>2 DEF ReservedBy
  <2> QED
    BY <2>1, <2>3 DEF StockRow
<1>5. reservations' \in [Orders -> ReservationRow]
  BY <1>1 DEF TypeOK, CreateCommit, CreateRequest, ReservationRow
<1>6. allocation' \in [Orders -> BookStatuses] /\ ledger' \in [Orders -> LedgerRow]
  BY <1>1 DEF TypeOK, CreateCommit, CreateRequest, NewLedger, LedgerRow, BookStatuses
<1> QED
  BY <1>2, <1>3, <1>4, <1>5, <1>6, EndTypes DEF TypeOK, CreateCommit

LEMMA CreateRejectedTypes ==
  ASSUME TypeOK, NEW h \in Handlers, CreateRejected(h)
  PROVE  TypeOK'
  BY EndTypes DEF TypeOK, CreateRejected, payment, stockRows, books

LEMMA AmendItemsTypes ==
  ASSUME TypeOK, NEW h \in Handlers, AmendItems(h)
  PROVE  TypeOK'
<1>1. PICK o \in Orders :
        Begin(h, "amend", [at |-> "amend.read", o |-> o, held |-> orders[o].total])
  BY DEF AmendItems
<1>2. [at |-> "amend.read", o |-> o, held |-> orders[o].total] \in Request
  BY DEF TypeOK, Request, AmendItemsRequest, OrderRow
<1>3. req' \in [Handlers -> Request]
  BY <1>1, <1>2, RequestTypes
<1> QED
  BY <1>3 DEF TypeOK, AmendItems, payment, stockRows, books

LEMMA AmendReadTypes ==
  ASSUME TypeOK, NEW h \in Handlers, AmendRead(h)
  PROVE  TypeOK'
<1> DEFINE o == req[h].o
           due(q) == IF NeedsSupplement(orders[o], q) THEN q - orders[o].total ELSE 0
           r(q) == [at |-> "amend.commit", o |-> o, qty |-> q, delta |-> q - req[h].held,
                    due |-> due(q), seen |-> orders[o].updatedAt]
<1>1. o \in Orders /\ req[h].held \in Amounts
  BY RequestShape DEF TypeOK, AmendRead, AmendItemsRequest
<1>2. PICK q \in 1 .. MaxQty : req' = [req EXCEPT ![h] = r(q)]
  BY DEF AmendRead
<1>3. orders[o].total \in Amounts /\ orders[o].updatedAt \in Stamps
  BY <1>1 DEF TypeOK, OrderRow
<1>4. due(q) \in Amounts /\ q \in Amounts /\ q - req[h].held \in Int
  BY <1>1, <1>3, TablesAssumption DEF NeedsSupplement, Amounts
<1>5. r(q) \in AmendRequest
  BY <1>1, <1>3, <1>4 DEF AmendRequest
<1>6. req' \in [Handlers -> Request]
  BY <1>2, <1>5, RequestTypes DEF Request
<1> QED
  BY <1>6 DEF TypeOK, AmendRead, payment, stockRows, books

LEMMA AmendCommitTypes ==
  ASSUME TypeOK, NEW h \in Handlers, AmendCommit(h)
  PROVE  TypeOK'
<1> DEFINE r == req[h]
<1>1. r \in AmendRequest
  BY RequestShape DEF TypeOK, AmendCommit
<1>2. r.o \in Orders /\ r.qty \in Amounts /\ r.delta \in Int /\ r.due \in Amounts
  BY <1>1 DEF AmendRequest
<1>3. orders' \in [Orders -> OrderRow]
  <2>1. PICK now \in FreshStamps :
          orders' = [orders EXCEPT ![r.o].total = r.qty, ![r.o].updatedAt = now]
    BY DEF AmendCommit
  <2>2. [orders[r.o] EXCEPT !.total = r.qty, !.updatedAt = now] \in OrderRow
    <3>1. orders[r.o] \in OrderRow /\ now \in Stamps
      BY <1>2, FreshTypes DEF TypeOK
    <3> QED
      BY <1>2, <3>1 DEF OrderRow
  <2>3. orders' = [orders EXCEPT ![r.o] = [orders[r.o] EXCEPT !.total = r.qty,
                                                              !.updatedAt = now]]
    BY <2>1, <1>2 DEF TypeOK
  <2> QED
    BY <2>2, <2>3, <1>2 DEF TypeOK
<1>4. attempts' \in [Orders -> [Attempts -> AttemptRow]]
  <2>1. ASSUME NEW a \in Attempts PROVE AmendedAttempts(r)[a] \in AttemptRow
    <3>1. attempts[r.o][a] \in AttemptRow
      BY <1>2 DEF TypeOK
    <3>2. /\ FirstAttempt("bank_transfer", r.due) \in AttemptRow
          /\ [attempts[r.o][a] EXCEPT !.expected = r.qty] \in AttemptRow
      BY <3>1, <1>2 DEF FirstAttempt, NoAttempt, AttemptRow
    <3> QED
      BY <3>1, <3>2 DEF AmendedAttempts
  <2>2. AmendedAttempts(r) \in [Attempts -> AttemptRow]
    BY <2>1 DEF AmendedAttempts
  <2> QED
    BY <1>2, <2>2 DEF TypeOK, AmendCommit
<1>5. stock' \in StockRow /\ reservations' \in [Orders -> ReservationRow]
  <2>1. stock \in StockRow /\ stock.onHand \in Nat /\ stock.reserved \in Nat
    BY DEF TypeOK, StockRow
  <2>2. CASE r.delta # 0
    <3>1. stock.reserved + r.delta \in Nat /\ stock' = [stock EXCEPT !.reserved = @ + r.delta]
      BY <1>2, <2>1, <2>2 DEF AmendCommit, Restock, RestockPossible, StockValid
    <3>2. reservations' = [reservations EXCEPT ![r.o] =
                             [quantity |-> r.qty, status |-> "active"]]
      BY <2>2 DEF AmendCommit, Restock
    <3> QED
      BY <1>2, <2>1, <3>1, <3>2 DEF TypeOK, StockRow, ReservationRow
  <2>3. CASE r.delta = 0
    BY <2>3 DEF TypeOK, AmendCommit, Restock, stockRows
  <2> QED
    BY <2>2, <2>3
<1> QED
  BY <1>3, <1>4, <1>5, EndTypes DEF TypeOK, AmendCommit, books

LEMMA AmendRefusedTypes ==
  ASSUME TypeOK, NEW h \in Handlers, AmendRefused(h) \/ AmendRejected(h)
  PROVE  TypeOK'
  BY EndTypes DEF TypeOK, AmendRefused, AmendRejected, payment, stockRows, books

LEMMA AdvanceReadTypes ==
  ASSUME TypeOK, NEW h \in Handlers, AdvanceRead(h)
  PROVE  TypeOK'
<1> DEFINE r(o, to) ==
      [at |-> "advance.commit", o |-> o, from |-> orders[o].status,
       to |-> to, kitchen |-> kitchenForOrder(to, orders[o].kitchen),
       delivery |-> deliveryForOrder(to, orders[o].delivery, orders[o].ftype),
       cash |-> CashCollected(orders[o], to), total |-> orders[o].total,
       shipper |-> orders[o].shipper]
<1>1. PICK o \in Orders, requested \in OrderStatuses :
        /\ orders[o].status \notin ClosedStatuses \cup {"none"}
        /\ Begin(h, "advance", r(o, NextStatus(orders[o], requested)))
  BY DEF AdvanceRead, MayAdvance
<1> DEFINE to == NextStatus(orders[o], requested)
<1>2. to \in OrderStatuses
  BY DEF NextStatus, OrderStatuses
<1>3. orders[o] \in OrderRow
  BY DEF TypeOK
<1>4. /\ kitchenForOrder(to, orders[o].kitchen) \in KitchenStatuses
      /\ deliveryForOrder(to, orders[o].delivery, orders[o].ftype) \in DeliveryStatuses
      /\ CashCollected(orders[o], to) \in BOOLEAN
      /\ orders[o].status \in OrderStatuses
  BY <1>1, <1>3 DEF kitchenForOrder, deliveryForOrder, CashCollected, OrderRow,
     KitchenStatuses, DeliveryStatuses
<1>5. r(o, to) \in AdvanceRequest
  BY <1>2, <1>3, <1>4 DEF AdvanceRequest, OrderRow
<1>6. req' \in [Handlers -> Request]
  BY <1>1, <1>5, RequestTypes DEF Request
<1> QED
  BY <1>6 DEF TypeOK, AdvanceRead, payment, stockRows, books

LEMMA AdvanceCommitTypes ==
  ASSUME TypeOK, NEW h \in Handlers, AdvanceCommit(h)
  PROVE  TypeOK'
<1> DEFINE r == req[h]
<1>1. r \in AdvanceRequest
  BY RequestShape DEF TypeOK, AdvanceCommit
<1>2. r.o \in Orders /\ r.total \in Amounts /\ r.cash \in BOOLEAN
  BY <1>1 DEF AdvanceRequest
<1>3. orders' \in [Orders -> OrderRow]
  <2>1. PICK now \in FreshStamps :
          orders' = IF AdvanceWins(r) THEN [orders EXCEPT ![r.o] = AdvancedOrder(r, now)]
                    ELSE orders
    BY DEF AdvanceCommit
  <2>2. AdvancedOrder(r, now) \in OrderRow
    <3>1. orders[r.o] \in OrderRow /\ now \in Stamps
      BY <1>2, FreshTypes DEF TypeOK
    <3> QED
      BY <1>1, <3>1 DEF AdvancedOrder, AdvanceRequest, OrderRow, PaymentStatuses
  <2> QED
    BY <2>1, <2>2 DEF TypeOK
<1>4. attempts' \in [Orders -> [Attempts -> AttemptRow]]
  <2>1. ASSUME NEW a \in Attempts PROVE AdvancedAttempt(r, attempts[r.o][a]) \in AttemptRow
    <3>1. attempts[r.o][a] \in AttemptRow
      BY <1>2 DEF TypeOK
    <3> QED
      BY <3>1 DEF AdvancedAttempt, AttemptRow
  <2> QED
    BY <2>1 DEF TypeOK, AdvanceCommit
<1>5. /\ allocation' \in [Orders -> BookStatuses] /\ ledger' \in [Orders -> LedgerRow]
      /\ stock' \in StockRow /\ reservations' \in [Orders -> ReservationRow]
  <2>1. AdvanceBooks(r, AdvanceWins(r)) /\ AdvanceWins(r) \in BOOLEAN
    BY DEF AdvanceCommit, AdvanceWins
  <2>2. CASE r.to = "cancelled"
    BY <1>2, <2>1, <2>2, VoidTypes, StockTypes DEF AdvanceBooks
  <2>3. CASE r.to = "delivered"
    BY <1>2, <2>1, <2>3, PostTypes, StockTypes DEF AdvanceBooks
  <2>4. CASE r.to \notin {"cancelled", "delivered"}
    BY <2>1, <2>4 DEF AdvanceBooks, TypeOK, stockRows
  <2> QED
    BY <2>2, <2>3, <2>4
<1>6. activeOrders' \in Nat
  BY ActiveTypes DEF AdvanceCommit, AdvanceWins
<1>7. cashSales' \in [Orders -> Amounts]
  BY <1>2 DEF TypeOK, AdvanceCommit, RecordSale
<1>8. staff' \in [Shippers -> {"available", "busy"}]
  BY DEF TypeOK, AdvanceCommit, FreeShipper
<1> QED
  BY <1>3, <1>4, <1>5, <1>6, <1>7, <1>8, EndTypes DEF TypeOK, AdvanceCommit

LEMMA AssignReadTypes ==
  ASSUME TypeOK, NEW h \in Handlers, AssignRead(h)
  PROVE  TypeOK'
<1>1. PICK o \in Orders, s \in Shippers :
        Begin(h, "assign", [at |-> "assign.update", o |-> o, s |-> s])
  BY DEF AssignRead
<1>2. [at |-> "assign.update", o |-> o, s |-> s] \in Request
  BY DEF Request, AssignRequest
<1>3. req' \in [Handlers -> Request]
  BY <1>1, <1>2, RequestTypes
<1> QED
  BY <1>3 DEF TypeOK, AssignRead, payment, stockRows, books

LEMMA AssignUpdateTypes ==
  ASSUME TypeOK, NEW h \in Handlers, AssignUpdate(h)
  PROVE  TypeOK'
<1>1. req[h] \in AssignRequest
  BY RequestShape DEF TypeOK, AssignUpdate
<1>2. [req[h] EXCEPT !.at = "assign.commit"] \in Request
  BY <1>1 DEF AssignRequest, Request
<1>3. Goto(h, "assign.commit") => req' \in [Handlers -> Request]
  BY <1>2, RequestTypes DEF Goto, TypeOK
<1>4. req' \in [Handlers -> Request]
  BY <1>3, EndTypes DEF AssignUpdate
<1> QED
  BY <1>4 DEF TypeOK, AssignUpdate, payment, stockRows, books

LEMMA AssignCommitTypes ==
  ASSUME TypeOK, NEW h \in Handlers, AssignCommit(h)
  PROVE  TypeOK'
<1> DEFINE r == req[h]
<1>1. r.o \in Orders /\ r.s \in Shippers
  BY RequestShape DEF TypeOK, AssignCommit, AssignRequest
<1>2. orders' \in [Orders -> OrderRow]
  <2> DEFINE row(now) == [orders[r.o] EXCEPT !.shipper = r.s, !.status = "assigned",
                                             !.delivery = "assigned", !.updatedAt = now]
  <2>1. PICK now \in FreshStamps :
          orders' = IF orders[r.o].status = "ready"
                    THEN [orders EXCEPT ![r.o] = row(now)] ELSE orders
    BY <1>1 DEF TypeOK, AssignCommit
  <2>2. orders[r.o] \in OrderRow /\ now \in Stamps
    BY <1>1, FreshTypes DEF TypeOK
  <2>3. row(now) \in OrderRow
    BY <1>1, <2>2 DEF OrderRow, OrderStatuses, DeliveryStatuses
  <2> QED
    BY <1>1, <2>1, <2>3 DEF TypeOK
<1>3. staff' \in [Shippers -> {"available", "busy"}]
  BY DEF TypeOK, AssignCommit
<1> QED
  BY <1>2, <1>3, EndTypes DEF TypeOK, AssignCommit, payment, stockRows, books

LEMMA WorldTypes ==
  ASSUME TypeOK, World
  PROVE  TypeOK'
<1>1. CASE UpsertStock
  <2>1. stock' \in StockRow
    BY <1>1, TablesAssumption DEF UpsertStock, StockRow
  <2> QED
    BY <1>1, <2>1 DEF TypeOK, UpsertStock, payment, books
<1>2. ASSUME NEW o \in Orders, NEW a \in Attempts, Lapse(o, a) PROVE TypeOK'
  <2>1. attempts[o][a] \in AttemptRow
    BY DEF TypeOK
  <2>2. [attempts[o][a] EXCEPT !.lapsed = TRUE] \in AttemptRow
    BY <2>1 DEF AttemptRow
  <2>3. attempts' = [attempts EXCEPT ![o] =
                       [attempts[o] EXCEPT ![a] = [attempts[o][a] EXCEPT !.lapsed = TRUE]]]
    BY <1>2 DEF Lapse, TypeOK
  <2>4. attempts' \in [Orders -> [Attempts -> AttemptRow]]
    BY <2>2, <2>3 DEF TypeOK
  <2> QED
    BY <1>2, <2>4 DEF TypeOK, Lapse, stockRows, books
<1>3. ASSUME NEW t \in Transfers, SendTransfer(t) PROVE TypeOK'
  <2> DEFINE sent(o, a, n) == [state |-> "sent", o |-> o, a |-> a, amount |-> n,
                               afterExpiry |-> attempts[o][a].lapsed]
             stray(n) == [Unsent EXCEPT !.state = "sent", !.amount = n]
  <2>1. \A o \in Orders, a \in Attempts, n \in 1 .. MaxQty : sent(o, a, n) \in TransactionRow
    <3> SUFFICES ASSUME NEW o \in Orders, NEW a \in Attempts, NEW n \in 1 .. MaxQty
                 PROVE  sent(o, a, n) \in TransactionRow
      OBVIOUS
    <3>1. attempts[o][a].lapsed \in BOOLEAN /\ n \in Amounts
      BY TablesAssumption DEF TypeOK, AttemptRow, Amounts
    <3> QED
      BY <3>1 DEF TransactionRow
  <2>2. \A n \in 1 .. MaxQty : stray(n) \in TransactionRow
    <3> SUFFICES ASSUME NEW n \in 1 .. MaxQty PROVE stray(n) \in TransactionRow
      OBVIOUS
    <3>1. 0 \in Amounts /\ 1 \in Attempts /\ n \in Amounts
      BY TablesAssumption DEF Attempts, Amounts
    <3>2. Unsent \in TransactionRow
      BY <3>1 DEF Unsent, TransactionRow
    <3> QED
      BY <3>1, <3>2 DEF TransactionRow
  <2>3. PICK row \in TransactionRow : transactions' = [transactions EXCEPT ![t] = row]
    <3>1. \E n \in 1 .. MaxQty :
            \/ \E o \in Orders, a \in Attempts :
                 transactions' = [transactions EXCEPT ![t] = sent(o, a, n)]
            \/ transactions' = [transactions EXCEPT ![t] = stray(n)]
      BY <1>3 DEF SendTransfer
    <3> QED
      BY <2>1, <2>2, <3>1
  <2>4. transactions' \in [Transfers -> TransactionRow]
    BY <2>3 DEF TypeOK
  <2> QED
    BY <1>3, <2>4 DEF TypeOK, SendTransfer, stockRows, books
<1>4. CASE ClosePeriod
  <2>1. PICK os \in SUBSET Orders :
          ledger' = [o \in Orders |-> [ledger[o] EXCEPT !.closed = @ \/ o \in os]]
    BY <1>4 DEF ClosePeriod
  <2>2. ASSUME NEW o \in Orders
        PROVE  [ledger[o] EXCEPT !.closed = @ \/ o \in os] \in LedgerRow
    <3>1. ledger[o] \in LedgerRow /\ (ledger[o].closed \/ o \in os) \in BOOLEAN
      BY DEF TypeOK
    <3> QED
      BY <3>1 DEF LedgerRow
  <2>3. ledger' \in [Orders -> LedgerRow]
    BY <2>1, <2>2
  <2> QED
    BY <1>4, <2>3 DEF TypeOK, ClosePeriod, payment, stockRows
<1> QED
  BY <1>1, <1>2, <1>3, <1>4 DEF World

-----------------------------------------------------------------------------
(* Refunds                                                                 *)

LEMMA RefundReadTypes ==
  ASSUME TypeOK, NEW h \in Handlers, RefundRead(h)
  PROVE  TypeOK'
<1> DEFINE full(o, a, n) == n = Remaining(o, a)
           r(o, a, ref, n) ==
             [at |-> "refund.insert", o |-> o, a |-> a, ref |-> ref, amount |-> n,
              full |-> full(o, a, n), cancels |-> CancelsOrder(orders[o], full(o, a, n)),
              from |-> orders[o].status, seen |-> orders[o].updatedAt, prior |-> {}]
<1>1. PICK o \in Orders, a \in Attempts, ref \in References, n \in 1 .. MaxQty :
        orders[o].status # "none" /\ Begin(h, "refund", r(o, a, ref, n))
  BY DEF RefundRead
<1>2. n \in Nat /\ orders[o].updatedAt \in Stamps /\ orders[o].status \in OrderStatuses
  <2>1. orders[o] \in OrderRow
    BY DEF TypeOK
  <2>2. orders[o].updatedAt \in Stamps /\ orders[o].status \in OrderStatuses
    BY <1>1, <2>1 DEF OrderRow
  <2>3. n \in Nat
    BY TablesAssumption
  <2> QED
    BY <2>2, <2>3
<1>3. full(o, a, n) \in BOOLEAN /\ CancelsOrder(orders[o], full(o, a, n)) \in BOOLEAN
  BY DEF CancelsOrder
<1>4. r(o, a, ref, n) \in RefundRequest
  <2> HIDE DEF full
  <2> QED
    BY <1>2, <1>3 DEF RefundRequest
<1>5. req' \in [Handlers -> Request]
  BY <1>1, <1>4, RequestTypes DEF Request
<1> QED
  BY <1>5 DEF TypeOK, RefundRead, payment, stockRows, books

LEMMA RefundInsertTypes ==
  ASSUME TypeOK, NEW h \in Handlers, RefundInsert(h)
  PROVE  TypeOK'
<1> DEFINE r == req[h]
           s == [r EXCEPT !.at = "refund.commit", !.prior = RefundsOf(r.o, r.a)]
<1>1. r \in RefundRequest
  BY RequestShape DEF TypeOK, RefundInsert
<1>2. RefundsOf(r.o, r.a) \in SUBSET RefundRow
  BY DEF TypeOK, RefundsOf
<1>3. s \in Request
  BY <1>1, <1>2 DEF RefundRequest, Request
<1>4. CASE Insertable(r)
  <2>1. req' = [req EXCEPT ![h] = s]
    BY <1>4 DEF RefundInsert, TypeOK
  <2>2. req' \in [Handlers -> Request]
    BY <2>1, <1>3, RequestTypes
  <2> QED
    BY <2>2 DEF TypeOK, RefundInsert, payment, stockRows, books
<1>5. CASE ~ Insertable(r)
  BY <1>5, EndTypes DEF TypeOK, RefundInsert, payment, stockRows, books
<1> QED
  BY <1>4, <1>5

LEMMA CancelledTypes ==
  ASSUME NEW row \in OrderRow, NEW pay \in PaymentStatuses,
         NEW reason \in {"payment_expired", "by request"}, NEW now \in Stamps
  PROVE  Cancelled(row, pay, reason, now) \in OrderRow
  BY DEF Cancelled, OrderRow, OrderStatuses, KitchenStatuses, DeliveryStatuses

LEMMA RefundCommitTypes ==
  ASSUME TypeOK, NEW h \in Handlers, RefundCommit(h)
  PROVE  TypeOK'
<1> DEFINE r == req[h]
<1>1. r \in RefundRequest
  BY RequestShape DEF TypeOK, RefundCommit
<1>2. r.o \in Orders /\ r.a \in Attempts /\ r.cancels \in BOOLEAN
  BY <1>1 DEF RefundRequest
<1>3. attempts[r.o][r.a] \in AttemptRow
  BY <1>2 DEF TypeOK
<1>4. refunds' \subseteq RefundRow
  BY <1>1, <1>3 DEF TypeOK, RefundCommit, InsertedRow, Provider, RefundRequest,
     RefundRow, AttemptRow
<1>5. attempts' \in [Orders -> [Attempts -> AttemptRow]]
  <2>1. PICK known : attempts' = [attempts EXCEPT ![r.o][r.a] = RefundedAttempt(r, known)]
    BY DEF RefundCommit
  <2>2. RefundedAttempt(r, known) \in AttemptRow
    BY <1>3 DEF RefundedAttempt, AttemptRow
  <2> QED
    BY <1>2, <2>1, <2>2 DEF TypeOK
<1>6. orders' \in [Orders -> OrderRow]
  <2>1. PICK now \in FreshStamps :
          orders' = IF AsRead(r) THEN [orders EXCEPT ![r.o] = RefundedOrder(r, now)]
                    ELSE orders
    BY DEF RefundCommit
  <2>2. orders[r.o] \in OrderRow /\ now \in Stamps
    BY <1>2, FreshTypes DEF TypeOK
  <2>3. Cancelled(orders[r.o], "refunded", "by request", now) \in OrderRow
    BY <2>2, CancelledTypes DEF PaymentStatuses
  <2>4. RefundedOrder(r, now) \in OrderRow
    <3> DEFINE pay == IF r.full THEN "refunded" ELSE "partially_refunded"
    <3>1. [orders[r.o] EXCEPT !.pay = pay, !.updatedAt = now] \in OrderRow
      BY <2>2 DEF OrderRow, PaymentStatuses
    <3> QED
      BY <2>3, <3>1 DEF RefundedOrder
  <2> QED
    BY <2>1, <2>4 DEF TypeOK
<1>7. activeOrders' \in Nat
  BY <1>2, ActiveTypes DEF RefundCommit, AsRead
<1>8. /\ allocation' \in [Orders -> BookStatuses] /\ ledger' \in [Orders -> LedgerRow]
      /\ stock' \in StockRow /\ reservations' \in [Orders -> ReservationRow]
  BY <1>2, VoidTypes, StockTypes DEF RefundCommit
<1> QED
  BY <1>4, <1>5, <1>6, <1>7, <1>8, EndTypes DEF TypeOK, RefundCommit

-----------------------------------------------------------------------------
(* Bank payments                                                           *)

LEMMA TransactionTypes ==
  ASSUME TypeOK, NEW t,
         NEW s \in {"received", "matched", "late_payment", "closed_payment", "unmatched"},
         transactions' = [transactions EXCEPT ![t].state = s]
  PROVE  transactions' \in [Transfers -> TransactionRow]
  BY DEF TypeOK, TransactionRow

LEMMA WebhookReceiveTypes ==
  ASSUME TypeOK, NEW h \in Handlers, WebhookReceive(h)
  PROVE  TypeOK'
<1>1. PICK t \in Transfers :
        /\ transactions' = [transactions EXCEPT ![t].state = "received"]
        /\ Begin(h, "webhook", [at |-> "webhook.lookup", t |-> t])
  BY DEF WebhookReceive
<1>2. [at |-> "webhook.lookup", t |-> t] \in Request
  BY DEF Request, WebhookRequest
<1>3. req' \in [Handlers -> Request] /\ transactions' \in [Transfers -> TransactionRow]
  BY <1>1, <1>2, RequestTypes, TransactionTypes
<1> QED
  BY <1>3 DEF TypeOK, WebhookReceive, stockRows, books

LEMMA WebhookUnmatchedTypes ==
  ASSUME TypeOK, NEW h \in Handlers, WebhookUnmatched(h)
  PROVE  TypeOK'
<1>1. transactions' \in [Transfers -> TransactionRow]
  BY TransactionTypes DEF WebhookUnmatched
<1> QED
  BY <1>1, EndTypes DEF TypeOK, WebhookUnmatched, stockRows, books

LEMMA ReviewTypes ==
  ASSUME TypeOK, NEW h \in Handlers, req[h].t \in Transfers, NEW att,
         NEW verdict \in {"late_payment", "closed_payment"}, Review(h, att, verdict)
  PROVE  req' \in [Handlers -> Request]
<1> DEFINE open == att.status \in AwaitsMoney
           empty == Received(att) = 0
           flag == [at |-> "webhook.flag", t |-> req[h].t, verdict |-> verdict,
                    open |-> open, empty |-> empty]
<1>1. open \in BOOLEAN /\ empty \in BOOLEAN
  OBVIOUS
<1>2. flag \in FlagRequest
  <2> HIDE DEF open, empty
  <2> QED
    BY <1>1 DEF FlagRequest
<1>3. req' = [req EXCEPT ![h] = flag]
  BY DEF Review
<1> QED
  BY <1>2, <1>3, RequestTypes DEF Request

LEMMA WebhookLookupTypes ==
  ASSUME TypeOK, NEW h \in Handlers, WebhookLookup(h)
  PROVE  TypeOK'
<1>1. req[h].t \in Transfers
  BY RequestShape DEF TypeOK, WebhookLookup, WebhookRequest
<1>2. ASSUME NEW full \in BOOLEAN
      PROVE  [at |-> "webhook.match", t |-> req[h].t, full |-> full] \in Request
  BY <1>1 DEF Request, CheckRequest
<1>3. Completes(req[h].t, Target(req[h].t)) \in BOOLEAN
  BY DEF Completes
<1>4. req' \in [Handlers -> Request]
  BY <1>1, <1>2, <1>3, ReviewTypes, RequestTypes DEF WebhookLookup
<1> QED
  BY <1>4 DEF TypeOK, WebhookLookup, payment, stockRows, books

LEMMA WebhookMatchTypes ==
  ASSUME TypeOK, NEW h \in Handlers, WebhookMatch(h)
  PROVE  TypeOK'
<1> DEFINE t == req[h].t
           m == [at |-> "webhook.commit", t |-> t,
                 sum |-> Matched(transactions[t].o, transactions[t].a) \cup {t}]
<1>1. t \in Transfers
  BY RequestShape DEF TypeOK, WebhookMatch, CheckRequest
<1>2. m \in Request /\ [at |-> "webhook.reread", t |-> t] \in Request
  BY <1>1 DEF Matched, MatchRequest, WebhookRequest, Request
<1>3. req' \in [Handlers -> Request]
  BY <1>2, RequestTypes DEF WebhookMatch
<1> QED
  BY <1>3 DEF TypeOK, WebhookMatch, payment, stockRows, books

LEMMA WebhookCommitTypes ==
  ASSUME TypeOK, NEW h \in Handlers, WebhookCommit(h)
  PROVE  TypeOK'
<1> DEFINE r == req[h]
           o == transactions[r.t].o
           a == transactions[r.t].a
           att == Credit(attempts[o][a], r.sum)
<1>1. r \in MatchRequest
  BY RequestShape DEF TypeOK, WebhookCommit
<1>2. r.t \in Transfers /\ r.sum \subseteq Transfers
  BY <1>1 DEF MatchRequest
<1>3. a \in Attempts
  BY <1>2 DEF TypeOK, TransactionRow
<1>4. transactions' \in [Transfers -> TransactionRow]
  BY TransactionTypes DEF WebhookCommit
<1>5. attempts' \in [Orders -> [Attempts -> AttemptRow]]
  <2>1. CASE o \in Orders
    <3>1. attempts[o][a] \in AttemptRow
      BY <1>3, <2>1 DEF TypeOK
    <3>2. att \in AttemptRow
      BY <1>2, <3>1 DEF Credit, StatusFor, AttemptRow
    <3> QED
      BY <1>3, <2>1, <3>2 DEF TypeOK, WebhookCommit
  <2>2. CASE o \notin Orders
    BY <2>2 DEF TypeOK, WebhookCommit
  <2> QED
    BY <2>1, <2>2
<1>6. orders' \in [Orders -> OrderRow]
  <2>1. PICK now \in FreshStamps :
          orders' = [orders EXCEPT ![o] = PaidOrder(orders[o], att.status, now)]
    BY DEF WebhookCommit
  <2>2. CASE o \in Orders
    <3>1. orders[o] \in OrderRow /\ now \in Stamps
      BY <2>2, FreshTypes DEF TypeOK
    <3>2. PaidOrder(orders[o], att.status, now) \in OrderRow
      <4> HIDE DEF att
      <4> QED
        BY <3>1 DEF PaidOrder, OrderRow, PaymentStatuses, KitchenStatuses
    <3> QED
      BY <2>1, <3>2 DEF TypeOK
  <2>3. CASE o \notin Orders
    BY <2>1, <2>3 DEF TypeOK
  <2> QED
    BY <2>2, <2>3
<1>7. allocation' \in [Orders -> BookStatuses] /\ ledger' \in [Orders -> LedgerRow]
  <2> DEFINE applies == att.status \in {"paid", "overpaid"}
  <2>1. applies \in BOOLEAN
    OBVIOUS
  <2>2. PostRevenue(o, "pending", applies)
    BY DEF WebhookCommit
  <2> HIDE DEF applies
  <2>3. CASE o \in Orders
    BY <2>1, <2>2, <2>3, PostTypes
  <2>4. CASE o \notin Orders
    BY <2>2, <2>4 DEF PostRevenue, TypeOK
  <2> QED
    BY <2>3, <2>4
<1> QED
  BY <1>4, <1>5, <1>6, <1>7, EndTypes DEF TypeOK, WebhookCommit, stockRows

LEMMA WebhookOvertakenTypes ==
  ASSUME TypeOK, NEW h \in Handlers, WebhookOvertaken(h)
  PROVE  TypeOK'
<1>1. req[h].t \in Transfers
  BY RequestShape DEF TypeOK, WebhookOvertaken, MatchRequest
<1>2. [at |-> "webhook.reread", t |-> req[h].t] \in Request
  BY <1>1 DEF Request, WebhookRequest
<1>3. req' \in [Handlers -> Request] /\ transactions' \in [Transfers -> TransactionRow]
  BY <1>2, RequestTypes, TransactionTypes DEF WebhookOvertaken
<1> QED
  BY <1>3 DEF TypeOK, WebhookOvertaken, stockRows, books

LEMMA WebhookRereadTypes ==
  ASSUME TypeOK, NEW h \in Handlers, WebhookReread(h)
  PROVE  TypeOK'
<1>1. req[h].t \in Transfers
  BY RequestShape DEF TypeOK, WebhookReread, WebhookRequest
<1>2. req' \in [Handlers -> Request]
  BY <1>1, ReviewTypes DEF WebhookReread
<1> QED
  BY <1>2 DEF TypeOK, WebhookReread, payment, stockRows, books

\* Closing an attempt: the update of the order, and the statements on its books.
LEMMA ExpiredTypes ==
  ASSUME NEW row \in OrderRow, NEW empty \in BOOLEAN, NEW now \in Stamps
  PROVE  Expired(row, empty, now) \in OrderRow
<1>1. Cancelled(row, "expired", "payment_expired", now) \in OrderRow
  BY CancelledTypes DEF PaymentStatuses
<1>2. [row EXCEPT !.pay = "expired", !.updatedAt = now] \in OrderRow
  BY DEF OrderRow, PaymentStatuses
<1> QED
  BY <1>1, <1>2 DEF Expired

LEMMA CloseTypes ==
  ASSUME TypeOK, NEW o, NEW row, o \in Orders => row \in OrderRow, NEW empty \in BOOLEAN,
         NEW now, CloseUnpaid(o, row, empty, now)
  PROVE  /\ orders' \in [Orders -> OrderRow]
         /\ activeOrders' \in Nat
         /\ allocation' \in [Orders -> BookStatuses]
         /\ ledger' \in [Orders -> LedgerRow]
<1>1. orders' \in [Orders -> OrderRow]
  BY DEF TypeOK, CloseUnpaid
<1> DEFINE applies == empty /\ ClosedAt(row, now)
<1>2. applies \in BOOLEAN
  BY DEF ClosedAt
<1>3. LeaveActive(applies) /\ VoidRevenue(o, applies)
  BY DEF CloseUnpaid
<1> HIDE DEF applies
<1>4. activeOrders' \in Nat
  BY <1>2, <1>3, ActiveTypes
<1>5. CASE o \in Orders
  BY <1>1, <1>2, <1>3, <1>4, <1>5, VoidTypes
<1>6. CASE o \notin Orders
  BY <1>1, <1>3, <1>4, <1>6 DEF VoidRevenue, Voided, TypeOK
<1> QED
  BY <1>5, <1>6

\* An attempt's status is set to "expired", or its row is left alone.
LEMMA ExpireTypes ==
  ASSUME TypeOK, NEW o, NEW a,
         \/ attempts' = [attempts EXCEPT ![o][a].status = "expired"]
         \/ UNCHANGED attempts
  PROVE  attempts' \in [Orders -> [Attempts -> AttemptRow]]
<1>1. CASE o \in Orders /\ a \in Attempts
  <2>1. attempts[o][a] \in AttemptRow
    BY <1>1 DEF TypeOK
  <2> DEFINE row == [attempts[o][a] EXCEPT !.status = "expired"]
  <2>2. row \in AttemptRow
    BY <2>1 DEF AttemptRow
  <2>3. \/ attempts' = [attempts EXCEPT ![o] = [attempts[o] EXCEPT ![a] = row]]
        \/ attempts' = attempts
    BY <1>1 DEF TypeOK
  <2> HIDE DEF row
  <2>4. [attempts[o] EXCEPT ![a] = row] \in [Attempts -> AttemptRow]
    BY <1>1, <2>2 DEF TypeOK
  <2> QED
    BY <1>1, <2>3, <2>4 DEF TypeOK
<1>2. CASE ~ (o \in Orders /\ a \in Attempts)
  BY <1>2 DEF TypeOK
<1> QED
  BY <1>1, <1>2

LEMMA WebhookFlagTypes ==
  ASSUME TypeOK, NEW h \in Handlers, WebhookFlag(h)
  PROVE  TypeOK'
<1> DEFINE r == req[h]
           o == transactions[r.t].o
           a == transactions[r.t].a
           closes == r.verdict = "late_payment" /\ r.open
<1>1. r \in FlagRequest
  BY RequestShape DEF TypeOK, WebhookFlag
<1>2. r.verdict \in {"late_payment", "closed_payment"} /\ r.empty \in BOOLEAN
  BY <1>1 DEF FlagRequest
<1>3. transactions' \in [Transfers -> TransactionRow]
  BY <1>2, TransactionTypes DEF WebhookFlag
<1>4. attempts' \in [Orders -> [Attempts -> AttemptRow]]
  BY ExpireTypes DEF WebhookFlag
<1>5. /\ orders' \in [Orders -> OrderRow] /\ activeOrders' \in Nat
      /\ allocation' \in [Orders -> BookStatuses] /\ ledger' \in [Orders -> LedgerRow]
  <2>1. CASE closes
    <3>1. PICK now \in FreshStamps :
            CloseUnpaid(o, Expired(orders[o], r.empty, now), r.empty, now)
      BY <2>1 DEF WebhookFlag
    <3>2. o \in Orders => Expired(orders[o], r.empty, now) \in OrderRow
      BY <1>2, FreshTypes, ExpiredTypes DEF TypeOK
    <3> QED
      BY <1>2, <3>1, <3>2, CloseTypes
  <2>2. CASE ~ closes
    BY <2>2 DEF WebhookFlag, TypeOK
  <2> QED
    BY <2>1, <2>2
<1> QED
  BY <1>3, <1>4, <1>5, EndTypes DEF TypeOK, WebhookFlag, stockRows

LEMMA SweepReadTypes ==
  ASSUME TypeOK, NEW h \in Handlers, SweepRead(h)
  PROVE  TypeOK'
<1>1. PICK now \in FreshStamps, due \in SUBSET AllDue :
        Begin(h, "sweep", [at |-> "sweep.expire", now |-> now, due |-> due])
  BY DEF SweepRead
<1>2. AllDue \subseteq DueAttempt
  <2>1. ASSUME NEW o \in Orders, NEW a \in Attempts PROVE AsDue(o, a) \in DueAttempt
    BY DEF AsDue, DueAttempt
  <2> QED
    BY <2>1 DEF AllDue
<1>3. [at |-> "sweep.expire", now |-> now, due |-> due] \in Request
  BY <1>2, FreshTypes DEF SweepRequest, Request
<1>4. req' \in [Handlers -> Request]
  BY <1>1, <1>3, RequestTypes
<1> QED
  BY <1>4 DEF TypeOK, SweepRead, payment, stockRows, books

LEMMA ExpireAttemptTypes ==
  ASSUME TypeOK, NEW h \in Handlers, ExpireAttempt(h)
  PROVE  TypeOK'
<1> DEFINE r == req[h]
           hit(d) == attempts[d.o][d.a].status \in AwaitsMoney
           row(d) == IF hit(d) THEN Expired(orders[d.o], d.empty, r.now) ELSE orders[d.o]
<1>1. r \in SweepRequest
  BY RequestShape DEF TypeOK, ExpireAttempt
<1>2. PICK d \in r.due :
        /\ attempts' = IF hit(d) THEN [attempts EXCEPT ![d.o][d.a].status = "expired"]
                       ELSE attempts
        /\ CloseUnpaid(d.o, row(d), d.empty, r.now)
        /\ IF r.due = {d} THEN End(h) ELSE req' = [req EXCEPT ![h].due = @ \ {d}]
  BY DEF ExpireAttempt, SweptOrder, Hit
<1>3. d.o \in Orders /\ d.a \in Attempts /\ d.empty \in BOOLEAN /\ r.now \in Stamps
  BY <1>1 DEF SweepRequest, DueAttempt
<1>4. attempts' \in [Orders -> [Attempts -> AttemptRow]]
  BY <1>2, ExpireTypes
<1>5. row(d) \in OrderRow
  BY <1>3, ExpiredTypes DEF TypeOK
<1>6. /\ orders' \in [Orders -> OrderRow] /\ activeOrders' \in Nat
      /\ allocation' \in [Orders -> BookStatuses] /\ ledger' \in [Orders -> LedgerRow]
  BY <1>2, <1>3, <1>5, CloseTypes
<1>7. req' \in [Handlers -> Request]
  <2> DEFINE rest == [r EXCEPT !.due = r.due \ {d}]
  <2>1. rest \in Request
    BY <1>1 DEF SweepRequest, Request
  <2>2. r.due # {d} => req' = [req EXCEPT ![h] = rest]
    BY <1>2 DEF TypeOK
  <2> QED
    BY <1>2, <2>1, <2>2, RequestTypes
<1> QED
  BY <1>4, <1>6, <1>7 DEF TypeOK, ExpireAttempt, stockRows

-----------------------------------------------------------------------------
(* The theorem                                                             *)

LEMMA InitTypes == Init => TypeOK
<1> SUFFICES ASSUME Init PROVE TypeOK
  OBVIOUS
<1>1. orders \in [Orders -> OrderRow]
  <2>1. 0 \in Amounts /\ 0 \in Stamps
    BY TablesAssumption DEF Amounts, Stamps
  <2>2. NoOrder \in OrderRow
    BY <2>1 DEF NoOrder, OrderRow, KitchenStatuses, DeliveryStatuses, Methods,
       FulfillmentTypes, PaymentStatuses
  <2> QED
    BY <2>2 DEF Init
<1>2. attempts \in [Orders -> [Attempts -> AttemptRow]]
  BY TablesAssumption DEF Init, NoAttempt, AttemptRow, Amounts
<1>3. transactions \in [Transfers -> TransactionRow]
  BY TablesAssumption DEF Init, Unsent, TransactionRow, Attempts, Amounts
<1>4. reservations \in [Orders -> ReservationRow] /\ stock \in StockRow
  BY TablesAssumption DEF Init, ReservationRow, StockRow, Amounts
<1>5. ledger \in [Orders -> LedgerRow] /\ allocation \in [Orders -> BookStatuses]
  BY DEF Init, LedgerRow, BookStatuses
<1>6. cashSales \in [Orders -> Amounts]
  BY TablesAssumption DEF Init, Amounts
<1> QED
  BY <1>1, <1>2, <1>3, <1>4, <1>5, <1>6 DEF Init, TypeOK, Request

LEMMA StepTypes == TypeOK /\ [Next]_vars => TypeOK'
<1> SUFFICES ASSUME TypeOK, [Next]_vars PROVE TypeOK'
  OBVIOUS
<1>1. CASE World
  BY <1>1, WorldTypes
<1>2. ASSUME NEW h \in Handlers, Arrive(h) PROVE TypeOK'
  BY <1>2, CreateReadTypes, AmendItemsTypes, AdvanceReadTypes, AssignReadTypes,
     RefundReadTypes, WebhookReceiveTypes, SweepReadTypes DEF Arrive
<1>3. ASSUME NEW h \in Handlers, Continue(h) PROVE TypeOK'
  BY <1>3, CreateCommitTypes, CreateRejectedTypes, AmendReadTypes, AmendRefusedTypes,
     AmendCommitTypes, AdvanceCommitTypes, AssignUpdateTypes, AssignCommitTypes,
     RefundInsertTypes, RefundCommitTypes, WebhookUnmatchedTypes, WebhookLookupTypes,
     WebhookMatchTypes, WebhookCommitTypes, WebhookOvertakenTypes, WebhookRereadTypes,
     WebhookFlagTypes, ExpireAttemptTypes DEF Continue
<1>4. ASSUME NEW h \in Handlers, BooksClosed(h) \/ Abort(h) PROVE TypeOK'
  BY <1>4, EndTypes DEF Abort, BooksClosed, TypeOK, payment, stockRows, books
<1>5. CASE UNCHANGED vars
  BY <1>5 DEF TypeOK, vars
<1> QED
  BY <1>1, <1>2, <1>3, <1>4, <1>5 DEF Next

\* The tables and the requests in flight always have their types, however many orders,
\* transfers, attempts and requests there are.
THEOREM TypesHold == Spec => []TypeOK
  BY InitTypes, StepTypes, PTL DEF Spec
-----------------------------------------------------------------------------
(***************************************************************************)
(* A bank order is made, or called paid, only if it has been funded.       *)
(*                                                                         *)
(* KitchenGate is not inductive: order.advance commits a step that it      *)
(* allowed on a row it read earlier, and the update asks only for the      *)
(* status.  What carries the gate from the read to the commit is that      *)
(* funding is not undone (paid_at is never cleared) and that the order the *)
(* request has read is there and keeps its payment method.                 *)
(***************************************************************************)

\* The order a create is about to insert is not there, and is no other create's.
CreatesAreNew ==
  \A h \in Handlers : req[h].at = "create.commit" =>
    /\ orders[req[h].o].status = "none"
    /\ \A g \in Handlers : req[g].at = "create.commit" /\ req[g].o = req[h].o => g = h

\* A transition of a bank order, other than its cancellation, was read funded.
AdvancesAreFunded ==
  \A h \in Handlers : req[h].at = "advance.commit" =>
    /\ orders[req[h].o].status # "none"
    /\ IsBank(req[h].o) =>
         ~ req[h].cash /\ (req[h].to # "cancelled" => Funded(req[h].o))

UnusedAreUnpaid ==
  \A o \in Orders, a \in Attempts : ~ Exists(o, a) => ~ attempts[o][a].paidAt

FundingInv ==
  /\ TypeOK /\ CreatesAreNew /\ AdvancesAreFunded /\ UnusedAreUnpaid
  /\ PaidMeansFunded /\ KitchenGate

\* What every step but the insertion of an order does to orders and attempts: nothing
\* is unpaid, no order comes or goes, and only a funded order is let into the kitchen
\* or called paid.
FundingStep ==
  /\ \A o \in Orders, a \in Attempts :
       /\ attempts[o][a].paidAt => attempts'[o][a].paidAt
       /\ attempts'[o][a].status = "none" => ~ attempts'[o][a].paidAt
  /\ \A o \in Orders :
       /\ orders'[o].method = orders[o].method
       /\ orders'[o].status = "none" <=> orders[o].status = "none"
       /\ IsBank(o) /\ orders'[o].pay = "paid" => orders[o].pay = "paid" \/ Funded(o)'
       /\ IsBank(o) /\ orders'[o].status \in InTheKitchen =>
            orders[o].status \in InTheKitchen \/ Funded(o)'

\* Every step but the reads of create and advance: no request comes to those commits.
QuietRequests ==
  \A h \in Handlers :
    req'[h] = req[h] \/ req'[h].at \notin {"create.commit", "advance.commit"}

-----------------------------------------------------------------------------

LEMMA FundedStays ==
  ASSUME FundingStep, NEW o \in Orders, Funded(o)
  PROVE  Funded(o)'
  BY DEF FundingStep, Funded

LEMMA TablesStep ==
  ASSUME FundingInv, FundingStep
  PROVE  UnusedAreUnpaid' /\ PaidMeansFunded' /\ KitchenGate'
<1>1. UnusedAreUnpaid'
  BY DEF FundingStep, UnusedAreUnpaid, Exists
<1>2. PaidMeansFunded'
  BY FundedStays DEF FundingInv, FundingStep, PaidMeansFunded, Placed, IsBank
<1>3. KitchenGate'
  BY FundedStays DEF FundingInv, FundingStep, KitchenGate, Placed, IsBank
<1> QED
  BY <1>1, <1>2, <1>3

LEMMA QuietStep ==
  ASSUME FundingInv, FundingStep, QuietRequests, TypeOK'
  PROVE  FundingInv'
<1>1. UnusedAreUnpaid' /\ PaidMeansFunded' /\ KitchenGate'
  BY TablesStep
<1>2. CreatesAreNew'
  <2> SUFFICES ASSUME NEW h \in Handlers, req'[h].at = "create.commit"
               PROVE  /\ orders'[req'[h].o].status = "none"
                      /\ \A g \in Handlers :
                           req'[g].at = "create.commit" /\ req'[g].o = req'[h].o => g = h
    BY DEF CreatesAreNew
  <2>1. req'[h] = req[h] /\ req[h].o \in Orders
    BY RequestShape DEF QuietRequests, FundingInv, TypeOK, CreateRequest
  <2>2. orders'[req'[h].o].status = "none"
    BY <2>1 DEF FundingInv, CreatesAreNew, FundingStep
  <2>3. \A g \in Handlers : req'[g].at = "create.commit" => req'[g] = req[g]
    BY DEF QuietRequests
  <2> QED
    BY <2>1, <2>2, <2>3 DEF FundingInv, CreatesAreNew
<1>3. AdvancesAreFunded'
  <2> SUFFICES ASSUME NEW h \in Handlers, req'[h].at = "advance.commit"
               PROVE  /\ orders'[req'[h].o].status # "none"
                      /\ IsBank(req[h].o)' =>
                           /\ ~ req'[h].cash
                           /\ req'[h].to # "cancelled" => Funded(req[h].o)'
                      /\ req'[h] = req[h]
    BY DEF AdvancesAreFunded, IsBank, Funded
  <2>1. req'[h] = req[h] /\ req[h].o \in Orders
    BY RequestShape DEF QuietRequests, FundingInv, TypeOK, AdvanceRequest
  <2> QED
    BY <2>1, FundedStays DEF FundingInv, AdvancesAreFunded, FundingStep, IsBank
<1> QED
  BY <1>1, <1>2, <1>3 DEF FundingInv

-----------------------------------------------------------------------------
(* The steps on orders and attempts.                                       *)

LEMMA UnchangedStep ==
  ASSUME FundingInv, UNCHANGED <<orders, attempts>>
  PROVE  FundingStep
  BY DEF FundingInv, FundingStep, UnusedAreUnpaid, Exists

\* One row of each table may change: what has to be shown of it.
LEMMA OneOrderStep ==
  ASSUME FundingInv, NEW o, NEW a,
         \A p \in Orders : p # o => orders'[p] = orders[p],
         \A p \in Orders, b \in Attempts : ~ (p = o /\ b = a) => attempts'[p][b] = attempts[p][b],
         o \in Orders /\ a \in Attempts =>
           /\ attempts[o][a].paidAt => attempts'[o][a].paidAt
           /\ attempts'[o][a].status = "none" => ~ attempts'[o][a].paidAt,
         o \in Orders =>
           /\ orders'[o].method = orders[o].method
           /\ orders'[o].status = "none" <=> orders[o].status = "none"
           /\ IsBank(o) /\ orders'[o].pay = "paid" => orders[o].pay = "paid" \/ Funded(o)'
           /\ IsBank(o) /\ orders'[o].status \in InTheKitchen =>
                orders[o].status \in InTheKitchen \/ Funded(o)'
  PROVE  FundingStep
<1>1. ASSUME NEW p \in Orders, NEW b \in Attempts
      PROVE  /\ attempts[p][b].paidAt => attempts'[p][b].paidAt
             /\ attempts'[p][b].status = "none" => ~ attempts'[p][b].paidAt
  <2>1. attempts[p][b].status = "none" => ~ attempts[p][b].paidAt
    BY DEF FundingInv, UnusedAreUnpaid, Exists
  <2>2. CASE p = o /\ b = a
    BY <2>1, <2>2
  <2>3. CASE ~ (p = o /\ b = a)
    BY <2>1, <2>3
  <2> QED
    BY <2>2, <2>3
<1> QED
  BY <1>1 DEF FundingStep

LEMMA LapseStep ==
  ASSUME FundingInv, NEW o \in Orders, NEW a \in Attempts, Lapse(o, a)
  PROVE  FundingStep
<1>1. /\ attempts'[o][a].paidAt = attempts[o][a].paidAt
      /\ attempts'[o][a].status = attempts[o][a].status
      /\ \A p \in Orders, b \in Attempts : ~ (p = o /\ b = a) => attempts'[p][b] = attempts[p][b]
      /\ orders' = orders
  BY DEF FundingInv, TypeOK, AttemptRow, Lapse
<1> QED
  BY <1>1, OneOrderStep DEF FundingInv, UnusedAreUnpaid, Exists, IsBank

LEMMA AmendStep ==
  ASSUME FundingInv, NEW h \in Handlers, AmendCommit(h)
  PROVE  FundingStep
<1> DEFINE r == req[h]
<1>1. r.o \in Orders
  BY RequestShape DEF FundingInv, TypeOK, AmendCommit, AmendRequest
<1>2. ASSUME NEW p \in Orders, NEW b \in Attempts
      PROVE  /\ attempts[p][b].paidAt => attempts'[p][b].paidAt
             /\ attempts'[p][b].status = "none" => ~ attempts'[p][b].paidAt
  <2>1. /\ attempts[p][b].status = "none" => ~ attempts[p][b].paidAt
        /\ attempts[p][b] \in AttemptRow
    BY DEF FundingInv, UnusedAreUnpaid, Exists, TypeOK
  <2>2. CASE p = r.o
    <3>1. attempts'[p][b] = AmendedAttempts(r)[b]
      BY <1>1, <2>2 DEF AmendCommit, FundingInv, TypeOK
    <3>2. CASE r.due > 0 /\ Following(p, b)
      BY <2>1, <2>2, <3>1, <3>2 DEF AmendedAttempts, Following, Exists, FirstAttempt, NoAttempt
    <3>3. CASE ~ (r.due > 0 /\ Following(p, b))
      BY <2>1, <2>2, <3>1, <3>3 DEF AmendedAttempts, AttemptRow
    <3> QED
      BY <3>2, <3>3
  <2>3. CASE p # r.o
    BY <2>1, <2>3 DEF AmendCommit, FundingInv, TypeOK
  <2> QED
    BY <2>2, <2>3
<1>3. ASSUME NEW p \in Orders
      PROVE  /\ orders'[p].method = orders[p].method
             /\ orders'[p].status = orders[p].status
             /\ orders'[p].pay = orders[p].pay
  <2>1. orders[p] \in OrderRow /\ orders \in [Orders -> OrderRow]
    BY DEF FundingInv, TypeOK
  <2>2. PICK now : orders' = [orders EXCEPT ![r.o].total = r.qty, ![r.o].updatedAt = now]
    BY DEF AmendCommit
  <2>3. orders'[p] = IF p = r.o
                     THEN [orders[p] EXCEPT !.total = r.qty, !.updatedAt = now]
                     ELSE orders[p]
    BY <2>1, <2>2
  <2> QED
    BY <2>1, <2>3 DEF OrderRow
<1> QED
  BY <1>2, <1>3 DEF FundingStep

LEMMA AdvanceStep ==
  ASSUME FundingInv, NEW h \in Handlers, AdvanceCommit(h)
  PROVE  FundingStep
<1> DEFINE r == req[h]
<1>1. r \in AdvanceRequest
  BY RequestShape DEF FundingInv, TypeOK, AdvanceCommit
<1>2. r.o \in Orders /\ r.to \in OrderStatuses /\ r.from \in OrderStatuses
  BY <1>1 DEF AdvanceRequest
<1>3. ASSUME NEW p \in Orders, NEW b \in Attempts
      PROVE  /\ attempts[p][b].paidAt => attempts'[p][b].paidAt
             /\ attempts'[p][b].status = "none" => ~ attempts'[p][b].paidAt
  <2>1. /\ attempts[p][b].status = "none" => ~ attempts[p][b].paidAt
        /\ attempts[p][b] \in AttemptRow
    BY DEF FundingInv, UnusedAreUnpaid, Exists, TypeOK
  <2>2. CASE p = r.o
    <3>1. attempts'[p][b] = AdvancedAttempt(r, attempts[p][b])
      BY <1>2, <2>2 DEF AdvanceCommit, FundingInv, TypeOK
    <3> QED
      BY <2>1, <3>1 DEF AdvancedAttempt, AttemptRow
  <2>3. CASE p # r.o
    BY <2>1, <2>3 DEF AdvanceCommit, FundingInv, TypeOK
  <2> QED
    BY <2>2, <2>3
<1>4. ASSUME NEW p \in Orders
      PROVE  /\ orders'[p].method = orders[p].method
             /\ orders'[p].status = "none" <=> orders[p].status = "none"
             /\ IsBank(p) /\ orders'[p].pay = "paid" => orders[p].pay = "paid"
             /\ IsBank(p) /\ orders'[p].status \in InTheKitchen =>
                  orders[p].status \in InTheKitchen \/ Funded(p)
  <2>1. CASE p = r.o /\ AdvanceWins(r)
    <3>1. PICK now : orders'[p] = AdvancedOrder(r, now)
      BY <1>2, <2>1 DEF AdvanceCommit, FundingInv, TypeOK
    <3>2. orders[p] \in OrderRow /\ orders[p].status = r.from
      BY <2>1 DEF FundingInv, TypeOK, AdvanceWins
    <3>3. /\ orders'[p].method = orders[p].method /\ orders'[p].status = r.to
          /\ r.cash \/ orders'[p].pay # "paid" \/ orders'[p].pay = orders[p].pay
      BY <2>1, <3>1, <3>2 DEF AdvancedOrder, OrderRow
    <3>4. r.to # "none" /\ r.from # "none"
      BY <1>2 DEF OrderStatuses
    <3>5. IsBank(p) => ~ r.cash /\ (r.to # "cancelled" => Funded(p))
      BY <2>1 DEF FundingInv, AdvancesAreFunded, AdvanceCommit
    <3> QED
      BY <3>2, <3>3, <3>4, <3>5 DEF InTheKitchen
  <2>2. CASE ~ (p = r.o /\ AdvanceWins(r))
    BY <2>2 DEF AdvanceCommit, FundingInv, TypeOK
  <2> QED
    BY <2>1, <2>2
<1>5. ASSUME NEW p \in Orders, Funded(p) PROVE Funded(p)'
  BY <1>3, <1>5 DEF Funded
<1> QED
  BY <1>3, <1>4, <1>5 DEF FundingStep

LEMMA AssignStep ==
  ASSUME FundingInv, NEW h \in Handlers, AssignCommit(h)
  PROVE  FundingStep
<1> DEFINE r == req[h]
<1>1. ASSUME NEW p \in Orders
      PROVE  /\ orders'[p].method = orders[p].method
             /\ orders'[p].status = "none" <=> orders[p].status = "none"
             /\ orders'[p].pay = orders[p].pay
             /\ orders'[p].status \in InTheKitchen => orders[p].status \in InTheKitchen
  <2>1. orders[p] \in OrderRow /\ orders \in [Orders -> OrderRow]
    BY DEF FundingInv, TypeOK
  <2>2. CASE p = r.o /\ orders[p].status = "ready"
    <3>1. PICK now :
            orders' = [orders EXCEPT ![p].shipper = r.s, ![p].status = "assigned",
                                     ![p].delivery = "assigned", ![p].updatedAt = now]
      BY <2>2 DEF AssignCommit
    <3>2. /\ orders'[p].method = orders[p].method /\ orders'[p].pay = orders[p].pay
          /\ orders'[p].status = "assigned"
      BY <2>1, <3>1 DEF OrderRow
    <3> QED
      BY <2>2, <3>2 DEF InTheKitchen, OrderStatuses
  <2>3. CASE ~ (p = r.o /\ orders[p].status = "ready")
    BY <2>1, <2>3 DEF AssignCommit
  <2> QED
    BY <2>2, <2>3
<1>2. attempts' = attempts
  BY DEF AssignCommit, payment
<1> QED
  BY <1>1, <1>2 DEF FundingStep, FundingInv, UnusedAreUnpaid, Exists

LEMMA RefundStep ==
  ASSUME FundingInv, NEW h \in Handlers, RefundCommit(h)
  PROVE  FundingStep
<1> DEFINE r == req[h]
<1>1. r.o \in Orders /\ r.a \in Attempts /\ r.from \in OrderStatuses
  BY RequestShape DEF FundingInv, TypeOK, RefundCommit, RefundRequest
<1>2. orders[r.o] \in OrderRow /\ attempts[r.o][r.a] \in AttemptRow
  BY <1>1 DEF FundingInv, TypeOK
<1>3. PICK known :
        attempts' = [attempts EXCEPT ![r.o][r.a] = RefundedAttempt(r, known)]
  BY DEF RefundCommit
<1>4. /\ attempts'[r.o][r.a].paidAt = attempts[r.o][r.a].paidAt
      /\ attempts'[r.o][r.a].status = "none" => attempts[r.o][r.a].status = "none"
  BY <1>1, <1>2, <1>3 DEF FundingInv, TypeOK, RefundedAttempt, AttemptRow
<1>5. \A p \in Orders, b \in Attempts :
        ~ (p = r.o /\ b = r.a) => attempts'[p][b] = attempts[p][b]
  BY <1>1, <1>3 DEF FundingInv, TypeOK
<1>6. \A p \in Orders : p # r.o => orders'[p] = orders[p]
  BY DEF RefundCommit, FundingInv, TypeOK
<1>7. /\ orders'[r.o].method = orders[r.o].method
      /\ orders'[r.o].status = "none" <=> orders[r.o].status = "none"
      /\ orders'[r.o].pay = "paid" => orders[r.o].pay = "paid"
      /\ orders'[r.o].status \in InTheKitchen => orders[r.o].status \in InTheKitchen
  <2>1. CASE AsRead(r)
    <3>1. PICK now : orders'[r.o] = RefundedOrder(r, now)
      BY <1>1, <2>1 DEF RefundCommit, FundingInv, TypeOK
    <3>2. orders[r.o].status # "none"
      BY <1>1, <2>1 DEF AsRead, OrderStatuses
    <3> QED
      BY <1>2, <3>1, <3>2 DEF RefundedOrder, Cancelled, OrderRow, InTheKitchen
  <2>2. CASE ~ AsRead(r)
    BY <2>2 DEF RefundCommit
  <2> QED
    BY <2>1, <2>2
<1> QED
  BY <1>4, <1>5, <1>6, <1>7, OneOrderStep DEF FundingInv, UnusedAreUnpaid, Exists

LEMMA CreditedRow ==
  ASSUME NEW att \in AttemptRow, NEW ts
  PROVE  /\ Credit(att, ts).status # "none"
         /\ att.paidAt => Credit(att, ts).paidAt
         /\ Credit(att, ts).status \in {"paid", "overpaid"} => Credit(att, ts).paidAt
<1> DEFINE status == StatusFor(Total(ts), att.expected)
<1>1. status # "none"
  BY DEF StatusFor
<1>2. Credit(att, ts) = [att EXCEPT !.credited = ts, !.status = status,
                                    !.paidAt = @ \/ status \in {"paid", "overpaid"}]
  BY DEF Credit
<1> HIDE DEF status
<1> QED
  BY <1>1, <1>2 DEF AttemptRow

LEMMA PaidRow ==
  ASSUME NEW row \in OrderRow, NEW status, NEW now
  PROVE  /\ PaidOrder(row, status, now).method = row.method
         /\ PaidOrder(row, status, now).status = row.status
         /\ PaidOrder(row, status, now).pay = "paid" =>
              row.pay = "paid" \/ status \in {"paid", "overpaid"}
  BY DEF PaidOrder, OrderRow

LEMMA ExpiredRow ==
  ASSUME NEW row \in OrderRow, NEW empty, NEW now
  PROVE  /\ Expired(row, empty, now).method = row.method
         /\ \/ Expired(row, empty, now).status = row.status
            \/ Expired(row, empty, now).status = "cancelled" /\ row.status = "new"
         /\ Expired(row, empty, now).pay = "paid" => row.pay = "paid"
  BY DEF Expired, Cancelled, OrderRow

LEMMA WebhookStep ==
  ASSUME FundingInv, NEW h \in Handlers, WebhookCommit(h)
  PROVE  FundingStep
<1> DEFINE r == req[h]
<1>1. PICK o, a, att : /\ o = transactions[r.t].o
                       /\ a = transactions[r.t].a
                       /\ att = Credit(attempts[o][a], r.sum)
  OBVIOUS
<1>2. a \in Attempts
  <2>1. r \in MatchRequest
    BY RequestShape DEF FundingInv, TypeOK, WebhookCommit
  <2>2. transactions[r.t] \in TransactionRow
    BY <2>1 DEF FundingInv, TypeOK, MatchRequest
  <2> QED
    BY <1>1, <2>2 DEF TransactionRow
<1>3. attempts' = [attempts EXCEPT ![o][a] = att]
  BY <1>1 DEF WebhookCommit
<1>4. PICK now : orders' = [orders EXCEPT ![o] = PaidOrder(orders[o], att.status, now)]
  BY <1>1 DEF WebhookCommit
<1>5. \A p \in Orders, b \in Attempts :
        ~ (p = o /\ b = a) => attempts'[p][b] = attempts[p][b]
  BY <1>3 DEF FundingInv, TypeOK
<1>6. \A p \in Orders : p # o => orders'[p] = orders[p]
  BY <1>4 DEF FundingInv, TypeOK
<1>7. ASSUME o \in Orders
      PROVE  /\ attempts[o][a].paidAt => attempts'[o][a].paidAt
             /\ attempts'[o][a].status # "none"
             /\ orders'[o].method = orders[o].method
             /\ orders'[o].status = orders[o].status
             /\ orders'[o].pay = "paid" => orders[o].pay = "paid" \/ Funded(o)'
  <2>1. attempts[o][a] \in AttemptRow /\ orders[o] \in OrderRow
    BY <1>2, <1>7 DEF FundingInv, TypeOK
  <2>2. attempts'[o][a] = att /\ orders'[o] = PaidOrder(orders[o], att.status, now)
    BY <1>2, <1>3, <1>4, <1>7 DEF FundingInv, TypeOK
  <2>3. /\ att.status # "none"
        /\ attempts[o][a].paidAt => att.paidAt
        /\ att.status \in {"paid", "overpaid"} => att.paidAt
    BY <1>1, <2>1, CreditedRow
  <2>4. att.paidAt => Funded(o)'
    BY <1>2, <2>2 DEF Funded
  <2> QED
    BY <2>1, <2>2, <2>3, <2>4, PaidRow
<1> QED
  BY <1>5, <1>6, <1>7, OneOrderStep

\* An attempt is closed, and the order with it.
LEMMA ExpiryStep ==
  ASSUME FundingInv, NEW o, NEW a, NEW empty, NEW now, NEW row,
         \/ attempts' = [attempts EXCEPT ![o][a].status = "expired"]
         \/ UNCHANGED attempts,
         row = Expired(orders[o], empty, now) \/ row = orders[o],
         orders' = [orders EXCEPT ![o] = row]
  PROVE  FundingStep
<1>1. ASSUME NEW p \in Orders, NEW b \in Attempts
      PROVE  /\ attempts'[p][b].paidAt = attempts[p][b].paidAt
             /\ attempts'[p][b].status = "none" => attempts[p][b].status = "none"
  <2>1. attempts[p][b] \in AttemptRow
    BY DEF FundingInv, TypeOK
  <2>2. \/ attempts'[p][b] = [attempts[p][b] EXCEPT !.status = "expired"]
        \/ attempts'[p][b] = attempts[p][b]
    <3>1. CASE p = o /\ b = a
      BY <3>1 DEF FundingInv, TypeOK
    <3>2. CASE p # o \/ b # a
      BY <3>2 DEF FundingInv, TypeOK
    <3> QED
      BY <3>1, <3>2
  <2> QED
    BY <2>1, <2>2 DEF AttemptRow
<1>2. ASSUME NEW p \in Orders
      PROVE  /\ orders'[p].method = orders[p].method
             /\ orders'[p].status = "none" <=> orders[p].status = "none"
             /\ orders'[p].pay = "paid" => orders[p].pay = "paid"
             /\ orders'[p].status \in InTheKitchen => orders[p].status \in InTheKitchen
  <2>1. orders[p] \in OrderRow
    BY DEF FundingInv, TypeOK
  <2>2. CASE p = o
    <3>1. orders'[p] = row
      BY <2>2 DEF FundingInv, TypeOK
    <3> QED
      BY <2>1, <2>2, <3>1, ExpiredRow DEF InTheKitchen
  <2>3. CASE p # o
    BY <2>3 DEF FundingInv, TypeOK
  <2> QED
    BY <2>2, <2>3
<1> QED
  BY <1>1, <1>2 DEF FundingStep, FundingInv, UnusedAreUnpaid, Exists

LEMMA FlagStep ==
  ASSUME FundingInv, NEW h \in Handlers, WebhookFlag(h)
  PROVE  FundingStep
<1> DEFINE r == req[h]
           o == transactions[r.t].o
           a == transactions[r.t].a
<1>1. CASE r.verdict = "late_payment" /\ r.open
  <2>1. PICK now : orders' = [orders EXCEPT ![o] = Expired(orders[o], r.empty, now)]
    BY <1>1 DEF WebhookFlag, CloseUnpaid
  <2>2. \/ attempts' = [attempts EXCEPT ![o][a].status = "expired"]
        \/ UNCHANGED attempts
    BY DEF WebhookFlag
  <2> QED
    BY <2>1, <2>2, ExpiryStep
<1>2. CASE ~ (r.verdict = "late_payment" /\ r.open)
  BY <1>2, UnchangedStep DEF WebhookFlag
<1> QED
  BY <1>1, <1>2

LEMMA SweepStep ==
  ASSUME FundingInv, NEW h \in Handlers, ExpireAttempt(h)
  PROVE  FundingStep
<1> DEFINE r == req[h]
           hit(d) == attempts[d.o][d.a].status \in AwaitsMoney
           row(d) == IF hit(d) THEN Expired(orders[d.o], d.empty, r.now) ELSE orders[d.o]
<1>1. PICK d \in r.due :
        /\ attempts' = IF hit(d) THEN [attempts EXCEPT ![d.o][d.a].status = "expired"]
                       ELSE attempts
        /\ orders' = [orders EXCEPT ![d.o] = row(d)]
  BY DEF ExpireAttempt, SweptOrder, Hit, CloseUnpaid
<1>2. row(d) = Expired(orders[d.o], d.empty, r.now) \/ row(d) = orders[d.o]
  OBVIOUS
<1>3. \/ attempts' = [attempts EXCEPT ![d.o][d.a].status = "expired"]
      \/ UNCHANGED attempts
  BY <1>1
<1> HIDE DEF row, hit
<1> QED
  BY <1>1, <1>2, <1>3, ExpiryStep

-----------------------------------------------------------------------------
(* The steps that bring a request to the commit of create or advance, and  *)
(* the insertion of an order.                                              *)

LEMMA CreateReadStep ==
  ASSUME FundingInv, NEW h \in Handlers, CreateRead(h), TypeOK'
  PROVE  FundingInv'
<1>1. UNCHANGED <<orders, attempts>>
  BY DEF CreateRead, payment
<1>2. UnusedAreUnpaid' /\ PaidMeansFunded' /\ KitchenGate'
  BY <1>1, UnchangedStep, TablesStep
<1>3. PICK o, r :
        /\ o \in Orders
        /\ orders[o].status = "none"
        /\ \A g \in Busy : req[g].at = "create.commit" => req[g].o # o
        /\ r.at = "create.commit" /\ r.o = o
        /\ req' = [req EXCEPT ![h] = r]
  BY DEF CreateRead, Begin
<1>4. ASSUME NEW g \in Handlers, g # h
      PROVE  req'[g] = req[g] /\ (req[g].at = "create.commit" => req[g].o # o)
  BY <1>3, <1>4 DEF FundingInv, TypeOK, Busy
<1>5. req'[h] = r
  BY <1>3 DEF FundingInv, TypeOK
<1>6. CreatesAreNew'
  BY <1>1, <1>3, <1>4, <1>5 DEF FundingInv, CreatesAreNew
<1>7. AdvancesAreFunded'
  BY <1>1, <1>3, <1>4, <1>5 DEF FundingInv, AdvancesAreFunded, IsBank, Funded
<1> QED
  BY <1>2, <1>6, <1>7 DEF FundingInv

LEMMA AdvanceReadStep ==
  ASSUME FundingInv, NEW h \in Handlers, AdvanceRead(h), TypeOK'
  PROVE  FundingInv'
<1>1. UNCHANGED <<orders, attempts>>
  BY DEF AdvanceRead, payment
<1>2. UnusedAreUnpaid' /\ PaidMeansFunded' /\ KitchenGate'
  BY <1>1, UnchangedStep, TablesStep
<1>3. PICK o, r :
        /\ o \in Orders
        /\ orders[o].status # "none" /\ PaymentGate(orders[o], r.to)
        /\ r.at = "advance.commit" /\ r.o = o
        /\ r.cash = CashCollected(orders[o], r.to)
        /\ req' = [req EXCEPT ![h] = r]
  BY DEF AdvanceRead, MayAdvance, Begin
<1>4. \A g \in Handlers : g # h => req'[g] = req[g]
  BY <1>3 DEF FundingInv, TypeOK
<1>5. req'[h] = r
  BY <1>3 DEF FundingInv, TypeOK
<1>6. IsBank(o) => ~ r.cash /\ (r.to # "cancelled" => Funded(o))
  BY <1>3 DEF PaymentGate, CashCollected, IsBank, FundingInv, PaidMeansFunded, Placed
<1>7. CreatesAreNew'
  BY <1>1, <1>3, <1>4, <1>5 DEF FundingInv, CreatesAreNew
<1>8. AdvancesAreFunded'
  <2> SUFFICES ASSUME NEW g \in Handlers, req'[g].at = "advance.commit"
               PROVE  /\ orders[req'[g].o].status # "none"
                      /\ IsBank(req'[g].o) =>
                           /\ ~ req'[g].cash
                           /\ req'[g].to # "cancelled" => Funded(req'[g].o)
    BY <1>1 DEF AdvancesAreFunded, IsBank, Funded
  <2>1. CASE g = h
    BY <1>3, <1>5, <1>6, <2>1
  <2>2. CASE g # h
    BY <1>4, <2>2 DEF FundingInv, AdvancesAreFunded
  <2> QED
    BY <2>1, <2>2
<1> QED
  BY <1>2, <1>7, <1>8 DEF FundingInv

LEMMA CreateCommitStep ==
  ASSUME FundingInv, NEW h \in Handlers, CreateCommit(h), TypeOK'
  PROVE  FundingInv'
<1> DEFINE r == req[h]
<1>1. PICK o : o = r.o
  OBVIOUS
<1>2. o \in Orders /\ orders[o].status = "none"
  BY <1>1, RequestShape DEF FundingInv, TypeOK, CreateCommit, CreateRequest, CreatesAreNew
<1>3. PICK now : orders' = [orders EXCEPT ![o] = NewOrder(r, now)]
  BY <1>1 DEF CreateCommit
<1>4. orders'[o].status = "new" /\ orders'[o].pay = "pending"
  BY <1>2, <1>3 DEF FundingInv, TypeOK, NewOrder
<1>5. \A p \in Orders : p # o => orders'[p] = orders[p] /\ attempts'[p] = attempts[p]
  BY <1>1, <1>3 DEF FundingInv, TypeOK, CreateCommit
<1>6. ASSUME NEW b \in Attempts
      PROVE  attempts'[o][b].status = "none" => ~ attempts'[o][b].paidAt
  BY <1>1, <1>2 DEF FundingInv, TypeOK, CreateCommit, UnusedAreUnpaid, Exists, FirstAttempt,
     NoAttempt
<1>7. req'[h] = Idle /\ \A g \in Handlers : g # h => req'[g] = req[g]
  BY DEF CreateCommit, End, FundingInv, TypeOK
<1>8. UnusedAreUnpaid'
  BY <1>5, <1>6 DEF FundingInv, UnusedAreUnpaid, Exists
<1>9. PaidMeansFunded' /\ KitchenGate'
  <2> SUFFICES ASSUME NEW p \in Orders, orders'[p].status # "none",
                      orders'[p].method = "bank_transfer",
                      orders'[p].pay = "paid" \/ orders'[p].status \in InTheKitchen
               PROVE  \E b \in Attempts : attempts'[p][b].paidAt
    BY DEF PaidMeansFunded, KitchenGate, Placed, IsBank, Funded
  <2>1. p # o
    BY <1>4 DEF InTheKitchen
  <2> QED
    BY <1>5, <2>1 DEF FundingInv, PaidMeansFunded, KitchenGate, Placed, IsBank, Funded
<1>10. CreatesAreNew'
  <2>1. ASSUME NEW g \in Handlers, req'[g].at = "create.commit"
        PROVE  req'[g] = req[g] /\ req[g].o \in Orders /\ req[g].o # o
    <3>1. g # h
      BY <1>7, <2>1 DEF Idle
    <3>2. req'[g] = req[g]
      BY <1>7, <3>1
    <3>3. req[g].o # o
      BY <1>1, <2>1, <3>1, <3>2 DEF CreateCommit, FundingInv, CreatesAreNew
    <3>4. req[g] \in CreateRequest
      BY <2>1, <3>2, RequestShape DEF FundingInv, TypeOK
    <3> QED
      BY <3>2, <3>3, <3>4 DEF CreateRequest
  <2> QED
    BY <1>5, <2>1 DEF FundingInv, CreatesAreNew
<1>11. AdvancesAreFunded'
  <2> SUFFICES ASSUME NEW g \in Handlers, req'[g].at = "advance.commit"
               PROVE  /\ orders'[req'[g].o].status # "none"
                      /\ orders'[req'[g].o].method = "bank_transfer" =>
                           /\ ~ req'[g].cash
                           /\ req'[g].to # "cancelled" =>
                                \E b \in Attempts : attempts'[req'[g].o][b].paidAt
    BY DEF AdvancesAreFunded, IsBank, Funded
  <2>1. g # h /\ req'[g] = req[g]
    BY <1>7 DEF Idle
  <2>2. req[g].o \in Orders /\ req[g].o # o
    <3>1. req[g] \in AdvanceRequest
      BY <2>1, RequestShape DEF FundingInv, TypeOK
    <3> QED
      BY <1>2, <2>1, <3>1 DEF AdvanceRequest, FundingInv, AdvancesAreFunded
  <2> QED
    BY <1>5, <2>1, <2>2 DEF FundingInv, AdvancesAreFunded, IsBank, Funded
<1> QED
  BY <1>8, <1>9, <1>10, <1>11 DEF FundingInv

-----------------------------------------------------------------------------
(* The theorems                                                            *)

\* Every other request ends, starts another kind of work, or goes on with it.
LEMMA OtherRequests ==
  ASSUME FundingInv, NEW h \in Handlers,
         \/ AmendItems(h) \/ AssignRead(h) \/ RefundRead(h) \/ WebhookReceive(h)
         \/ SweepRead(h) \/ BooksClosed(h) \/ Abort(h)
         \/ Continue(h) /\ ~ CreateCommit(h)
  PROVE  QuietRequests
<1>1. \A g \in Handlers : g # h => req'[g] = req[g]
  BY DEF FundingInv, TypeOK, AmendItems, AssignRead, RefundRead, WebhookReceive, SweepRead,
     Abort, BooksClosed, Continue, CreateRejected, AmendRead, AmendRefused, AmendCommit,
     AmendRejected, AdvanceCommit, AssignUpdate, AssignCommit, RefundInsert, RefundCommit,
     WebhookUnmatched, WebhookLookup, WebhookMatch, WebhookCommit, WebhookOvertaken,
     WebhookReread, WebhookFlag, ExpireAttempt, Review, Begin, Goto, End
<1>2. req[h] \in Request /\ req \in [Handlers -> Request]
  BY DEF FundingInv, TypeOK
<1>3. CASE AmendItems(h) \/ AssignRead(h) \/ RefundRead(h) \/ WebhookReceive(h) \/ SweepRead(h)
  <2>1. req'[h].at \notin {"create.commit", "advance.commit"}
    BY <1>2, <1>3 DEF AmendItems, AssignRead, RefundRead, WebhookReceive, SweepRead, Begin
  <2> QED
    BY <1>1, <2>1 DEF QuietRequests
<1>4. CASE End(h)
  BY <1>1, <1>2, <1>4 DEF End, Idle, QuietRequests
<1>5. CASE AmendRead(h) \/ AssignUpdate(h) \/ RefundInsert(h) \/ WebhookLookup(h)
           \/ WebhookMatch(h) \/ WebhookOvertaken(h) \/ WebhookReread(h)
  <2>1. End(h) \/ req'[h].at \notin {"create.commit", "advance.commit"}
    <3>1. CASE AmendRead(h)
      BY <1>2, <3>1 DEF AmendRead
    <3>2. CASE AssignUpdate(h)
      <4>1. req[h] \in AssignRequest
        BY <1>2, <3>2, RequestShape DEF AssignUpdate
      <4> QED
        BY <1>2, <3>2, <4>1 DEF AssignUpdate, AssignRequest, Goto
    <3>3. CASE RefundInsert(h)
      <4>1. req[h] \in RefundRequest
        BY <1>2, <3>3, RequestShape DEF RefundInsert
      <4> QED
        BY <1>2, <3>3, <4>1 DEF RefundInsert, RefundRequest
    <3>4. CASE WebhookLookup(h) \/ WebhookMatch(h) \/ WebhookReread(h)
      BY <1>2, <3>4 DEF WebhookLookup, WebhookMatch, WebhookReread, Review
    <3>5. CASE WebhookOvertaken(h)
      BY <1>2, <3>5 DEF WebhookOvertaken
    <3> QED
      BY <1>5, <3>1, <3>2, <3>3, <3>4, <3>5
  <2> QED
    BY <1>1, <1>4, <2>1 DEF QuietRequests
<1>6. CASE ExpireAttempt(h)
  <2>1. req[h] \in SweepRequest
    BY <1>2, <1>6, RequestShape DEF ExpireAttempt
  <2>2. PICK d \in req[h].due : End(h) \/ req' = [req EXCEPT ![h].due = @ \ {d}]
    BY <1>6 DEF ExpireAttempt
  <2>3. End(h) \/ req'[h].at \notin {"create.commit", "advance.commit"}
    BY <1>2, <2>1, <2>2 DEF SweepRequest
  <2> QED
    BY <1>1, <1>4, <2>3 DEF QuietRequests
<1>7. Continue(h) /\ ~ CreateCommit(h) =>
        \/ End(h) \/ ExpireAttempt(h)
        \/ AmendRead(h) \/ AssignUpdate(h) \/ RefundInsert(h) \/ WebhookLookup(h)
        \/ WebhookMatch(h) \/ WebhookOvertaken(h) \/ WebhookReread(h)
  BY DEF Continue, CreateRejected, AmendRefused, AmendCommit, AmendRejected,
     AdvanceCommit, AssignCommit, RefundCommit, WebhookUnmatched, WebhookCommit, WebhookFlag
<1> QED
  BY <1>3, <1>4, <1>5, <1>6, <1>7 DEF Abort, BooksClosed

LEMMA InitFunding == Init => FundingInv
<1> SUFFICES ASSUME Init PROVE FundingInv
  OBVIOUS
<1>1. UnusedAreUnpaid
  BY DEF Init, UnusedAreUnpaid, NoAttempt
<1>2. CreatesAreNew /\ AdvancesAreFunded
  BY DEF Init, Idle, CreatesAreNew, AdvancesAreFunded
<1>3. PaidMeansFunded /\ KitchenGate
  BY DEF Init, PaidMeansFunded, KitchenGate, Placed, NoOrder
<1> QED
  BY <1>1, <1>2, <1>3, InitTypes DEF FundingInv

LEMMA StepFunding == FundingInv /\ [Next]_vars => FundingInv'
<1> SUFFICES ASSUME FundingInv, [Next]_vars PROVE FundingInv'
  OBVIOUS
<1>1. TypeOK'
  BY StepTypes DEF FundingInv
<1>2. CASE World
  <2>1. QuietRequests
    BY <1>2 DEF World, SendTransfer, Lapse, UpsertStock, ClosePeriod, QuietRequests
  <2>2. FundingStep
    BY <1>2, UnchangedStep, LapseStep DEF World, SendTransfer, UpsertStock, ClosePeriod, payment
  <2> QED
    BY <1>1, <2>1, <2>2, QuietStep
<1>3. ASSUME NEW h \in Handlers, Arrive(h) PROVE FundingInv'
  <2>1. CASE CreateRead(h)
    BY <1>1, <2>1, CreateReadStep
  <2>2. CASE AdvanceRead(h)
    BY <1>1, <2>2, AdvanceReadStep
  <2>3. CASE AmendItems(h) \/ AssignRead(h) \/ RefundRead(h) \/ WebhookReceive(h)
             \/ SweepRead(h)
    <3>1. UNCHANGED <<orders, attempts>>
      BY <2>3 DEF AmendItems, AssignRead, RefundRead, WebhookReceive, SweepRead, payment
    <3> QED
      BY <1>1, <2>3, <3>1, UnchangedStep, OtherRequests, QuietStep
  <2> QED
    BY <1>3, <2>1, <2>2, <2>3 DEF Arrive
<1>4. ASSUME NEW h \in Handlers, Continue(h) PROVE FundingInv'
  <2>1. CASE CreateCommit(h)
    BY <1>1, <2>1, CreateCommitStep
  <2>2. CASE ~ CreateCommit(h)
    <3>1. FundingStep
      <4>1. CASE CreateRejected(h) \/ AmendRead(h) \/ AmendRefused(h) \/ AmendRejected(h)
                 \/ AssignUpdate(h) \/ RefundInsert(h) \/ WebhookUnmatched(h)
                 \/ WebhookLookup(h) \/ WebhookMatch(h) \/ WebhookOvertaken(h)
                 \/ WebhookReread(h)
        BY <4>1, UnchangedStep DEF CreateRejected, AmendRead, AmendRefused, AmendRejected,
           AssignUpdate, RefundInsert, WebhookUnmatched, WebhookLookup, WebhookMatch,
           WebhookOvertaken, WebhookReread, payment
      <4> QED
        BY <1>4, <2>2, <4>1, AmendStep, AdvanceStep, AssignStep, RefundStep, WebhookStep,
           FlagStep, SweepStep DEF Continue
    <3> QED
      BY <1>1, <1>4, <2>2, <3>1, OtherRequests, QuietStep
  <2> QED
    BY <2>1, <2>2
<1>5. ASSUME NEW h \in Handlers, BooksClosed(h) \/ Abort(h) PROVE FundingInv'
  BY <1>1, <1>5, UnchangedStep, OtherRequests, QuietStep DEF Abort, BooksClosed, payment
<1>6. CASE UNCHANGED vars
  BY <1>1, <1>6, UnchangedStep, QuietStep DEF vars, QuietRequests
<1> QED
  BY <1>2, <1>3, <1>4, <1>5, <1>6 DEF Next

LEMMA FundingHolds == Spec => []FundingInv
  BY InitFunding, StepFunding, PTL DEF Spec

\* No bank order gets into the kitchen before a payment attempt of it has been paid in
\* full, whatever handlers run in between the read and the commit of its transition.
THEOREM KitchenGateHolds == Spec => []KitchenGate
<1>1. FundingInv => KitchenGate
  BY DEF FundingInv
<1> QED
  BY <1>1, FundingHolds, PTL

\* The row of a bank order says "paid" only if it was paid.
THEOREM PaidMeansFundedHolds == Spec => []PaidMeansFunded
<1>1. FundingInv => PaidMeansFunded
  BY DEF FundingInv
<1> QED
  BY <1>1, FundingHolds, PTL

-----------------------------------------------------------------------------
(* The requests.                                                           *)

\* A step moves one request.
LEMMA OneMoves ==
  ASSUME TypeOK, [Next]_vars, NEW h \in Handlers, req'[h] # req[h]
  PROVE  /\ Arrive(h) \/ Continue(h) \/ BooksClosed(h) \/ Abort(h)
         /\ \A g \in Handlers : g # h => req'[g] = req[g]
<1>1. ~ World /\ ~ UNCHANGED vars
  BY DEF World, SendTransfer, Lapse, UpsertStock, ClosePeriod, vars
<1>2. PICK g \in Handlers : Arrive(g) \/ Continue(g) \/ BooksClosed(g) \/ Abort(g)
  BY <1>1 DEF Next
<1>3. \E r : req' = [req EXCEPT ![g] = r]
  <2>1. CASE Arrive(g)
    BY <2>1 DEF Arrive, CreateRead, AmendItems, AdvanceRead, AssignRead, RefundRead,
       WebhookReceive, SweepRead, Begin
  <2>2. CASE Continue(g)
    BY <2>2 DEF Continue, CreateCommit, CreateRejected, AmendRead, AmendRefused, AmendCommit,
       AmendRejected, AdvanceCommit, AssignUpdate, AssignCommit, RefundInsert, RefundCommit,
       WebhookUnmatched, WebhookLookup, WebhookMatch, WebhookCommit, WebhookOvertaken,
       WebhookReread, WebhookFlag, ExpireAttempt, Review, Goto, End
  <2>3. CASE BooksClosed(g) \/ Abort(g)
    BY <2>3 DEF Abort, BooksClosed, End
  <2> QED
    BY <1>2, <2>1, <2>2, <2>3
<1>4. g = h
  BY <1>3 DEF TypeOK
<1> QED
  BY <1>2, <1>3, <1>4 DEF TypeOK

\* A request that changed has come to its place by one of the steps that lead there.
LEMMA Arrivals ==
  ASSUME TypeOK, [Next]_vars, NEW h \in Handlers, req'[h] # req[h]
  PROVE  /\ req'[h].at = "create.commit" => CreateRead(h)
         /\ req'[h].at = "amend.read" => AmendItems(h)
         /\ req'[h].at = "amend.commit" => AmendRead(h)
         /\ req'[h].at = "advance.commit" => AdvanceRead(h)
         /\ req'[h].at \in {"assign.update", "assign.commit"} => AssignRead(h) \/ AssignUpdate(h)
         /\ req'[h].at \in {"refund.insert", "refund.commit"} => RefundRead(h) \/ RefundInsert(h)
         /\ req'[h].at = "webhook.lookup" => WebhookReceive(h)
         /\ req'[h].at = "webhook.match" => WebhookLookup(h)
         /\ req'[h].at = "webhook.commit" => WebhookMatch(h)
         /\ req'[h].at = "webhook.reread" => WebhookMatch(h) \/ WebhookOvertaken(h)
         /\ req'[h].at = "webhook.flag" => WebhookLookup(h) \/ WebhookReread(h)
         /\ req'[h].at = "sweep.expire" => SweepRead(h) \/ ExpireAttempt(h)
<1>1. req \in [Handlers -> Request]
  BY DEF TypeOK
<1>5. CASE End(h)
  BY <1>1, <1>5 DEF End, Idle
<1>6. ASSUME NEW kind, NEW r, Begin(h, kind, r) PROVE req'[h] = r
  BY <1>1, <1>6 DEF Begin
<1>7. CASE Arrive(h)
  <2>1. CASE CreateRead(h)
    BY <1>6, <2>1 DEF CreateRead
  <2>2. CASE AmendItems(h)
    BY <1>6, <2>2 DEF AmendItems
  <2>3. CASE AdvanceRead(h)
    BY <1>6, <2>3 DEF AdvanceRead
  <2>4. CASE AssignRead(h)
    BY <1>6, <2>4 DEF AssignRead
  <2>5. CASE RefundRead(h)
    <3>1. req'[h].at = "refund.insert"
      BY <1>6, <2>5 DEF RefundRead
    <3> QED
      BY <2>5, <3>1
  <2>6. CASE WebhookReceive(h)
    <3>1. req'[h].at = "webhook.lookup"
      BY <1>6, <2>6 DEF WebhookReceive
    <3> QED
      BY <2>6, <3>1
  <2>7. CASE SweepRead(h)
    <3>1. req'[h].at = "sweep.expire"
      BY <1>6, <2>7 DEF SweepRead
    <3> QED
      BY <2>7, <3>1
  <2> QED
    BY <1>7, <2>1, <2>2, <2>3, <2>4, <2>5, <2>6, <2>7 DEF Arrive
<1>8. CASE Continue(h) /\ ~ End(h)
  <2>1. req[h] \in Request
    BY <1>1
  <2>2. CASE AmendRead(h)
    <3>1. PICK qty : req' = [req EXCEPT ![h] =
            [at |-> "amend.commit", o |-> req[h].o, qty |-> qty, delta |-> qty - req[h].held,
             due |-> IF NeedsSupplement(orders[req[h].o], qty)
                     THEN qty - orders[req[h].o].total ELSE 0,
             seen |-> orders[req[h].o].updatedAt]]
      BY <2>2, Zenon DEF AmendRead
    <3>2. req'[h].at = "amend.commit"
      BY <1>1, <3>1
    <3> QED
      BY <2>2, <3>2
  <2>3. CASE AssignUpdate(h)
    BY <1>1, <1>8, <2>1, <2>3, RequestShape DEF AssignUpdate, AssignRequest, Goto
  <2>4. CASE RefundInsert(h)
    BY <1>1, <1>8, <2>1, <2>4, RequestShape DEF RefundInsert, RefundRequest
  <2>5. CASE WebhookLookup(h)
    BY <1>1, <2>1, <2>5, RequestShape DEF WebhookLookup, WebhookRequest, Review
  <2>6. CASE WebhookMatch(h)
    BY <1>1, <2>1, <2>6, RequestShape DEF WebhookMatch, CheckRequest
  <2>7. CASE WebhookOvertaken(h)
    BY <1>1, <2>7 DEF WebhookOvertaken
  <2>8. CASE WebhookReread(h)
    BY <1>1, <2>8 DEF WebhookReread, Review
  <2>9. CASE ExpireAttempt(h)
    <3>1. req[h] \in SweepRequest
      BY <2>1, <2>9, RequestShape DEF ExpireAttempt
    <3>2. PICK d \in req[h].due : req' = [req EXCEPT ![h].due = @ \ {d}]
      BY <1>8, <2>9 DEF ExpireAttempt
    <3>3. req'[h].at = "sweep.expire"
      BY <1>1, <3>1, <3>2 DEF SweepRequest
    <3> QED
      BY <2>9, <3>3
  <2> QED
    BY <1>8, <2>2, <2>3, <2>4, <2>5, <2>6, <2>7, <2>8, <2>9 DEF Continue, CreateCommit,
       CreateRejected, AmendRefused, AmendCommit, AmendRejected, AdvanceCommit, AssignCommit,
       RefundCommit, WebhookUnmatched, WebhookCommit, WebhookFlag
<1> QED
  BY <1>5, <1>7, <1>8, OneMoves DEF Abort, BooksClosed

-----------------------------------------------------------------------------
(***************************************************************************)
(* Money that came in is counted once, and a closed attempt takes none.    *)
(*                                                                         *)
(* Neither is inductive.  The batch of a webhook sums what is matched      *)
(* before it waits for the attempt's row, and writes the sum later; what   *)
(* makes the sum right when it is written is that a transfer is served by  *)
(* one request, that a transfer marked matched whose request still works   *)
(* belongs to an attempt that is closed for good, and that no sum holds a  *)
(* transfer another request is still working on.                           *)
(***************************************************************************)

AboutTransfer ==
  {"webhook.lookup", "webhook.match", "webhook.commit", "webhook.reread", "webhook.flag"}

AttemptsArePlaced ==
  \A o \in Orders, a \in Attempts : Exists(o, a) => orders[o].status # "none"

\* A transfer was sent to an attempt that was there, and attempts do not go.
TargetsExist ==
  \A t \in Transfers :
    transactions[t].state # "unsent" /\ transactions[t].o # Nowhere =>
      Exists(transactions[t].o, transactions[t].a)

OneRequestServes ==
  \A g, h \in Handlers :
    req[g].at \in AboutTransfer /\ req[h].at \in AboutTransfer /\ req[g].t = req[h].t => g = h

\* A transfer that is being worked on is not matched, unless its attempt closed.
Undecided(t, late) ==
  \/ transactions[t].state = "received"
  \/ late /\ transactions[t].state = "matched" /\ Target(t).status \notin TakesMoney

ServedAsRead ==
  \A h \in Handlers : req[h].at \in AboutTransfer =>
    /\ Undecided(req[h].t, req[h].at \in {"webhook.reread", "webhook.flag"})
    /\ req[h].at # "webhook.lookup" => transactions[req[h].t].o # Nowhere

\* It is counted nowhere yet: in no attempt and in no other request's sum.
NotYetCounted ==
  \A h \in Handlers : req[h].at \in AboutTransfer =>
    /\ \A o \in Orders, a \in Attempts : req[h].t \notin attempts[o][a].credited
    /\ \A g \in Handlers : req[g].at = "webhook.commit" /\ g # h => req[h].t \notin req[g].sum

SumsAreMatched ==
  \A h \in Handlers : req[h].at = "webhook.commit" =>
    \A t \in req[h].sum :
      \/ t = req[h].t
      \/ t \in Matched(transactions[req[h].t].o, transactions[req[h].t].a)

\* A refund is of an attempt that is there.
RefundTargetsExist ==
  \A h \in Handlers : req[h].at \in {"refund.insert", "refund.commit"} =>
    Exists(req[h].o, req[h].a)

MoneyInv ==
  /\ FundingInv /\ AttemptsArePlaced /\ TargetsExist /\ OneRequestServes
  /\ ServedAsRead /\ NotYetCounted /\ SumsAreMatched /\ RefundTargetsExist /\ NoDoubleCredit

\* What every step does to the attempts: they stay, belong to an order that is there,
\* and take no money once they are closed.
AttemptStep ==
  \A o \in Orders, a \in Attempts :
    /\ Exists(o, a) => attempts'[o][a].status # "none"
    /\ attempts'[o][a].status # "none" => Exists(o, a) \/ orders'[o].status # "none"
    /\ Exists(o, a) /\ attempts[o][a].status \notin TakesMoney =>
         /\ attempts'[o][a].status \notin TakesMoney
         /\ attempts'[o][a].credited = attempts[o][a].credited

\* Every step but the webhook's commit.
NothingCredited ==
  \A o \in Orders, a \in Attempts : attempts'[o][a].credited \subseteq attempts[o][a].credited

PlacedStay == \A o \in Orders : orders[o].status # "none" => orders'[o].status # "none"

-----------------------------------------------------------------------------

\* FundingStep of every step but the insertion of an order.
LEMMA OtherSteps ==
  ASSUME FundingInv, [Next]_vars, \A h \in Handlers : ~ CreateCommit(h)
  PROVE  FundingStep
<1>1. CASE World
  BY <1>1, UnchangedStep, LapseStep DEF World, SendTransfer, UpsertStock, ClosePeriod, payment
<1>2. ASSUME NEW h \in Handlers, Arrive(h) PROVE FundingStep
  BY <1>2, UnchangedStep DEF Arrive, CreateRead, AdvanceRead, AmendItems, AssignRead,
     RefundRead, WebhookReceive, SweepRead, payment
<1>3. ASSUME NEW h \in Handlers, Continue(h) PROVE FundingStep
  <2>1. CASE CreateRejected(h) \/ AmendRead(h) \/ AmendRefused(h) \/ AmendRejected(h)
             \/ AssignUpdate(h) \/ RefundInsert(h) \/ WebhookUnmatched(h)
             \/ WebhookLookup(h) \/ WebhookMatch(h) \/ WebhookOvertaken(h)
             \/ WebhookReread(h)
    BY <2>1, UnchangedStep DEF CreateRejected, AmendRead, AmendRefused, AmendRejected,
       AssignUpdate, RefundInsert, WebhookUnmatched, WebhookLookup, WebhookMatch,
       WebhookOvertaken, WebhookReread, payment
  <2> QED
    BY <1>3, <2>1, AmendStep, AdvanceStep, AssignStep, RefundStep, WebhookStep, FlagStep,
       SweepStep DEF Continue
<1>4. ASSUME NEW h \in Handlers, BooksClosed(h) \/ Abort(h) PROVE FundingStep
  BY <1>4, UnchangedStep DEF Abort, BooksClosed, payment
<1>5. CASE UNCHANGED vars
  BY <1>5, UnchangedStep DEF vars
<1> QED
  BY <1>1, <1>2, <1>3, <1>4, <1>5 DEF Next

LEMMA OrdersStay ==
  ASSUME FundingInv, [Next]_vars
  PROVE  PlacedStay
<1>1. ASSUME NEW h \in Handlers, CreateCommit(h) PROVE PlacedStay
  <2>1. PICK o, now : orders' = [orders EXCEPT ![o] = NewOrder(req[h], now)]
    BY <1>1 DEF CreateCommit
  <2>2. NewOrder(req[h], now).status = "new"
    BY DEF NewOrder
  <2> QED
    BY <2>1, <2>2 DEF PlacedStay, FundingInv, TypeOK
<1>2. CASE \A h \in Handlers : ~ CreateCommit(h)
  BY <1>2, OtherSteps DEF FundingStep, PlacedStay
<1> QED
  BY <1>1, <1>2

-----------------------------------------------------------------------------
(* The steps on attempts.                                                  *)

LEMMA SameAttempts ==
  ASSUME UNCHANGED attempts
  PROVE  AttemptStep /\ NothingCredited
  BY DEF AttemptStep, NothingCredited, Exists

LEMMA LapseAttempt ==
  ASSUME MoneyInv, NEW o \in Orders, NEW a \in Attempts, Lapse(o, a)
  PROVE  AttemptStep /\ NothingCredited
<1>1. ASSUME NEW p \in Orders, NEW b \in Attempts
      PROVE  /\ attempts'[p][b].status = attempts[p][b].status
             /\ attempts'[p][b].credited = attempts[p][b].credited
  BY DEF MoneyInv, FundingInv, TypeOK, AttemptRow, Lapse
<1> QED
  BY <1>1 DEF AttemptStep, NothingCredited, Exists

LEMMA CreateAttempt ==
  ASSUME MoneyInv, NEW h \in Handlers, CreateCommit(h)
  PROVE  AttemptStep /\ NothingCredited
<1> DEFINE r == req[h]
<1>1. r.o \in Orders /\ orders[r.o].status = "none"
  BY RequestShape DEF MoneyInv, FundingInv, TypeOK, CreateCommit, CreateRequest, CreatesAreNew
<1>2. ASSUME NEW b \in Attempts PROVE ~ Exists(r.o, b)
  BY <1>1 DEF MoneyInv, AttemptsArePlaced
<1>3. PICK now : orders' = [orders EXCEPT ![r.o] = NewOrder(r, now)]
  BY DEF CreateCommit
<1>4. orders'[r.o].status = "new"
  BY <1>1, <1>3 DEF MoneyInv, FundingInv, TypeOK, NewOrder
<1>5. ASSUME NEW p \in Orders, NEW b \in Attempts
      PROVE  \/ p = r.o /\ attempts'[p][b].credited = {}
             \/ attempts'[p][b] = attempts[p][b]
  BY <1>1 DEF MoneyInv, FundingInv, TypeOK, CreateCommit, FirstAttempt, NoAttempt
<1> QED
  BY <1>2, <1>4, <1>5 DEF AttemptStep, NothingCredited, Exists

LEMMA AmendAttempt ==
  ASSUME MoneyInv, NEW h \in Handlers, AmendCommit(h), PlacedStay
  PROVE  AttemptStep /\ NothingCredited
<1> DEFINE r == req[h]
<1>1. r.o \in Orders
  BY RequestShape DEF MoneyInv, FundingInv, TypeOK, AmendCommit, AmendRequest
<1>2. orders'[r.o].status # "none"
  BY <1>1 DEF AmendCommit, AmendWins, Amendable, PlacedStay
<1>3. ASSUME NEW p \in Orders, NEW b \in Attempts
      PROVE  \/ /\ attempts'[p][b].status = attempts[p][b].status
                /\ attempts'[p][b].credited = attempts[p][b].credited
             \/ /\ p = r.o /\ ~ Exists(p, b)
                /\ attempts'[p][b].status # "none" /\ attempts'[p][b].credited = {}
  <2>1. attempts[p][b] \in AttemptRow
    BY DEF MoneyInv, FundingInv, TypeOK
  <2>2. CASE p = r.o
    <3>1. attempts'[p][b] = AmendedAttempts(r)[b]
      BY <1>1, <2>2 DEF AmendCommit, MoneyInv, FundingInv, TypeOK
    <3>2. CASE r.due > 0 /\ Following(p, b)
      BY <2>1, <2>2, <3>1, <3>2 DEF AmendedAttempts, Following, FirstAttempt, NoAttempt
    <3>3. CASE ~ (r.due > 0 /\ Following(p, b))
      BY <2>1, <2>2, <3>1, <3>3 DEF AmendedAttempts, AttemptRow
    <3> QED
      BY <3>2, <3>3
  <2>3. CASE p # r.o
    BY <2>1, <2>3 DEF AmendCommit, MoneyInv, FundingInv, TypeOK
  <2> QED
    BY <2>2, <2>3
<1> QED
  BY <1>2, <1>3 DEF AttemptStep, NothingCredited, Exists

\* Rows whose status alone changes, to one that is not open, or from one that was.
LEMMA StatusStep ==
  ASSUME \A p \in Orders, b \in Attempts :
           /\ attempts'[p][b].credited = attempts[p][b].credited
           /\ \/ attempts'[p][b].status = attempts[p][b].status
              \/ /\ Exists(p, b) /\ attempts'[p][b].status # "none"
                 /\ \/ attempts'[p][b].status \notin TakesMoney
                    \/ attempts[p][b].status \in TakesMoney
  PROVE  AttemptStep /\ NothingCredited
  BY DEF AttemptStep, NothingCredited, Exists

LEMMA AdvanceAttempt ==
  ASSUME MoneyInv, NEW h \in Handlers, AdvanceCommit(h)
  PROVE  AttemptStep /\ NothingCredited
<1> DEFINE r == req[h]
<1>1. r.o \in Orders
  BY RequestShape DEF MoneyInv, FundingInv, TypeOK, AdvanceCommit, AdvanceRequest
<1>2. ASSUME NEW p \in Orders, NEW b \in Attempts
      PROVE  /\ attempts'[p][b].credited = attempts[p][b].credited
             /\ \/ attempts'[p][b].status = attempts[p][b].status
                \/ /\ Exists(p, b) /\ attempts'[p][b].status # "none"
                   /\ \/ attempts'[p][b].status \notin TakesMoney
                      \/ attempts[p][b].status \in TakesMoney
  <2>1. attempts[p][b] \in AttemptRow
    BY DEF MoneyInv, FundingInv, TypeOK
  <2>2. CASE p = r.o
    <3>1. attempts'[p][b] = AdvancedAttempt(r, attempts[p][b])
      BY <1>1, <2>2 DEF AdvanceCommit, MoneyInv, FundingInv, TypeOK
    <3> QED
      BY <2>1, <3>1 DEF AdvancedAttempt, AttemptRow, Exists, TakesMoney
  <2>3. CASE p # r.o
    BY <2>3 DEF AdvanceCommit, MoneyInv, FundingInv, TypeOK
  <2> QED
    BY <2>2, <2>3
<1> QED
  BY <1>2, StatusStep

LEMMA RefundAttempt ==
  ASSUME MoneyInv, NEW h \in Handlers, RefundCommit(h)
  PROVE  AttemptStep /\ NothingCredited
<1> DEFINE r == req[h]
<1>1. r.o \in Orders /\ r.a \in Attempts
  BY RequestShape DEF MoneyInv, FundingInv, TypeOK, RefundCommit, RefundRequest
<1>2. PICK known :
        attempts' = [attempts EXCEPT ![r.o][r.a] = RefundedAttempt(r, known)]
  BY DEF RefundCommit
<1>3. Exists(r.o, r.a)
  BY DEF MoneyInv, RefundTargetsExist, RefundCommit
<1>4. ASSUME NEW p \in Orders, NEW b \in Attempts
      PROVE  /\ attempts'[p][b].credited = attempts[p][b].credited
             /\ \/ attempts'[p][b].status = attempts[p][b].status
                \/ Exists(p, b) /\ attempts'[p][b].status = "refunded"
  <2>1. attempts[p][b] \in AttemptRow
    BY DEF MoneyInv, FundingInv, TypeOK
  <2>2. CASE p = r.o /\ b = r.a
    <3>1. attempts'[p][b] = RefundedAttempt(r, known)
      BY <1>1, <1>2, <2>2 DEF MoneyInv, FundingInv, TypeOK
    <3> QED
      BY <1>3, <2>1, <2>2, <3>1 DEF RefundedAttempt, AttemptRow
  <2>3. CASE ~ (p = r.o /\ b = r.a)
    BY <1>2, <2>3 DEF MoneyInv, FundingInv, TypeOK
  <2> QED
    BY <2>2, <2>3
<1> QED
  BY <1>4, StatusStep DEF TakesMoney

\* Closing an attempt that is open.
LEMMA ExpiryAttempt ==
  ASSUME MoneyInv, NEW o, NEW a,
         \/ /\ attempts[o][a].status \in AwaitsMoney
            /\ attempts' = [attempts EXCEPT ![o][a].status = "expired"]
         \/ UNCHANGED attempts
  PROVE  AttemptStep /\ NothingCredited
<1>1. ASSUME NEW p \in Orders, NEW b \in Attempts
      PROVE  /\ attempts'[p][b].credited = attempts[p][b].credited
             /\ \/ attempts'[p][b].status = attempts[p][b].status
                \/ Exists(p, b) /\ attempts'[p][b].status = "expired"
  <2>1. attempts[p][b] \in AttemptRow
    BY DEF MoneyInv, FundingInv, TypeOK
  <2>2. CASE p = o /\ b = a
    BY <2>1, <2>2 DEF MoneyInv, FundingInv, TypeOK, AttemptRow, Exists, AwaitsMoney
  <2>3. CASE ~ (p = o /\ b = a)
    BY <2>3 DEF MoneyInv, FundingInv, TypeOK
  <2> QED
    BY <2>2, <2>3
<1> QED
  BY <1>1, StatusStep DEF TakesMoney

LEMMA FlagAttempt ==
  ASSUME MoneyInv, NEW h \in Handlers, WebhookFlag(h)
  PROVE  AttemptStep /\ NothingCredited
<1> DEFINE o == transactions[req[h].t].o
           a == transactions[req[h].t].a
<1>1. \/ /\ attempts[o][a].status \in AwaitsMoney
         /\ attempts' = [attempts EXCEPT ![o][a].status = "expired"]
      \/ UNCHANGED attempts
  BY DEF WebhookFlag
<1> QED
  BY <1>1, ExpiryAttempt

LEMMA SweepAttempt ==
  ASSUME MoneyInv, NEW h \in Handlers, ExpireAttempt(h)
  PROVE  AttemptStep /\ NothingCredited
<1> DEFINE hit(d) == attempts[d.o][d.a].status \in AwaitsMoney
<1>1. PICK d \in req[h].due :
        attempts' = IF hit(d) THEN [attempts EXCEPT ![d.o][d.a].status = "expired"]
                    ELSE attempts
  BY DEF ExpireAttempt, SweptOrder, Hit
<1>2. \/ /\ attempts[d.o][d.a].status \in AwaitsMoney
         /\ attempts' = [attempts EXCEPT ![d.o][d.a].status = "expired"]
      \/ UNCHANGED attempts
  BY <1>1
<1> QED
  BY <1>2, ExpiryAttempt

\* The webhook's commit writes the sum it took to the attempt its transfer was sent to.
LEMMA WebhookAttempt ==
  ASSUME MoneyInv, NEW h \in Handlers, WebhookCommit(h)
  PROVE  /\ AttemptStep
         /\ \A p \in Orders, b \in Attempts :
              attempts'[p][b].credited =
                IF p = transactions[req[h].t].o /\ b = transactions[req[h].t].a
                THEN req[h].sum ELSE attempts[p][b].credited
<1> DEFINE r == req[h]
<1>1. PICK o, a, att : /\ o = transactions[r.t].o
                       /\ a = transactions[r.t].a
                       /\ att = Credit(attempts[o][a], r.sum)
  OBVIOUS
<1>2. attempts' = [attempts EXCEPT ![o][a] = att] /\ attempts[o][a].status \in TakesMoney
  BY <1>1 DEF WebhookCommit, Creditable
<1>3. ASSUME NEW p \in Orders, NEW b \in Attempts
      PROVE  IF p = o /\ b = a
             THEN /\ attempts'[p][b].status \in TakesMoney
                  /\ attempts'[p][b].credited = r.sum
                  /\ attempts[p][b].status \in TakesMoney
             ELSE attempts'[p][b] = attempts[p][b]
  <2>1. attempts[p][b] \in AttemptRow
    BY DEF MoneyInv, FundingInv, TypeOK
  <2>2. CASE p = o /\ b = a
    <3> DEFINE status == StatusFor(Total(r.sum), attempts[p][b].expected)
    <3>1. att = [attempts[p][b] EXCEPT !.credited = r.sum, !.status = status,
                   !.paidAt = @ \/ status \in {"paid", "overpaid"}]
      BY <1>1, <2>2 DEF Credit
    <3>2. status \in TakesMoney
      BY DEF StatusFor, TakesMoney
    <3>3. attempts'[p][b] = att
      BY <1>2, <2>2 DEF MoneyInv, FundingInv, TypeOK
    <3> HIDE DEF status
    <3>4. att.status = status /\ att.credited = r.sum
      BY <2>1, <3>1 DEF AttemptRow
    <3> QED
      BY <1>2, <2>2, <3>2, <3>3, <3>4
  <2>3. CASE ~ (p = o /\ b = a)
    BY <1>2, <2>3 DEF MoneyInv, FundingInv, TypeOK
  <2> QED
    BY <2>2, <2>3
<1>4. AttemptStep
  BY <1>3 DEF AttemptStep, Exists, TakesMoney
<1>5. ASSUME NEW p \in Orders, NEW b \in Attempts
      PROVE  attempts'[p][b].credited = IF p = o /\ b = a THEN r.sum ELSE attempts[p][b].credited
  BY <1>3
<1> QED
  BY <1>1, <1>4, <1>5

LEMMA AttemptsStep ==
  ASSUME MoneyInv, [Next]_vars
  PROVE  /\ AttemptStep
         /\ NothingCredited \/ \E h \in Handlers : WebhookCommit(h)
<1>1. CASE World
  BY <1>1, LapseAttempt, SameAttempts DEF World, SendTransfer, UpsertStock, ClosePeriod, payment
<1>2. ASSUME NEW h \in Handlers, Arrive(h) PROVE AttemptStep /\ NothingCredited
  BY <1>2, SameAttempts DEF Arrive, CreateRead, AdvanceRead, AmendItems, AssignRead,
     RefundRead, WebhookReceive, SweepRead, payment
<1>3. ASSUME NEW h \in Handlers, Continue(h)
      PROVE  AttemptStep /\ (NothingCredited \/ WebhookCommit(h))
  <2>1. CASE CreateRejected(h) \/ AmendRead(h) \/ AmendRefused(h) \/ AmendRejected(h)
             \/ AssignUpdate(h) \/ AssignCommit(h) \/ RefundInsert(h) \/ WebhookUnmatched(h)
             \/ WebhookLookup(h) \/ WebhookMatch(h) \/ WebhookOvertaken(h)
             \/ WebhookReread(h)
    BY <2>1, SameAttempts DEF CreateRejected, AmendRead, AmendRefused, AmendRejected,
       AssignUpdate, AssignCommit, RefundInsert, WebhookUnmatched, WebhookLookup, WebhookMatch,
       WebhookOvertaken, WebhookReread, payment
  <2>2. PlacedStay
    BY OrdersStay DEF MoneyInv
  <2> QED
    BY <1>3, <2>1, <2>2, CreateAttempt, AmendAttempt, AdvanceAttempt, RefundAttempt, FlagAttempt,
       SweepAttempt, WebhookAttempt DEF Continue
<1>4. ASSUME NEW h \in Handlers, BooksClosed(h) \/ Abort(h) PROVE AttemptStep /\ NothingCredited
  BY <1>4, SameAttempts DEF Abort, BooksClosed, payment
<1>5. CASE UNCHANGED vars
  BY <1>5, SameAttempts DEF vars
<1> QED
  BY <1>1, <1>2, <1>3, <1>4, <1>5 DEF Next

-----------------------------------------------------------------------------
(* The steps on transfers.                                                 *)

\* The row of a transfer keeps its target once it is sent, and what changes its state
\* is the arrival of its webhook or the request that serves it.
LEMMA Transacted ==
  ASSUME TypeOK, [Next]_vars, NEW t \in Transfers, transactions'[t] # transactions[t]
  PROVE  \/ SendTransfer(t)
         \/ /\ transactions'[t].o = transactions[t].o /\ transactions'[t].a = transactions[t].a
            /\ \E h \in Handlers :
                 \/ /\ WebhookReceive(h)
                    /\ transactions[t].state = "sent" /\ transactions'[t].state = "received"
                 \/ /\ req[h].t = t
                    /\ \/ WebhookUnmatched(h) /\ transactions'[t].state = "unmatched"
                       \/ WebhookCommit(h) /\ transactions'[t].state = "matched"
                       \/ WebhookOvertaken(h) /\ transactions'[t].state = "matched"
                       \/ /\ WebhookFlag(h)
                          /\ transactions'[t].state \in {"late_payment", "closed_payment"}
<1>1. transactions[t] \in TransactionRow /\ transactions \in [Transfers -> TransactionRow]
  BY DEF TypeOK
<1>2. ASSUME NEW u, NEW s, transactions' = [transactions EXCEPT ![u].state = s]
      PROVE  /\ u = t
             /\ transactions'[t].o = transactions[t].o /\ transactions'[t].a = transactions[t].a
             /\ transactions'[t].state = s
  BY <1>1, <1>2 DEF TransactionRow
<1>3. CASE World
  <2>1. PICK u \in Transfers : SendTransfer(u)
    BY <1>3 DEF World, Lapse, UpsertStock, ClosePeriod, payment
  <2>2. \E row : transactions' = [transactions EXCEPT ![u] = row]
    BY <2>1 DEF SendTransfer
  <2>3. u = t
    BY <1>1, <2>2
  <2> QED
    BY <2>1, <2>3
<1>4. ASSUME NEW h \in Handlers, Arrive(h)
      PROVE  /\ transactions'[t].o = transactions[t].o /\ transactions'[t].a = transactions[t].a
             /\ WebhookReceive(h)
             /\ transactions[t].state = "sent" /\ transactions'[t].state = "received"
  <2>1. WebhookReceive(h)
    BY <1>4 DEF Arrive, CreateRead, AdvanceRead, AmendItems, AssignRead, RefundRead,
       SweepRead, payment
  <2>2. PICK u \in Transfers :
          Unseen(u) /\ transactions' = [transactions EXCEPT ![u].state = "received"]
    BY <2>1 DEF WebhookReceive
  <2> QED
    BY <1>2, <2>1, <2>2 DEF Unseen
<1>5. ASSUME NEW h \in Handlers, Continue(h)
      PROVE  /\ transactions'[t].o = transactions[t].o /\ transactions'[t].a = transactions[t].a
             /\ req[h].t = t
             /\ \/ WebhookUnmatched(h) /\ transactions'[t].state = "unmatched"
                \/ WebhookCommit(h) /\ transactions'[t].state = "matched"
                \/ WebhookOvertaken(h) /\ transactions'[t].state = "matched"
                \/ /\ WebhookFlag(h)
                   /\ transactions'[t].state \in {"late_payment", "closed_payment"}
  <2>1. WebhookUnmatched(h) \/ WebhookCommit(h) \/ WebhookOvertaken(h) \/ WebhookFlag(h)
    BY <1>5 DEF Continue, CreateCommit, CreateRejected, AmendRead, AmendRefused, AmendCommit,
       AmendRejected, AdvanceCommit, AssignUpdate, AssignCommit, RefundInsert, RefundCommit,
       WebhookLookup, WebhookMatch, WebhookReread, ExpireAttempt, payment
  <2>2. CASE WebhookUnmatched(h)
    <3>1. transactions' = [transactions EXCEPT ![req[h].t].state = "unmatched"]
      BY <2>2 DEF WebhookUnmatched
    <3> QED
      BY <1>2, <2>2, <3>1
  <2>3. CASE WebhookCommit(h)
    <3>1. transactions' = [transactions EXCEPT ![req[h].t].state = "matched"]
      BY <2>3 DEF WebhookCommit
    <3> QED
      BY <1>2, <2>3, <3>1
  <2>4. CASE WebhookOvertaken(h)
    <3>1. transactions' = [transactions EXCEPT ![req[h].t].state = "matched"]
      BY <2>4 DEF WebhookOvertaken
    <3> QED
      BY <1>2, <2>4, <3>1
  <2>5. CASE WebhookFlag(h)
    <3>1. transactions' = [transactions EXCEPT ![req[h].t].state = req[h].verdict]
      BY <2>5 DEF WebhookFlag
    <3>2. req[h].verdict \in {"late_payment", "closed_payment"}
      BY <2>5, RequestShape DEF TypeOK, WebhookFlag, FlagRequest
    <3> QED
      BY <1>2, <2>5, <3>1, <3>2
  <2> QED
    BY <2>1, <2>2, <2>3, <2>4, <2>5
<1>6. ASSUME NEW h \in Handlers, BooksClosed(h) \/ Abort(h) PROVE FALSE
  BY <1>6 DEF Abort, BooksClosed, payment
<1>7. ~ UNCHANGED vars
  BY DEF vars
<1> QED
  BY <1>3, <1>4, <1>5, <1>6, <1>7 DEF Next

\* A request about a transfer goes on with that transfer, or has just received it.
LEMMA SameTransfer ==
  ASSUME TypeOK, [Next]_vars, NEW h \in Handlers, req'[h].at \in AboutTransfer
  PROVE  \/ /\ req[h].at \in AboutTransfer /\ req'[h].t = req[h].t
            /\ req[h].at = "webhook.lookup" /\ req'[h].at # "webhook.lookup" =>
                 transactions[req[h].t].o # Nowhere
            /\ req[h].at \in {"webhook.reread", "webhook.flag"} =>
                 req'[h].at \in {"webhook.reread", "webhook.flag"}
         \/ /\ WebhookReceive(h) /\ req'[h].at = "webhook.lookup"
            /\ transactions[req'[h].t].state = "sent"
            /\ transactions'[req'[h].t].state = "received"
<1>1. req \in [Handlers -> Request] /\ req[h] \in Request
  BY DEF TypeOK
<1>2. CASE req'[h] = req[h]
  BY <1>2
<1>3. CASE req'[h] # req[h]
  <2>1. CASE WebhookReceive(h)
    <3>1. PICK t \in Transfers :
            /\ Unseen(t) /\ transactions' = [transactions EXCEPT ![t].state = "received"]
            /\ Begin(h, "webhook", [at |-> "webhook.lookup", t |-> t])
      BY <2>1 DEF WebhookReceive
    <3>2. req'[h].t = t /\ req'[h].at = "webhook.lookup"
      BY <1>1, <3>1 DEF Begin
    <3>3. transactions'[t].state = "received"
      BY <3>1 DEF TypeOK, TransactionRow
    <3> QED
      BY <2>1, <3>1, <3>2, <3>3 DEF Unseen
  <2>2. CASE WebhookLookup(h)
    <3>1. req'[h].t = req[h].t /\ req'[h].at \in {"webhook.match", "webhook.flag"}
      BY <1>1, <2>2, RequestShape DEF WebhookLookup, WebhookRequest, Review
    <3> QED
      BY <2>2, <3>1 DEF WebhookLookup, AboutTransfer
  <2>3. CASE WebhookMatch(h)
    <3>1. req'[h].t = req[h].t
      BY <1>1, <2>3, RequestShape DEF WebhookMatch, CheckRequest
    <3> QED
      BY <2>3, <3>1 DEF WebhookMatch, AboutTransfer
  <2>4. CASE WebhookOvertaken(h)
    BY <1>1, <2>4 DEF WebhookOvertaken, AboutTransfer
  <2>5. CASE WebhookReread(h)
    <3>1. req'[h].t = req[h].t /\ req'[h].at = "webhook.flag"
      BY <1>1, <2>5 DEF WebhookReread, Review
    <3> QED
      BY <2>5, <3>1 DEF WebhookReread, AboutTransfer
  <2> QED
    BY <1>3, <2>1, <2>2, <2>3, <2>4, <2>5, Arrivals DEF AboutTransfer
<1> QED
  BY <1>2, <1>3

\* A transfer that was sent keeps its target.
LEMMA SentStays ==
  ASSUME TypeOK, [Next]_vars, NEW t \in Transfers, transactions[t].state # "unsent"
  PROVE  /\ transactions'[t].o = transactions[t].o /\ transactions'[t].a = transactions[t].a
         /\ transactions'[t].state # "unsent"
<1>1. ~ SendTransfer(t)
  BY DEF SendTransfer
<1> QED
  BY <1>1, Transacted

\* What a request serves was read as Undecided says, so it is not counted.
LEMMA ServedTransfer ==
  ASSUME MoneyInv, NEW h \in Handlers, req[h].at \in AboutTransfer
  PROVE  /\ req[h].t \in Transfers
         /\ transactions[req[h].t].state \in {"received", "matched"}
BY RequestShape DEF MoneyInv, FundingInv, TypeOK, AboutTransfer, WebhookRequest, CheckRequest,
   MatchRequest, FlagRequest, ServedAsRead, Undecided

LEMMA TargetsStep ==
  ASSUME MoneyInv, [Next]_vars, AttemptStep, PlacedStay
  PROVE  AttemptsArePlaced' /\ TargetsExist'
<1>1. AttemptsArePlaced'
  BY DEF MoneyInv, AttemptsArePlaced, AttemptStep, PlacedStay, Exists
<1>2. TargetsExist'
  <2> SUFFICES ASSUME NEW t \in Transfers,
                      transactions'[t].state # "unsent", transactions'[t].o # Nowhere
               PROVE  attempts'[transactions'[t].o][transactions'[t].a].status # "none"
    BY DEF TargetsExist, Exists
  <2>1. transactions[t] \in TransactionRow
    BY DEF MoneyInv, FundingInv, TypeOK
  <2>2. CASE transactions[t].state # "unsent"
    <3>1. transactions'[t].o = transactions[t].o /\ transactions'[t].a = transactions[t].a
      BY <2>2, SentStays DEF MoneyInv, FundingInv
    <3>2. transactions[t].o \in Orders /\ transactions[t].a \in Attempts
      BY <2>1, <3>1 DEF TransactionRow
    <3> QED
      BY <2>2, <3>1, <3>2 DEF MoneyInv, TargetsExist, AttemptStep
  <2>3. CASE transactions[t].state = "unsent"
    <3>1. SendTransfer(t)
      <4>1. ASSUME NEW h \in Handlers, req[h].t = t,
                   WebhookUnmatched(h) \/ WebhookCommit(h) \/ WebhookOvertaken(h) \/ WebhookFlag(h)
            PROVE  FALSE
        BY <2>3, <4>1, ServedTransfer DEF WebhookUnmatched, WebhookCommit, WebhookOvertaken,
           WebhookFlag, AboutTransfer
      <4> QED
        BY <2>3, <4>1, Transacted DEF MoneyInv, FundingInv
    <3>2. PICK row : /\ transactions' = [transactions EXCEPT ![t] = row]
                     /\ row.o # Nowhere => row.o \in Orders /\ row.a \in Attempts /\ Exists(row.o, row.a)
      <4> DEFINE sent(o, a, n) == [state |-> "sent", o |-> o, a |-> a, amount |-> n,
                                   afterExpiry |-> attempts[o][a].lapsed]
                 stray(n) == [Unsent EXCEPT !.state = "sent", !.amount = n]
      <4>1. PICK n \in 1 .. MaxQty :
              \/ \E o \in Orders, a \in Attempts :
                   Exists(o, a) /\ transactions' = [transactions EXCEPT ![t] = sent(o, a, n)]
              \/ transactions' = [transactions EXCEPT ![t] = stray(n)]
        BY <3>1 DEF SendTransfer
      <4>2. stray(n).o = Nowhere
        BY DEF Unsent
      <4>3. \A o \in Orders, a \in Attempts : sent(o, a, n).o = o /\ sent(o, a, n).a = a
        OBVIOUS
      <4> HIDE DEF sent, stray
      <4> QED
        BY <4>1, <4>2, <4>3
    <3>3. transactions'[t] = row /\ attempts' = attempts
      BY <3>1, <3>2 DEF MoneyInv, FundingInv, TypeOK, SendTransfer
    <3> QED
      BY <3>2, <3>3 DEF Exists
  <2> QED
    BY <2>2, <2>3
<1> QED
  BY <1>1, <1>2

LEMMA OneServesStep ==
  ASSUME MoneyInv, [Next]_vars
  PROVE  OneRequestServes'
<1> SUFFICES ASSUME NEW g \in Handlers, NEW h \in Handlers,
                    req'[g].at \in AboutTransfer, req'[h].at \in AboutTransfer,
                    req'[g].t = req'[h].t, g # h
             PROVE  FALSE
  BY DEF OneRequestServes
<1>1. TypeOK
  BY DEF MoneyInv, FundingInv
<1>2. req'[g] = req[g] \/ req'[h] = req[h]
  BY <1>1, OneMoves
<1>3. CASE req[g].at \in AboutTransfer /\ req'[g].t = req[g].t
           /\ req[h].at \in AboutTransfer /\ req'[h].t = req[h].t
  BY <1>3 DEF MoneyInv, OneRequestServes
<1>4. CASE req[g].at \in AboutTransfer /\ req'[g].t = req[g].t
           /\ transactions[req'[h].t].state = "sent"
  BY <1>4, ServedTransfer
<1>5. CASE req[h].at \in AboutTransfer /\ req'[h].t = req[h].t
           /\ transactions[req'[g].t].state = "sent"
  BY <1>5, ServedTransfer
<1> QED
  BY <1>1, <1>2, <1>3, <1>4, <1>5, SameTransfer

\* The state of a transfer that a request goes on serving changes only when the request
\* finds its attempt closed.
LEMMA ServedStays ==
  ASSUME MoneyInv, [Next]_vars, NEW h \in Handlers,
         req[h].at \in AboutTransfer, req'[h].at \in AboutTransfer
  PROVE  /\ req'[h].t = req[h].t
         /\ \/ transactions'[req[h].t] = transactions[req[h].t]
            \/ WebhookOvertaken(h) /\ transactions'[req[h].t].state = "matched"
<1> DEFINE t == req[h].t
<1>1. TypeOK /\ t \in Transfers /\ transactions[t].state \in {"received", "matched"}
  BY ServedTransfer DEF MoneyInv, FundingInv
<1>2. req'[h].t = t
  <2>1. CASE req'[h] = req[h]
    BY <2>1
  <2>2. CASE ~ WebhookReceive(h)
    BY <1>1, <2>2, SameTransfer
  <2>3. CASE WebhookReceive(h)
    BY <2>3 DEF WebhookReceive, Begin, Idle, AboutTransfer
  <2> QED
    BY <2>1, <2>2, <2>3
<1>3. CASE transactions'[t] # transactions[t]
  <2>1. PICK g \in Handlers :
          /\ req[g].t = t
          /\ \/ WebhookUnmatched(g)
             \/ WebhookCommit(g)
             \/ WebhookOvertaken(g) /\ transactions'[t].state = "matched"
             \/ WebhookFlag(g)
    BY <1>1, <1>3, Transacted DEF SendTransfer
  <2>2. g = h
    BY <2>1 DEF MoneyInv, OneRequestServes, WebhookUnmatched, WebhookCommit, WebhookOvertaken,
       WebhookFlag, AboutTransfer
  <2>3. ~ End(h)
    BY <1>1 DEF End, Idle, TypeOK, AboutTransfer
  <2> QED
    BY <1>2, <2>1, <2>2, <2>3 DEF WebhookUnmatched, WebhookCommit, WebhookFlag
<1> QED
  BY <1>2, <1>3

LEMMA ServedStep ==
  ASSUME MoneyInv, [Next]_vars, AttemptStep, TargetsExist'
  PROVE  ServedAsRead'
<1> SUFFICES ASSUME NEW h \in Handlers, req'[h].at \in AboutTransfer
             PROVE  LET t == req'[h].t
                    IN  /\ \/ transactions'[t].state = "received"
                           \/ /\ req'[h].at \in {"webhook.reread", "webhook.flag"}
                              /\ transactions'[t].state = "matched"
                              /\ attempts'[transactions'[t].o][transactions'[t].a].status
                                   \notin TakesMoney
                        /\ req'[h].at # "webhook.lookup" => transactions'[t].o # Nowhere
  BY DEF ServedAsRead, Undecided, Target
<1>1. TypeOK
  BY DEF MoneyInv, FundingInv
<1>2. CASE req[h].at \notin AboutTransfer
  BY <1>1, <1>2, SameTransfer
<1>3. CASE req[h].at \in AboutTransfer
  <2> DEFINE t == req[h].t
  <2>1. req'[h].t = t
    BY <1>3, ServedStays
  <2>2. t \in Transfers /\ transactions[t].state # "unsent" /\ transactions[t] \in TransactionRow
    BY <1>1, <1>3, ServedTransfer DEF TypeOK
  <2>3. transactions'[t].o = transactions[t].o /\ transactions'[t].a = transactions[t].a
    BY <1>1, <2>2, SentStays
  <2>4. req'[h].at # "webhook.lookup" => transactions[t].o # Nowhere
    <3>1. ~ WebhookReceive(h)
      BY <1>3 DEF WebhookReceive, Begin, Idle, AboutTransfer
    <3> QED
      BY <1>1, <1>3, <3>1, SameTransfer DEF MoneyInv, ServedAsRead
  <2>5. transactions[t].o # Nowhere =>
          /\ Target(t).status \notin TakesMoney =>
               attempts'[transactions[t].o][transactions[t].a].status \notin TakesMoney
    BY <2>2 DEF MoneyInv, TargetsExist, AttemptStep, TransactionRow, Target, Exists
  <2>6. CASE WebhookOvertaken(h) /\ transactions'[t].state = "matched"
    <3>1. req'[h].at = "webhook.reread" /\ Target(t).status \notin TakesMoney
      BY <1>1, <2>6 DEF TypeOK, WebhookOvertaken, Creditable
    <3> QED
      BY <2>1, <2>3, <2>4, <2>5, <2>6, <3>1
  <2>7. CASE transactions'[t] = transactions[t]
    <3>1. ~ WebhookReceive(h)
      BY <1>3 DEF WebhookReceive, Begin, Idle, AboutTransfer
    <3>2. \/ transactions[t].state = "received"
          \/ /\ req[h].at \in {"webhook.reread", "webhook.flag"}
             /\ transactions[t].state = "matched" /\ Target(t).status \notin TakesMoney
             /\ transactions[t].o # Nowhere
      BY <1>3 DEF MoneyInv, ServedAsRead, Undecided
    <3>3. req[h].at \in {"webhook.reread", "webhook.flag"} =>
            req'[h].at \in {"webhook.reread", "webhook.flag"}
      BY <1>1, <3>1, SameTransfer
    <3> QED
      BY <2>1, <2>3, <2>4, <2>5, <2>7, <3>2, <3>3
  <2> QED
    BY <1>3, <2>6, <2>7, ServedStays
<1> QED
  BY <1>2, <1>3

\* No transfer another request works on, or is about to, is in a sum that is taken.
LEMMA SumsStep ==
  ASSUME MoneyInv, [Next]_vars
  PROVE  SumsAreMatched'
<1> SUFFICES ASSUME NEW h \in Handlers, req'[h].at = "webhook.commit",
                    NEW t \in req'[h].sum, t # req'[h].t
             PROVE  /\ t \in Transfers /\ transactions'[t].state = "matched"
                    /\ transactions'[t].o = transactions'[req'[h].t].o
                    /\ transactions'[t].a = transactions'[req'[h].t].a
  BY DEF SumsAreMatched, Matched
<1>1. TypeOK
  BY DEF MoneyInv, FundingInv
<1>2. CASE req'[h] = req[h]
  <2>1. req[h].t \in Transfers /\ transactions[req[h].t].state # "unsent"
    BY <1>2, ServedTransfer DEF AboutTransfer
  <2>2. /\ t \in Transfers /\ transactions[t].state = "matched"
        /\ transactions[t].o = transactions[req[h].t].o
        /\ transactions[t].a = transactions[req[h].t].a
    BY <1>2 DEF MoneyInv, SumsAreMatched, Matched
  <2>3. transactions'[t] = transactions[t]
    <3>1. ASSUME NEW g \in Handlers, req[g].t = t, req[g].at \in AboutTransfer PROVE FALSE
      BY <1>2, <3>1 DEF MoneyInv, NotYetCounted
    <3>2. ~ SendTransfer(t)
      BY <2>2 DEF SendTransfer
    <3> QED
      BY <1>1, <2>2, <3>1, <3>2, Transacted DEF WebhookUnmatched, WebhookCommit,
         WebhookOvertaken, WebhookFlag, AboutTransfer
  <2> QED
    BY <1>1, <1>2, <2>1, <2>2, <2>3, SentStays
<1>3. CASE req'[h] # req[h]
  <2>1. WebhookMatch(h)
    BY <1>1, <1>3, Arrivals
  <2>2. /\ req'[h].t = req[h].t
        /\ req'[h].sum = Matched(transactions[req[h].t].o, transactions[req[h].t].a)
                           \cup {req[h].t}
    BY <1>1, <2>1, RequestShape DEF TypeOK, WebhookMatch, CheckRequest
  <2>3. transactions' = transactions
    BY <2>1 DEF WebhookMatch, payment
  <2> QED
    BY <2>2, <2>3 DEF Matched
<1> QED
  BY <1>2, <1>3

LEMMA CountedStep ==
  ASSUME MoneyInv, [Next]_vars
  PROVE  NotYetCounted'
<1> SUFFICES ASSUME NEW h \in Handlers, req'[h].at \in AboutTransfer
             PROVE  /\ \A o \in Orders, a \in Attempts : req'[h].t \notin attempts'[o][a].credited
                    /\ \A g \in Handlers :
                         req'[g].at = "webhook.commit" /\ g # h => req'[h].t \notin req'[g].sum
  BY DEF NotYetCounted
<1> DEFINE t == req'[h].t
<1>1. TypeOK
  BY DEF MoneyInv, FundingInv
\* Before the step: t is in no credit, and in the sum of no other request.
<1>2. /\ \/ /\ req[h].at \in AboutTransfer /\ t = req[h].t
         \/ WebhookReceive(h) /\ transactions[t].state = "sent"
  BY <1>1, SameTransfer
<1>3. \A o \in Orders, a \in Attempts : t \notin attempts[o][a].credited
  BY <1>2 DEF MoneyInv, NotYetCounted, NoDoubleCredit, Matched
<1>4. \A g \in Handlers : req[g].at = "webhook.commit" /\ g # h => t \notin req[g].sum
  <2>1. CASE req[h].at \in AboutTransfer /\ t = req[h].t
    BY <2>1 DEF MoneyInv, NotYetCounted
  <2>2. CASE transactions[t].state = "sent"
    <3> SUFFICES ASSUME NEW g \in Handlers, req[g].at = "webhook.commit", t \in req[g].sum
                 PROVE  FALSE
      OBVIOUS
    <3>1. transactions[req[g].t].state # "sent"
      BY ServedTransfer DEF AboutTransfer
    <3> QED
      BY <2>2, <3>1 DEF MoneyInv, SumsAreMatched, Matched
  <2> QED
    BY <1>2, <2>1, <2>2
<1>5. \A o \in Orders, a \in Attempts : t \notin attempts'[o][a].credited
  <2>1. CASE NothingCredited
    BY <1>3, <2>1 DEF NothingCredited
  <2>2. ASSUME NEW g \in Handlers, WebhookCommit(g)
        PROVE  \A o \in Orders, a \in Attempts : t \notin attempts'[o][a].credited
    <3>1. g # h
      BY <1>1, <2>2 DEF TypeOK, WebhookCommit, End, Idle, AboutTransfer
    <3>2. t \notin req[g].sum
      BY <1>4, <2>2, <3>1 DEF WebhookCommit
    <3> QED
      BY <1>3, <2>2, <3>2, WebhookAttempt
  <2> QED
    BY <2>1, <2>2, AttemptsStep
<1>6. ASSUME NEW g \in Handlers, req'[g].at = "webhook.commit", g # h
      PROVE  t \notin req'[g].sum
  <2>1. CASE req'[g] = req[g]
    BY <1>4, <1>6, <2>1
  <2>2. CASE req'[g] # req[g]
    <3>1. WebhookMatch(g) /\ req'[h] = req[h]
      BY <1>1, <1>6, <2>2, Arrivals, OneMoves
    <3>2. req'[g].sum = Matched(transactions[req[g].t].o, transactions[req[g].t].a)
                          \cup {req[g].t}
          /\ Creditable(Target(req[g].t))
      BY <1>1, <1>6, <3>1, RequestShape DEF TypeOK, WebhookMatch, CheckRequest
    <3>3. t # req[g].t
      BY <1>6, <3>1 DEF MoneyInv, OneRequestServes, WebhookMatch, AboutTransfer
    <3>4. t \notin Matched(transactions[req[g].t].o, transactions[req[g].t].a)
      BY <3>1, <3>2 DEF MoneyInv, ServedAsRead, Undecided, Matched, Creditable, Target
    <3> QED
      BY <3>2, <3>3, <3>4
  <2> QED
    BY <2>1, <2>2
<1> QED
  BY <1>5, <1>6

LEMMA CreditStep ==
  ASSUME MoneyInv, [Next]_vars
  PROVE  NoDoubleCredit'
<1> SUFFICES ASSUME NEW o \in Orders, NEW a \in Attempts, NEW t \in attempts'[o][a].credited
             PROVE  /\ t \in Transfers /\ transactions'[t].state = "matched"
                    /\ transactions'[t].o = o /\ transactions'[t].a = a
  BY DEF NoDoubleCredit, Matched
<1>1. TypeOK
  BY DEF MoneyInv, FundingInv
<1>2. CASE t \in attempts[o][a].credited
  <2>1. /\ t \in Transfers /\ transactions[t].state = "matched"
        /\ transactions[t].o = o /\ transactions[t].a = a
    BY <1>2 DEF MoneyInv, NoDoubleCredit, Matched
  <2>2. ASSUME NEW g \in Handlers, req[g].t = t, req[g].at \in AboutTransfer PROVE FALSE
    BY <1>2, <2>2 DEF MoneyInv, NotYetCounted
  <2>3. transactions'[t] = transactions[t]
    BY <1>1, <2>1, <2>2, Transacted DEF SendTransfer, WebhookUnmatched, WebhookCommit,
       WebhookOvertaken, WebhookFlag, AboutTransfer
  <2> QED
    BY <2>1, <2>3
<1>3. CASE t \notin attempts[o][a].credited
  <2>1. PICK h \in Handlers : WebhookCommit(h)
    BY <1>3, AttemptsStep DEF NothingCredited
  <2>2. o = transactions[req[h].t].o /\ a = transactions[req[h].t].a /\ t \in req[h].sum
    BY <1>3, <2>1, WebhookAttempt
  <2>3. req[h].t \in Transfers /\ transactions[req[h].t] \in TransactionRow
    BY <1>1, <2>1, ServedTransfer DEF WebhookCommit, AboutTransfer, TypeOK
  <2>4. transactions' = [transactions EXCEPT ![req[h].t].state = "matched"]
    BY <2>1 DEF WebhookCommit
  <2>5. CASE t = req[h].t
    BY <1>1, <2>2, <2>3, <2>4, <2>5 DEF TypeOK, TransactionRow
  <2>6. CASE t # req[h].t
    <3>1. t \in Matched(o, a)
      BY <2>1, <2>2, <2>6 DEF MoneyInv, SumsAreMatched, WebhookCommit
    <3> QED
      BY <1>1, <2>4, <2>6, <3>1 DEF Matched, TypeOK
  <2> QED
    BY <2>5, <2>6
<1> QED
  BY <1>2, <1>3

LEMMA RefundTargetsStep ==
  ASSUME MoneyInv, [Next]_vars, AttemptStep
  PROVE  RefundTargetsExist'
<1> SUFFICES ASSUME NEW h \in Handlers, req'[h].at \in {"refund.insert", "refund.commit"}
             PROVE  attempts'[req'[h].o][req'[h].a].status # "none"
  BY DEF RefundTargetsExist, Exists
<1>1. TypeOK
  BY DEF MoneyInv, FundingInv
<1>2. req'[h].o \in Orders /\ req'[h].a \in Attempts /\ Exists(req'[h].o, req'[h].a)
  <2>1. CASE req'[h] = req[h]
    BY <1>1, <2>1, RequestShape DEF MoneyInv, RefundTargetsExist, TypeOK, RefundRequest
  <2>2. CASE RefundRead(h)
    <3>1. PICK o, a, r :
            /\ o \in Orders /\ a \in Attempts
            /\ attempts[o][a].status \in HasMoney
            /\ r.o = o /\ r.a = a /\ Begin(h, "refund", r)
      BY <2>2 DEF RefundRead
    <3>2. req'[h] = r
      BY <1>1, <3>1 DEF TypeOK, Begin
    <3> QED
      BY <3>1, <3>2 DEF Exists, HasMoney
  <2>3. CASE RefundInsert(h)
    <3>1. req[h] \in RefundRequest /\ Exists(req[h].o, req[h].a)
      BY <1>1, <2>3, RequestShape DEF MoneyInv, RefundTargetsExist, TypeOK, RefundInsert
    <3>2. req'[h].o = req[h].o /\ req'[h].a = req[h].a
      BY <1>1, <2>3, <3>1 DEF TypeOK, RefundInsert, RefundRequest, End, Idle
    <3> QED
      BY <3>1, <3>2 DEF RefundRequest
  <2> QED
    BY <1>1, <2>1, <2>2, <2>3, Arrivals
<1> QED
  BY <1>2 DEF AttemptStep

LEMMA InitMoney == Init => MoneyInv
<1> SUFFICES ASSUME Init PROVE MoneyInv
  OBVIOUS
<1>1. \A h \in Handlers : req[h].at = "idle"
  BY DEF Init, Idle
<1>2. \A o \in Orders, a \in Attempts : attempts[o][a] = NoAttempt
  BY DEF Init
<1>3. \A t \in Transfers : transactions[t].state = "unsent"
  BY DEF Init, Unsent
<1>4. ~ \E h \in Handlers : req[h].at \in AboutTransfer \cup {"refund.insert", "refund.commit"}
  BY <1>1 DEF AboutTransfer
<1>5. AttemptsArePlaced /\ NoDoubleCredit
  BY <1>2 DEF AttemptsArePlaced, NoDoubleCredit, Exists, NoAttempt
<1>6. TargetsExist
  BY <1>3 DEF TargetsExist
<1>7. /\ OneRequestServes /\ ServedAsRead /\ NotYetCounted /\ SumsAreMatched
      /\ RefundTargetsExist
  BY <1>1, <1>4 DEF OneRequestServes, ServedAsRead, NotYetCounted, SumsAreMatched,
     RefundTargetsExist
<1> QED
  BY <1>5, <1>6, <1>7, InitFunding DEF MoneyInv

LEMMA StepMoney == MoneyInv /\ [Next]_vars => MoneyInv'
<1> SUFFICES ASSUME MoneyInv, [Next]_vars PROVE MoneyInv'
  OBVIOUS
<1>1. FundingInv' /\ PlacedStay
  BY StepFunding, OrdersStay DEF MoneyInv
<1>2. AttemptStep
  BY AttemptsStep
<1>3. AttemptsArePlaced' /\ TargetsExist'
  BY <1>1, <1>2, TargetsStep
<1>4. OneRequestServes' /\ ServedAsRead' /\ NotYetCounted' /\ SumsAreMatched'
  BY <1>2, <1>3, OneServesStep, ServedStep, CountedStep, SumsStep
<1>5. RefundTargetsExist' /\ NoDoubleCredit'
  BY <1>2, RefundTargetsStep, CreditStep
<1> QED
  BY <1>1, <1>3, <1>4, <1>5 DEF MoneyInv

LEMMA MoneyHolds == Spec => []MoneyInv
  BY InitMoney, StepMoney, PTL DEF Spec

\* No transfer is counted twice, to two attempts or for one that was set aside, whatever
\* webhooks, sweeps, cancellations and refunds run between a sum and its writing.
THEOREM NoDoubleCreditHolds == Spec => []NoDoubleCredit
<1>1. MoneyInv => NoDoubleCredit
  BY DEF MoneyInv
<1> QED
  BY <1>1, MoneyHolds, PTL

\* A closed attempt is closed for good, and keeps what it took.
THEOREM ClosedAttemptsTakeNothingHolds == Spec => ClosedAttemptsTakeNothing
<1> DEFINE Keeps == \A o \in Orders, a \in Attempts :
                      Exists(o, a) /\ attempts[o][a].status \notin TakesMoney =>
                        /\ attempts'[o][a].status \notin TakesMoney
                        /\ attempts'[o][a].credited = attempts[o][a].credited
<1>1. MoneyInv /\ [Next]_vars => [Keeps]_vars
  BY AttemptsStep DEF AttemptStep
<1> QED
  BY <1>1, MoneyHolds, PTL DEF Spec, ClosedAttemptsTakeNothing
=============================================================================
