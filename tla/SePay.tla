------------------------------- MODULE SePay -------------------------------
(***************************************************************************)
(* Money that comes and goes back: bank payments (lib/sepay.ts), from the  *)
(* transfers of customers and the webhook that reports them to the expiry  *)
(* of attempts that were not paid, and payment.refund                      *)
(* (lib/commands-finance.ts).                                              *)
(***************************************************************************)
EXTENDS OrderTables

-----------------------------------------------------------------------------
(* The world outside.                                                      *)

\* A customer transfers money under an attempt's payment code, or under none.
SendTransfer(t) ==
  /\ "webhook" \in Kinds /\ transactions[t].state = "unsent"
  /\ \E amount \in 1 .. MaxQty :
       \/ \E o \in Orders, a \in Attempts :
            /\ Exists(o, a) /\ attempts[o][a].provider = "sepay"
            /\ transactions' =
                 [transactions EXCEPT ![t] =
                    [state |-> "sent", o |-> o, a |-> a, amount |-> amount,
                     afterExpiry |-> attempts[o][a].lapsed]]
       \/ transactions' =
            [transactions EXCEPT ![t] = [Unsent EXCEPT !.state = "sent", !.amount = amount]]
  /\ UNCHANGED <<orders, attempts, refunds, stockRows, activeOrders, books, staff, req>>

\* expires_at passes: the payment window, or for cash the promised time.
Lapse(o, a) ==
  /\ "sweep" \in Kinds
  /\ Exists(o, a) /\ ~ attempts[o][a].lapsed
  /\ attempts' = [attempts EXCEPT ![o][a].lapsed = TRUE]
  /\ UNCHANGED <<orders, transactions, refunds, stockRows, activeOrders, books, staff, req>>

-----------------------------------------------------------------------------
(* processSePayWebhook                                                     *)

\* Mutation: no unique key on the provider's transaction id.
Unseen_Any(t) == transactions[t].state # "unsent"

Unseen(t) == transactions[t].state = "sent"

\* INSERT OR IGNORE of the transaction, outside of any batch.  A delivery whose
\* transaction is there already is answered as a duplicate and changes nothing.
WebhookReceive(h) ==
  /\ \E t \in Transfers :
       /\ Unseen(t)
       /\ transactions' = [transactions EXCEPT ![t].state = "received"]
       /\ Begin(h, "webhook", [at |-> "webhook.lookup", t |-> t])
  /\ UNCHANGED <<orders, attempts, refunds, stockRows, activeOrders, books, staff>>

Target(t) == attempts[transactions[t].o][transactions[t].a]

\* No account of ours, no code, no such attempt: kept for reconciliation.
WebhookUnmatched(h) ==
  LET t == req[h].t
  IN  /\ req[h].at = "webhook.lookup"
      /\ transactions[t].o = Nowhere
      /\ transactions' = [transactions EXCEPT ![t].state = "unmatched"]
      /\ End(h)
      /\ UNCHANGED <<orders, attempts, refunds, stockRows, activeOrders, books, staff>>

\* Mutation: a transfer that cannot be applied is dropped.
Review_Drop(h, att, verdict) == End(h)

Review(h, att, verdict) ==
  req' = [req EXCEPT ![h] =
            [at |-> "webhook.flag", t |-> req[h].t,
             verdict |-> verdict, open |-> att.status \in AwaitsMoney,
             empty |-> Received(att) = 0]]

IsLate(t, att) ==
  \/ att.status = "expired"
  \/ att.status \notin {"paid", "overpaid"} /\ transactions[t].afterExpiry

\* receivedAmount + transferAmount >= expectedAmount
Completes(t, att) == Received(att) + transactions[t].amount >= att.expected

WebhookLookup(h) ==
  LET t == req[h].t
      att == Target(t)
  IN  /\ req[h].at = "webhook.lookup"
      /\ transactions[t].o # Nowhere
      /\ \/ att.status = "failed" /\ Review(h, att, "closed_payment")
         \/ att.status # "failed" /\ IsLate(t, att) /\ Review(h, att, "late_payment")
         \/ att.status # "failed" /\ ~ IsLate(t, att)
            /\ req' = [req EXCEPT ![h] =
                         [at |-> "webhook.match", t |-> t, full |-> Completes(t, att)]]
      /\ UNCHANGED <<orders, payment, stockRows, activeOrders, books, staff>>

\* Mutation: only a failed attempt is refused.
Creditable_NotFailed(att) == att.status # "failed"

Creditable(att) == att.status \in TakesMoney

\* assertLedgerPeriodOpen for each ledger row of the order, if the transfer is to
\* pay it.  It may refuse, and the transaction inserted before is then left behind.
PeriodOpen(h) == req[h].full => ~ ledger[transactions[req[h].t].o].closed

\* The batch marks its transaction matched and takes the snapshot of the sum; then
\* it waits for the attempt's row lock, with that snapshot.
WebhookMatch(h) ==
  LET t == req[h].t
  IN  /\ req[h].at = "webhook.match"
      /\ PeriodOpen(h)
      /\ IF Creditable(Target(t))
         THEN req' = [req EXCEPT ![h] =
                        [at |-> "webhook.commit", t |-> t,
                         sum |-> Matched(transactions[t].o, transactions[t].a) \cup {t}]]
         ELSE req' = [req EXCEPT ![h] = [at |-> "webhook.reread", t |-> t]]
      /\ UNCHANGED <<orders, payment, stockRows, activeOrders, books, staff>>

StatusFor(sum, expected) ==
  CASE sum > expected -> "overpaid"
    [] sum = expected -> "paid"
    [] sum > 0 /\ sum < expected -> "partially_paid"
    [] OTHER -> "pending"

Credit(att, transfers) ==
  LET status == StatusFor(Total(transfers), att.expected)
  IN  [att EXCEPT !.credited = transfers, !.status = status,
                  !.paidAt = @ \/ status \in {"paid", "overpaid"}]

\* Mutations: a part payment pays the order; the kitchen column is reset whatever
\* it was.
PaidOrder_Part(row, status, now) ==
  [row EXCEPT !.pay = IF status # "pending" THEN "paid" ELSE @,
              !.kitchen = IF status \in {"paid", "overpaid"} /\ @ = "payment-pending"
                          THEN "queued" ELSE @,
              !.updatedAt = now]
PaidOrder_Queued(row, status, now) ==
  [row EXCEPT !.pay = CASE status \in {"paid", "overpaid"} -> "paid"
                        [] status = "partially_paid" -> "partially_paid"
                        [] OTHER -> @,
              !.kitchen = IF status \in {"paid", "overpaid"} THEN "queued" ELSE @,
              !.updatedAt = now]

\* The order takes no part in the condition: an order that is closed is updated too.
PaidOrder(row, status, now) ==
  [row EXCEPT !.pay = CASE status \in {"paid", "overpaid"} -> "paid"
                        [] status = "partially_paid" -> "partially_paid"
                        [] OTHER -> @,
              !.kitchen = IF status \in {"paid", "overpaid"} /\ @ = "payment-pending"
                          THEN "queued" ELSE @,
              !.updatedAt = now]

WebhookCommit(h) ==
  LET r == req[h]
      o == transactions[r.t].o
      a == transactions[r.t].a
      att == Credit(attempts[o][a], r.sum)
  IN  /\ r.at = "webhook.commit"
      /\ Creditable(attempts[o][a])
      /\ transactions' = [transactions EXCEPT ![r.t].state = "matched"]
      /\ attempts' = [attempts EXCEPT ![o][a] = att]
      /\ \E now \in FreshStamps :
           orders' = [orders EXCEPT ![o] = PaidOrder(@, att.status, now)]
      /\ PostRevenue(o, "pending", att.status \in {"paid", "overpaid"})
      /\ End(h)
      /\ UNCHANGED <<refunds, stockRows, activeOrders, cashSales, staff>>

\* The batch writes a ledger row of the order.
PostsOrder(h) ==
  LET r == req[h]
      o == transactions[r.t].o
      att == attempts[o][transactions[r.t].a]
  IN  /\ Creditable(att) /\ Credit(att, r.sum).status \in {"paid", "overpaid"}
      /\ Unposted(o)

\* The attempt closed while the batch waited: the transaction stays marked, and the
\* handler reads the attempt again.
WebhookOvertaken(h) ==
  LET t == req[h].t
  IN  /\ req[h].at = "webhook.commit"
      /\ ~ Creditable(Target(t))
      /\ transactions' = [transactions EXCEPT ![t].state = "matched"]
      /\ req' = [req EXCEPT ![h] = [at |-> "webhook.reread", t |-> t]]
      /\ UNCHANGED <<orders, attempts, refunds, stockRows, activeOrders, books, staff>>

WebhookReread(h) ==
  LET att == Target(req[h].t)
  IN  /\ req[h].at = "webhook.reread"
      /\ Review(h, att, IF att.status = "failed" THEN "closed_payment" ELSE "late_payment")
      /\ UNCHANGED <<orders, payment, stockRows, activeOrders, books, staff>>

-----------------------------------------------------------------------------
(* Closing an attempt, and the order with it when nothing was received.    *)

Expired(row, empty, now) ==
  CASE empty /\ row.status = "new" /\ row.pay \in AwaitsMoney ->
         Cancelled(row, "expired", "payment_expired", now)
    [] ~ empty /\ row.pay \in AwaitsMoney ->
         [row EXCEPT !.pay = "expired", !.updatedAt = now]
    [] OTHER -> row

\* Mutation: it asks for the status of before.
ClosedAt_New(row, now) == row.status = "new" /\ row.updatedAt = now

\* WHERE order_status = 'cancelled' AND updated_at = ?
ClosedAt(row, now) == row.status = "cancelled" /\ row.updatedAt = now

\* The statements on the order and its books that both closings issue; row is the
\* order after the batch's update of it.
CloseUnpaid(o, row, empty, now) ==
  /\ orders' = [orders EXCEPT ![o] = row]
  /\ LeaveActive(empty /\ ClosedAt(row, now))
  /\ VoidRevenue(o, empty /\ ClosedAt(row, now))

\* flagPaymentForReview: for a late transfer whose attempt was read open, the
\* attempt is closed and the order is updated whether or not that closed it.
WebhookFlag(h) ==
  LET r == req[h]
      o == transactions[r.t].o
      a == transactions[r.t].a
      closes == r.verdict = "late_payment" /\ r.open
  IN  /\ r.at = "webhook.flag"
      /\ transactions' = [transactions EXCEPT ![r.t].state = r.verdict]
      /\ attempts' = IF closes /\ attempts[o][a].status \in AwaitsMoney
                     THEN [attempts EXCEPT ![o][a].status = "expired"] ELSE attempts
      /\ IF closes
         THEN \E now \in FreshStamps :
                CloseUnpaid(o, Expired(orders[o], r.empty, now), r.empty, now)
         ELSE UNCHANGED <<orders, activeOrders, allocation, ledger>>
      /\ End(h)
      /\ UNCHANGED <<refunds, stockRows, cashSales, staff>>

FlagCloses(h) ==
  LET r == req[h]
      row == orders[transactions[r.t].o]
  IN  /\ r.verdict = "late_payment" /\ r.open /\ r.empty
      /\ \E now \in FreshStamps : ClosedAt(Expired(row, r.empty, now), now)

-----------------------------------------------------------------------------
(* sweepExpiredSePayPayments, and getSePayPaymentStatus for one attempt    *)

Due(o, a) == attempts[o][a].status \in AwaitsMoney /\ attempts[o][a].lapsed

AsDue(o, a) == [o |-> o, a |-> a, empty |-> Received(attempts[o][a]) = 0]

AllDue ==
  UNION {{AsDue(o, a) : a \in {b \in Attempts : Due(o, b)}} : o \in Orders}

\* The attempt a customer's status page shows.
OneDue(o, a) == Due(o, a) /\ attempts[o][a].provider = "sepay"

\* The sweep takes every provider's attempts, in batches larger than MaxAttempts
\* times the orders here; the status page takes the one it shows.
SweepRead(h) ==
  /\ \E now \in FreshStamps :
       \E due \in SUBSET AllDue \ {{}} :
         /\ \/ due = AllDue
            \/ \E o \in Orders, a \in Attempts : OneDue(o, a) /\ due = {AsDue(o, a)}
         /\ Begin(h, "sweep", [at |-> "sweep.expire", now |-> now, due |-> due])
  /\ UNCHANGED <<orders, payment, stockRows, activeOrders, books, staff>>

Hit(d) == attempts[d.o][d.a].status \in AwaitsMoney

SweptOrder(d, now) ==
  IF Hit(d) THEN Expired(orders[d.o], d.empty, now) ELSE orders[d.o]

ExpiryCloses(r, d) == d.empty /\ ClosedAt(SweptOrder(d, r.now), r.now)

\* expireSePayPaymentAttempt: one attempt of the sweep, one batch.
ExpireAttempt(h) ==
  /\ req[h].at = "sweep.expire"
  /\ \E d \in req[h].due :
       /\ attempts' = IF Hit(d) THEN [attempts EXCEPT ![d.o][d.a].status = "expired"]
                      ELSE attempts
       /\ CloseUnpaid(d.o, SweptOrder(d, req[h].now), d.empty, req[h].now)
       /\ IF req[h].due = {d} THEN End(h)
          ELSE req' = [req EXCEPT ![h].due = @ \ {d}]
  /\ UNCHANGED <<transactions, refunds, stockRows, cashSales, staff>>

-----------------------------------------------------------------------------
(* payment.refund.  The refund row is inserted under conditions on the     *)
(* order and the attempt, and every later statement of the batch asks only *)
(* for that row, but the update of the order, which asks for the order as  *)
(* it was read.                                                            *)

HasMoney == {"partially_paid", "paid", "overpaid", "refunded"}

Remaining(o, a) == Received(attempts[o][a]) - AmountOf(RefundsOf(o, a))

\* shouldCancel
CancelsOrder(row, full) == full /\ row.status \in {"new", "accepted"}

\* The caller may name an attempt; otherwise it is the latest that received money.
RefundRead(h) ==
  /\ \E o \in Orders, a \in Attempts, ref \in References, amount \in 1 .. MaxQty :
       /\ orders[o].status # "none"
       /\ Received(attempts[o][a]) > 0 /\ attempts[o][a].status \in HasMoney
       /\ \A r \in refunds : r.ref # ref
       /\ amount <= Remaining(o, a)
       /\ Begin(h, "refund", [at |-> "refund.insert", o |-> o, a |-> a,
                              ref |-> ref, amount |-> amount,
                              full |-> (amount = Remaining(o, a)),
                              cancels |-> CancelsOrder(orders[o], amount = Remaining(o, a)),
                              from |-> orders[o].status, seen |-> orders[o].updatedAt,
                              prior |-> {}])
  /\ UNCHANGED <<orders, payment, stockRows, activeOrders, books, staff>>

Provider(r) == attempts[r.o][r.a].provider

\* Mutation: it waits until no row has the reference, not until the row is decided.
Blocked_Forever(h) ==
  \/ \E g \in Handlers \ {h} :
       /\ req[g].at = "refund.commit"
       /\ req[g].ref = req[h].ref /\ Provider(req[g]) = Provider(req[h])
  \/ \E r \in refunds : r.ref = req[h].ref /\ r.provider = Provider(req[h])

\* A row with the same reference that is not committed yet makes the insert wait.
Blocked(h) ==
  \E g \in Handlers \ {h} :
    /\ req[g].at = "refund.commit"
    /\ req[g].ref = req[h].ref /\ Provider(req[g]) = Provider(req[h])

\* WHERE order_status = ? AND updated_at = ?
AsRead(r) ==
  orders[r.o].status = r.from /\ orders[r.o].updatedAt = r.seen

Insertable(r) ==
  /\ AsRead(r)
  /\ r.amount <= Remaining(r.o, r.a)
  /\ \A s \in refunds : s.ref = r.ref => s.provider # Provider(r)

RefundInsert(h) ==
  LET r == req[h]
  IN  /\ r.at = "refund.insert"
      /\ ~ Blocked(h)
      /\ IF Insertable(r)
         THEN req' = [req EXCEPT ![h].at = "refund.commit",
                                 ![h].prior = RefundsOf(r.o, r.a)]
         ELSE End(h)
      /\ UNCHANGED <<orders, payment, stockRows, activeOrders, books, staff>>

InsertedRow(r) ==
  [ref |-> r.ref, provider |-> Provider(r), o |-> r.o, a |-> r.a, amount |-> r.amount]

\* The sum that decides whether the attempt is refunded is taken from a snapshot
\* that holds the attempt's refunds known at the insert, and perhaps later ones.
RefundedAttempt(r, known) ==
  [attempts[r.o][r.a] EXCEPT
     !.status = IF AmountOf(known \cup {InsertedRow(r)}) >= Received(attempts[r.o][r.a])
                THEN "refunded" ELSE @]

RefundedOrder(r, now) ==
  IF r.cancels THEN Cancelled(orders[r.o], "refunded", "by request", now)
  ELSE [orders[r.o] EXCEPT !.pay = IF r.full THEN "refunded" ELSE "partially_refunded",
                           !.updatedAt = now]

RefundCommit(h) ==
  LET r == req[h]
  IN  /\ r.at = "refund.commit"
      /\ refunds' = refunds \cup {InsertedRow(r)}
      /\ \E later \in SUBSET (RefundsOf(r.o, r.a) \ r.prior) :
           attempts' = [attempts EXCEPT ![r.o][r.a] = RefundedAttempt(r, r.prior \cup later)]
      /\ \E now \in FreshStamps :
           orders' = IF AsRead(r) THEN [orders EXCEPT ![r.o] = RefundedOrder(r, now)]
                     ELSE orders
      /\ LeaveActive(AsRead(r) /\ r.cancels)
      /\ VoidRevenue(r.o, r.cancels)
      /\ ReleaseStock(r.o, r.cancels)
      /\ End(h)
      /\ UNCHANGED <<transactions, cashSales, staff>>
=============================================================================
