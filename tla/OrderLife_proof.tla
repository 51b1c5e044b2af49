-------------------------- MODULE OrderLife_proof ---------------------------
(***************************************************************************)
(* Of OrderSystem, for any number of orders, attempts, transfers and       *)
(* requests: that it implements the life of an order, and what follows from *)
(* that life for what an order leaves behind in the drawer, the books, the *)
(* stock, the site's counter and its shipper.                              *)
(***************************************************************************)
EXTENDS OrderSystem_proof, FiniteSetTheorems, WellFoundedInduction

-----------------------------------------------------------------------------
(***************************************************************************)
(* The order core implements OrderLifecycle.                               *)
(*                                                                         *)
(* A transition is decided on a row that was read and committed on one     *)
(* that may have changed since; that it is still a step of the flow comes  *)
(* from what a request carries: the update asks for the status it read,    *)
(* the way of handing over never changes once the order is there, and what *)
(* was funded stays so.                                                    *)
(***************************************************************************)

\* A transition that some role may ask for: a step of the flow, a failed delivery or an
\* early cancellation.
Follows(from, to, ftype) ==
  \/ <<from, to>> \in Steps(ftype)
  \/ from \in InDelivery /\ to = "delivery_failed"
  \/ from \in {"new", "accepted"} /\ to = "cancelled"

CounterOrdersStay ==
  \A o \in Orders : orders[o].ftype \in CounterTypes => orders[o].status \notin InDelivery

AdvancesFollow ==
  \A h \in Handlers : req[h].at = "advance.commit" =>
    /\ Follows(req[h].from, req[h].to, orders[req[h].o].ftype)
    /\ req[h].cash <=> req[h].to = "delivered" /\ ~ IsBank(req[h].o)

AssignsDeliver ==
  \A h \in Handlers : req[h].at \in {"assign.update", "assign.commit"} =>
    orders[req[h].o].ftype = "delivery" /\ orders[req[h].o].status # "none"

RefundsCancelEarly ==
  \A h \in Handlers :
    req[h].at \in {"refund.insert", "refund.commit"} /\ req[h].cancels =>
      req[h].from \in {"new", "accepted"}

LifeInv ==
  /\ MoneyInv /\ CounterOrdersStay /\ AdvancesFollow /\ AssignsDeliver /\ RefundsCancelEarly

FundedNext(o) == \E a \in Attempts : attempts'[o][a].paidAt

\* What every step but the insertion of an order does: it moves one order at most.
PlacedStep(o) ==
  /\ \A p \in Orders : p # o => orders'[p] = orders[p] /\ (FundedNext(p) <=> Funded(p))
  /\ orders'[o].ftype = orders[o].ftype /\ orders'[o].method = orders[o].method
  /\ orders'[o].total = orders[o].total \/ orders[o].status \in Amendable
  /\ \/ orders'[o].status = orders[o].status
     \/ /\ Follows(orders[o].status, orders'[o].status, orders[o].ftype)
        /\ orders'[o].status # "cancelled" /\ IsBank(o) => Funded(o)
  /\ \/ FundedNext(o) <=> Funded(o)
     \/ /\ FundedNext(o) /\ orders[o].status # "none"
        /\ \/ orders'[o].status = orders[o].status
           \/ orders'[o].status = "delivered" /\ ~ IsBank(o)

\* The insertion of an order.
CreatedStep(o) ==
  /\ \A p \in Orders : p # o => orders'[p] = orders[p] /\ (FundedNext(p) <=> Funded(p))
  /\ orders[o].status = "none" /\ orders'[o].status = "new"
  /\ ~ Funded(o) /\ ~ FundedNext(o)

-----------------------------------------------------------------------------
(* The rules of the transitions.                                           *)

LEMMA StepsMeaning ==
  ASSUME NEW ftype, NEW from, NEW to
  PROVE  <<from, to>> \in Steps(ftype) <=>
           \/ from = "new" /\ to = "accepted"
           \/ from = "accepted" /\ to = "preparing"
           \/ from = "preparing" /\ to = "ready"
           \/ ftype \in CounterTypes /\ from = "ready" /\ to = "delivered"
           \/ ftype \notin CounterTypes /\ from = "ready" /\ to = "assigned"
           \/ ftype \notin CounterTypes /\ from = "assigned" /\ to = "picked_up"
           \/ ftype \notin CounterTypes /\ from = "picked_up" /\ to = "delivering"
           \/ ftype \notin CounterTypes /\ from = "delivering" /\ to = "delivered"
BY DEF Steps, CounterSteps, DeliverySteps

\* A step that no status of the flow lacks: the successor of an open order is another one.
LEMMA SequentialFollows ==
  ASSUME NEW from \in OrderStatuses \ ClosedStatuses, NEW to, NEW ftype,
         ftype \in CounterTypes => from \notin InDelivery, Sequential(from, to, ftype)
  PROVE  <<from, to>> \in Steps(ftype)
<1>1. \E s \in OrderStatuses : <<from, s>> \in Steps(ftype)
  BY StepsMeaning DEF OrderStatuses, ClosedStatuses, InDelivery
<1> QED
  BY <1>1 DEF Sequential

\* Whoever asks, and whatever was paid, an order that is open moves along its flow, fails
\* on its way or is cancelled early.
LEMMA AllowedFollows ==
  ASSUME NEW from \in OrderStatuses \ ClosedStatuses, NEW to, NEW ftype, NEW role, NEW pay,
         ftype \in CounterTypes => from \notin InDelivery,
         assertOrderTransition(role, from, to, ftype, pay)
  PROVE  Follows(from, to, ftype)
<1>1. CASE to = "delivery_failed"
  BY <1>1 DEF assertOrderTransition, MayFail, Follows
<1>2. CASE to = "cancelled"
  BY <1>2 DEF assertOrderTransition, MayCancel, Follows
<1>3. CASE to \notin {"delivery_failed", "cancelled"}
  <2>1. MayStep(role, from, to, ftype)
    BY <1>3 DEF assertOrderTransition
  <2>2. CASE <<from, to>> \in ShipperSteps
    <3>1. /\ from \in InDelivery /\ ftype \notin CounterTypes
          /\ \/ from = "assigned" /\ to = "picked_up"
             \/ from = "picked_up" /\ to = "delivering"
             \/ from = "delivering" /\ to = "delivered"
      BY <2>2 DEF ShipperSteps, InDelivery
    <3> QED
      BY <3>1, StepsMeaning DEF Follows
  <2>3. CASE Sequential(from, to, ftype)
    BY <2>3, SequentialFollows DEF Follows
  <2>4. CASE from = "ready" /\ to = "delivered" /\ ftype = "pickup"
    BY <2>4, StepsMeaning DEF Follows, CounterTypes
  <2> QED
    BY <2>1, <2>2, <2>3, <2>4 DEF MayStep
<1> QED
  BY <1>1, <1>2, <1>3

\* An order that moves was open, and is not new again.
LEMMA FollowsMeaning ==
  ASSUME NEW from, NEW to, NEW ftype, Follows(from, to, ftype)
  PROVE  /\ from \in OrderStatuses \ ClosedStatuses /\ to \in OrderStatuses \ {"new"}
         /\ from # to
         /\ from \in {"new", "accepted"} \/ to \notin {"accepted", "preparing", "cancelled"}
         /\ ftype \in CounterTypes /\ from \notin InDelivery => to \notin InDelivery
BY StepsMeaning DEF Follows, OrderStatuses, ClosedStatuses, InDelivery

-----------------------------------------------------------------------------
(* The steps on orders.                                                    *)

\* Funding is decided by paidAt.
LEMMA FundedSame ==
  ASSUME NEW p \in Orders, \A b \in Attempts : attempts'[p][b].paidAt = attempts[p][b].paidAt
  PROVE  FundedNext(p) <=> Funded(p)
BY DEF Funded, FundedNext

LEMMA LapseLife ==
  ASSUME LifeInv, NEW o \in Orders, NEW a \in Attempts, Lapse(o, a)
  PROVE  PlacedStep(o)
<1>1. ASSUME NEW p \in Orders, NEW b \in Attempts
      PROVE  attempts'[p][b].paidAt = attempts[p][b].paidAt
  BY DEF LifeInv, MoneyInv, FundingInv, TypeOK, AttemptRow, Lapse
<1>2. orders' = orders
  BY DEF Lapse
<1> QED
  BY <1>1, <1>2, FundedSame DEF PlacedStep

LEMMA AmendLife ==
  ASSUME LifeInv, NEW h \in Handlers, AmendCommit(h)
  PROVE  req[h].o \in Orders /\ PlacedStep(req[h].o)
<1> DEFINE r == req[h]
<1>1. r.o \in Orders
  BY RequestShape DEF LifeInv, MoneyInv, FundingInv, TypeOK, AmendCommit, AmendRequest
<1>2. ASSUME NEW p \in Orders, NEW b \in Attempts
      PROVE  attempts'[p][b].paidAt <=> attempts[p][b].paidAt
  <2>1. attempts[p][b] \in AttemptRow
    BY DEF LifeInv, MoneyInv, FundingInv, TypeOK
  <2>2. CASE p = r.o
    <3>1. attempts'[p][b] = AmendedAttempts(r)[b]
      BY <1>1, <2>2 DEF AmendCommit, LifeInv, MoneyInv, FundingInv, TypeOK
    <3>2. CASE r.due > 0 /\ Following(p, b)
      <4>1. ~ attempts[p][b].paidAt
        BY <3>2 DEF Following, LifeInv, MoneyInv, FundingInv, UnusedAreUnpaid
      <4>2. ~ attempts'[p][b].paidAt
        BY <2>2, <3>1, <3>2 DEF AmendedAttempts, Following, Exists, FirstAttempt, NoAttempt
      <4> QED
        BY <4>1, <4>2
    <3>3. CASE ~ (r.due > 0 /\ Following(p, b))
      BY <2>1, <2>2, <3>1, <3>3 DEF AmendedAttempts, AttemptRow
    <3> QED
      BY <3>2, <3>3
  <2>3. CASE p # r.o
    BY <2>1, <2>3 DEF AmendCommit, LifeInv, MoneyInv, FundingInv, TypeOK
  <2> QED
    BY <2>2, <2>3
<1>3. ASSUME NEW p \in Orders PROVE FundedNext(p) <=> Funded(p)
  BY <1>2 DEF Funded, FundedNext
<1>4. PICK now : orders' = [orders EXCEPT ![r.o].total = r.qty, ![r.o].updatedAt = now]
  BY DEF AmendCommit
<1>5. orders'[r.o] = [orders[r.o] EXCEPT !.total = r.qty, !.updatedAt = now]
      /\ orders[r.o] \in OrderRow
  BY <1>1, <1>4 DEF LifeInv, MoneyInv, FundingInv, TypeOK
<1>6. /\ orders'[r.o].ftype = orders[r.o].ftype /\ orders'[r.o].method = orders[r.o].method
      /\ orders'[r.o].status = orders[r.o].status
  BY <1>5 DEF OrderRow
<1>7. \A p \in Orders : p # r.o => orders'[p] = orders[p]
  BY <1>4 DEF LifeInv, MoneyInv, FundingInv, TypeOK
<1>8. orders[r.o].status \in Amendable
  BY DEF AmendCommit, AmendWins
<1> QED
  BY <1>1, <1>3, <1>6, <1>7, <1>8 DEF PlacedStep

LEMMA AdvanceLife ==
  ASSUME LifeInv, NEW h \in Handlers, AdvanceCommit(h)
  PROVE  req[h].o \in Orders /\ PlacedStep(req[h].o)
<1> DEFINE r == req[h]
<1>1. r.o \in Orders
  BY RequestShape DEF LifeInv, MoneyInv, FundingInv, TypeOK, AdvanceCommit, AdvanceRequest
<1>2. ASSUME NEW p \in Orders, NEW b \in Attempts
      PROVE  /\ attempts[p][b].paidAt => attempts'[p][b].paidAt
             /\ p # r.o \/ ~ r.cash => attempts'[p][b].paidAt = attempts[p][b].paidAt
  <2>1. attempts[p][b] \in AttemptRow
    BY DEF LifeInv, MoneyInv, FundingInv, TypeOK
  <2>2. CASE p = r.o
    <3>1. attempts'[p][b] = AdvancedAttempt(r, attempts[p][b])
      BY <1>1, <2>2 DEF AdvanceCommit, LifeInv, MoneyInv, FundingInv, TypeOK
    <3> QED
      BY <2>1, <2>2, <3>1 DEF AdvancedAttempt, AttemptRow
  <2>3. CASE p # r.o
    BY <2>3 DEF AdvanceCommit, LifeInv, MoneyInv, FundingInv, TypeOK
  <2> QED
    BY <2>2, <2>3
<1>3. ASSUME NEW p \in Orders
      PROVE  /\ Funded(p) => FundedNext(p)
             /\ p # r.o \/ ~ r.cash => (FundedNext(p) <=> Funded(p))
  BY <1>2 DEF Funded, FundedNext
<1>4. /\ Follows(r.from, r.to, orders[r.o].ftype)
      /\ r.cash <=> r.to = "delivered" /\ ~ IsBank(r.o)
      /\ orders[r.o].status # "none"
      /\ IsBank(r.o) /\ r.to # "cancelled" => Funded(r.o)
  BY DEF LifeInv, AdvancesFollow, MoneyInv, FundingInv, AdvancesAreFunded, AdvanceCommit
<1>5. \A p \in Orders : p # r.o => orders'[p] = orders[p]
  BY DEF AdvanceCommit, LifeInv, MoneyInv, FundingInv, TypeOK
<1>6. CASE AdvanceWins(r)
  <2>1. PICK now : orders'[r.o] = AdvancedOrder(r, now)
    BY <1>1, <1>6 DEF AdvanceCommit, LifeInv, MoneyInv, FundingInv, TypeOK
  <2>2. orders[r.o] \in OrderRow /\ orders[r.o].status = r.from
    BY <1>1, <1>6 DEF LifeInv, MoneyInv, FundingInv, TypeOK, AdvanceWins
  <2>3. /\ orders'[r.o].ftype = orders[r.o].ftype /\ orders'[r.o].method = orders[r.o].method
        /\ orders'[r.o].status = r.to /\ orders'[r.o].total = orders[r.o].total
    BY <2>1, <2>2 DEF AdvancedOrder, OrderRow
  <2> QED
    BY <1>1, <1>3, <1>4, <1>5, <2>2, <2>3 DEF PlacedStep
<1>7. CASE ~ AdvanceWins(r)
  <2>1. orders' = orders
    BY <1>7 DEF AdvanceCommit
  <2> QED
    BY <1>1, <1>3, <1>4, <2>1 DEF PlacedStep
<1> QED
  BY <1>6, <1>7

LEMMA AssignLife ==
  ASSUME LifeInv, NEW h \in Handlers, AssignCommit(h)
  PROVE  req[h].o \in Orders /\ PlacedStep(req[h].o)
<1> DEFINE r == req[h]
<1>1. r.o \in Orders /\ orders[r.o] \in OrderRow
  BY RequestShape DEF LifeInv, MoneyInv, FundingInv, TypeOK, AssignCommit, AssignRequest
<1>2. attempts' = attempts
  BY DEF AssignCommit, payment
<1>3. ASSUME NEW p \in Orders PROVE FundedNext(p) <=> Funded(p)
  BY <1>2 DEF Funded, FundedNext
<1>4. CASE orders[r.o].status = "ready"
  <2>1. PICK now :
          orders' = [orders EXCEPT ![r.o].shipper = r.s, ![r.o].status = "assigned",
                                   ![r.o].delivery = "assigned", ![r.o].updatedAt = now]
    BY <1>4 DEF AssignCommit
  <2>2. /\ orders'[r.o].ftype = orders[r.o].ftype /\ orders'[r.o].method = orders[r.o].method
        /\ orders'[r.o].status = "assigned" /\ orders'[r.o].total = orders[r.o].total
        /\ \A p \in Orders : p # r.o => orders'[p] = orders[p]
    BY <1>1, <2>1 DEF OrderRow, LifeInv, MoneyInv, FundingInv, TypeOK
  <2>3. IsBank(r.o) => Funded(r.o)
    BY <1>1, <1>4 DEF LifeInv, MoneyInv, FundingInv, KitchenGate, Placed, InTheKitchen, OrderStatuses
  <2>4. Follows("ready", "assigned", orders[r.o].ftype)
    BY StepsMeaning DEF LifeInv, AssignsDeliver, AssignCommit, Follows, CounterTypes
  <2> QED
    BY <1>1, <1>3, <1>4, <2>2, <2>3, <2>4 DEF PlacedStep
<1>5. CASE orders[r.o].status # "ready"
  <2>1. orders' = orders
    BY <1>5 DEF AssignCommit
  <2> QED
    BY <1>1, <1>3, <2>1 DEF PlacedStep
<1> QED
  BY <1>4, <1>5

LEMMA RefundLife ==
  ASSUME LifeInv, NEW h \in Handlers, RefundCommit(h)
  PROVE  req[h].o \in Orders /\ PlacedStep(req[h].o)
<1> DEFINE r == req[h]
<1>1. r.o \in Orders /\ r.a \in Attempts /\ orders[r.o] \in OrderRow
  BY RequestShape DEF LifeInv, MoneyInv, FundingInv, TypeOK, RefundCommit, RefundRequest
<1>2. PICK known :
        attempts' = [attempts EXCEPT ![r.o][r.a] = RefundedAttempt(r, known)]
  BY DEF RefundCommit
<1>3. ASSUME NEW p \in Orders, NEW b \in Attempts
      PROVE  attempts'[p][b].paidAt = attempts[p][b].paidAt
  <2>1. attempts[p][b] \in AttemptRow
    BY DEF LifeInv, MoneyInv, FundingInv, TypeOK
  <2>2. CASE p = r.o /\ b = r.a
    <3>1. attempts'[p][b] = RefundedAttempt(r, known)
      BY <1>1, <1>2, <2>2 DEF LifeInv, MoneyInv, FundingInv, TypeOK
    <3> QED
      BY <2>1, <2>2, <3>1 DEF RefundedAttempt, AttemptRow
  <2>3. CASE ~ (p = r.o /\ b = r.a)
    BY <1>2, <2>3 DEF LifeInv, MoneyInv, FundingInv, TypeOK
  <2> QED
    BY <2>2, <2>3
<1>4. \A p \in Orders : p # r.o => orders'[p] = orders[p]
  BY DEF RefundCommit, LifeInv, MoneyInv, FundingInv, TypeOK
<1>5. /\ orders'[r.o].ftype = orders[r.o].ftype /\ orders'[r.o].method = orders[r.o].method
      /\ orders'[r.o].total = orders[r.o].total
      /\ \/ orders'[r.o].status = orders[r.o].status
         \/ orders[r.o].status \in {"new", "accepted"} /\ orders'[r.o].status = "cancelled"
  <2>1. CASE AsRead(r)
    <3>1. PICK now : orders'[r.o] = RefundedOrder(r, now)
      BY <1>1, <2>1 DEF RefundCommit, LifeInv, MoneyInv, FundingInv, TypeOK
    <3>2. r.cancels => orders[r.o].status \in {"new", "accepted"}
      BY <2>1 DEF AsRead, LifeInv, RefundsCancelEarly, RefundCommit
    <3> QED
      BY <1>1, <3>1, <3>2 DEF RefundedOrder, Cancelled, OrderRow
  <2>2. CASE ~ AsRead(r)
    BY <2>2 DEF RefundCommit
  <2> QED
    BY <2>1, <2>2
<1> QED
  BY <1>1, <1>3, <1>4, <1>5, FundedSame DEF PlacedStep, Follows

LEMMA WebhookLife ==
  ASSUME LifeInv, NEW h \in Handlers, WebhookCommit(h)
  PROVE  \E o \in Orders : PlacedStep(o)
<1> DEFINE r == req[h]
<1>1. PICK o, a, att : /\ o = transactions[r.t].o
                       /\ a = transactions[r.t].a
                       /\ att = Credit(attempts[o][a], r.sum)
  OBVIOUS
<1>2. o \in Orders /\ a \in Attempts /\ orders[o].status # "none" /\ orders[o] \in OrderRow
  <2>1. r.t \in Transfers /\ transactions[r.t].state # "unsent"
    BY ServedTransfer DEF LifeInv, WebhookCommit, AboutTransfer
  <2>2. o # Nowhere
    BY <1>1 DEF LifeInv, MoneyInv, ServedAsRead, WebhookCommit, AboutTransfer
  <2>3. o \in Orders /\ a \in Attempts
    BY <1>1, <2>1, <2>2 DEF LifeInv, MoneyInv, FundingInv, TypeOK, TransactionRow
  <2>4. Exists(o, a)
    BY <1>1, <2>1, <2>2 DEF LifeInv, MoneyInv, TargetsExist
  <2> QED
    BY <2>3, <2>4 DEF LifeInv, MoneyInv, FundingInv, TypeOK, AttemptsArePlaced
<1>3. attempts' = [attempts EXCEPT ![o][a] = att]
  BY <1>1 DEF WebhookCommit
<1>4. PICK now : orders' = [orders EXCEPT ![o] = PaidOrder(orders[o], att.status, now)]
  BY <1>1 DEF WebhookCommit
<1>5. attempts[o][a].paidAt => att.paidAt
  BY <1>1, <1>2, CreditedRow DEF LifeInv, MoneyInv, FundingInv, TypeOK
<1>6. ASSUME NEW p \in Orders, NEW b \in Attempts
      PROVE  /\ attempts[p][b].paidAt => attempts'[p][b].paidAt
             /\ p # o => attempts'[p][b].paidAt = attempts[p][b].paidAt
  BY <1>2, <1>3, <1>5 DEF LifeInv, MoneyInv, FundingInv, TypeOK
<1>7. ASSUME NEW p \in Orders
      PROVE  (Funded(p) => FundedNext(p)) /\ (p # o => (FundedNext(p) <=> Funded(p)))
  BY <1>6 DEF Funded, FundedNext
<1>8. orders'[o] = PaidOrder(orders[o], att.status, now)
      /\ \A p \in Orders : p # o => orders'[p] = orders[p]
  BY <1>2, <1>4 DEF LifeInv, MoneyInv, FundingInv, TypeOK
<1>9. /\ orders'[o].ftype = orders[o].ftype /\ orders'[o].method = orders[o].method
      /\ orders'[o].status = orders[o].status /\ orders'[o].total = orders[o].total
  BY <1>2, <1>8 DEF PaidOrder, OrderRow
<1> QED
  BY <1>2, <1>7, <1>8, <1>9 DEF PlacedStep

\* The update of an order whose attempt lapsed, and of the attempt.
LEMMA ExpiryLife ==
  ASSUME LifeInv, NEW o \in Orders, NEW a, NEW row,
         orders' = [orders EXCEPT ![o] = row],
         row = orders[o] \/ \E empty, now : row = Expired(orders[o], empty, now),
         \/ attempts' = [attempts EXCEPT ![o][a].status = "expired"]
         \/ UNCHANGED attempts
  PROVE  PlacedStep(o)
<1>1. ASSUME NEW p \in Orders, NEW b \in Attempts
      PROVE  attempts'[p][b].paidAt = attempts[p][b].paidAt
  <2>1. attempts \in [Orders -> [Attempts -> AttemptRow]]
    BY DEF LifeInv, MoneyInv, FundingInv, TypeOK
  <2>2. CASE attempts' = [attempts EXCEPT ![o][a].status = "expired"] /\ p = o /\ b = a
    <3>1. attempts'[p][b] = [attempts[p][b] EXCEPT !.status = "expired"]
      BY <2>1, <2>2
    <3>2. attempts[p][b] \in AttemptRow
      BY <2>1
    <3> QED
      BY <3>1, <3>2 DEF AttemptRow
  <2>3. CASE attempts' = [attempts EXCEPT ![o][a].status = "expired"] /\ ~ (p = o /\ b = a)
    BY <2>1, <2>3
  <2>4. CASE UNCHANGED attempts
    BY <2>4
  <2> QED
    BY <2>2, <2>3, <2>4
<1>2. orders[o] \in OrderRow /\ orders'[o] = row /\ \A p \in Orders : p # o => orders'[p] = orders[p]
  BY DEF LifeInv, MoneyInv, FundingInv, TypeOK
<1>3. /\ row.ftype = orders[o].ftype /\ row.method = orders[o].method
      /\ row.total = orders[o].total
      /\ \/ row.status = orders[o].status
         \/ orders[o].status = "new" /\ row.status = "cancelled"
  BY <1>2 DEF Expired, Cancelled, OrderRow
<1> QED
  BY <1>1, <1>2, <1>3, FundedSame DEF PlacedStep, Follows

\* A transfer that is flagged was sent to an attempt of an order that is there.
LEMMA FlaggedOrder ==
  ASSUME MoneyInv, NEW h \in Handlers, WebhookFlag(h)
  PROVE  /\ transactions[req[h].t].o \in Orders /\ transactions[req[h].t].a \in Attempts
         /\ Exists(transactions[req[h].t].o, transactions[req[h].t].a)
         /\ orders[transactions[req[h].t].o].status # "none"
<1> DEFINE o == transactions[req[h].t].o
           a == transactions[req[h].t].a
<1>1. req[h].t \in Transfers /\ transactions[req[h].t].state # "unsent"
  BY ServedTransfer DEF WebhookFlag, AboutTransfer
<1>2. o # Nowhere
  BY DEF MoneyInv, ServedAsRead, WebhookFlag, AboutTransfer
<1>3. o \in Orders /\ a \in Attempts
  BY <1>1, <1>2 DEF MoneyInv, FundingInv, TypeOK, TransactionRow
<1>4. Exists(o, a)
  BY <1>1, <1>2 DEF MoneyInv, TargetsExist
<1> QED
  BY <1>3, <1>4 DEF MoneyInv, AttemptsArePlaced

LEMMA FlagLife ==
  ASSUME LifeInv, NEW h \in Handlers, WebhookFlag(h)
  PROVE  \E o \in Orders : PlacedStep(o)
<1> DEFINE r == req[h]
           o == transactions[r.t].o
           a == transactions[r.t].a
<1>1. o \in Orders
  BY FlaggedOrder DEF LifeInv
<1>2. \/ attempts' = [attempts EXCEPT ![o][a].status = "expired"]
      \/ UNCHANGED attempts
  BY DEF WebhookFlag
<1>3. CASE r.verdict = "late_payment" /\ r.open
  <2>1. PICK now : orders' = [orders EXCEPT ![o] = Expired(orders[o], r.empty, now)]
    BY <1>3 DEF WebhookFlag, CloseUnpaid
  <2> HIDE DEF o, a
  <2> QED
    BY <1>1, <1>2, <2>1, ExpiryLife
<1>4. CASE ~ (r.verdict = "late_payment" /\ r.open)
  <2>1. orders' = orders
    BY <1>4 DEF WebhookFlag
  <2>2. orders' = [orders EXCEPT ![o] = orders[o]]
    BY <2>1, <1>1 DEF LifeInv, MoneyInv, FundingInv, TypeOK
  <2> HIDE DEF o, a
  <2> QED
    BY <1>1, <1>2, <2>2, ExpiryLife
<1> QED
  BY <1>3, <1>4

LEMMA SweepLife ==
  ASSUME LifeInv, NEW h \in Handlers, ExpireAttempt(h)
  PROVE  \E o \in Orders : PlacedStep(o)
<1> DEFINE r == req[h]
           hit(d) == attempts[d.o][d.a].status \in AwaitsMoney
           row(d) == IF hit(d) THEN Expired(orders[d.o], d.empty, r.now) ELSE orders[d.o]
<1>1. PICK d \in r.due :
        /\ attempts' = IF hit(d) THEN [attempts EXCEPT ![d.o][d.a].status = "expired"]
                       ELSE attempts
        /\ orders' = [orders EXCEPT ![d.o] = row(d)]
  BY DEF ExpireAttempt, SweptOrder, Hit, CloseUnpaid
<1>2. d.o \in Orders
  <2>1. r \in SweepRequest
    BY RequestShape DEF LifeInv, MoneyInv, FundingInv, TypeOK, ExpireAttempt
  <2> QED
    BY <1>1, <2>1 DEF SweepRequest, DueAttempt
<1>3. row(d) = Expired(orders[d.o], d.empty, r.now) \/ row(d) = orders[d.o]
  OBVIOUS
<1>4. \/ attempts' = [attempts EXCEPT ![d.o][d.a].status = "expired"]
      \/ UNCHANGED attempts
  BY <1>1
<1> HIDE DEF row, hit
<1> QED
  BY <1>1, <1>2, <1>3, <1>4, ExpiryLife

LEMMA CreateLife ==
  ASSUME LifeInv, NEW h \in Handlers, CreateCommit(h)
  PROVE  \E o \in Orders : CreatedStep(o)
<1> DEFINE r == req[h]
<1>1. PICK o : o = r.o
  OBVIOUS
<1>2. o \in Orders /\ orders[o].status = "none"
  BY <1>1, RequestShape
     DEF LifeInv, MoneyInv, FundingInv, TypeOK, CreateCommit, CreateRequest, CreatesAreNew
<1>3. PICK now : orders' = [orders EXCEPT ![o] = NewOrder(r, now)]
  BY <1>1 DEF CreateCommit
<1>4. orders'[o].status = "new" /\ \A p \in Orders : p # o => orders'[p] = orders[p]
  BY <1>2, <1>3 DEF LifeInv, MoneyInv, FundingInv, TypeOK, NewOrder
<1>5. ASSUME NEW b \in Attempts PROVE ~ attempts[o][b].paidAt /\ ~ attempts'[o][b].paidAt
  <2>1. ~ attempts[o][b].paidAt
    BY <1>2 DEF LifeInv, MoneyInv, FundingInv, AttemptsArePlaced, UnusedAreUnpaid
  <2>2. attempts' = [attempts EXCEPT ![o][1] = FirstAttempt(r.method, r.qty)]
    BY <1>1 DEF CreateCommit
  <2>3. ~ FirstAttempt(r.method, r.qty).paidAt
    BY DEF FirstAttempt, NoAttempt
  <2> QED
    BY <1>2, <2>1, <2>2, <2>3 DEF LifeInv, MoneyInv, FundingInv, TypeOK
<1>6. ASSUME NEW p \in Orders, p # o, NEW b \in Attempts
      PROVE  attempts'[p][b].paidAt = attempts[p][b].paidAt
  BY <1>1, <1>6 DEF LifeInv, MoneyInv, FundingInv, TypeOK, CreateCommit
<1>7. ~ Funded(o) /\ ~ FundedNext(o)
  BY <1>5 DEF Funded, FundedNext
<1> QED
  BY <1>2, <1>4, <1>6, <1>7, FundedSame DEF CreatedStep

\* A step changes no order, inserts one, or moves one.
LEMMA OrdersStep ==
  ASSUME LifeInv, [Next]_vars
  PROVE  \/ UNCHANGED <<orders, attempts>>
         \/ \E o \in Orders : CreatedStep(o)
         \/ \E o \in Orders : PlacedStep(o)
<1>1. CASE World
  BY <1>1, LapseLife DEF World, SendTransfer, UpsertStock, ClosePeriod, payment
<1>2. ASSUME NEW h \in Handlers, Arrive(h) PROVE UNCHANGED <<orders, attempts>>
  BY <1>2 DEF Arrive, CreateRead, AdvanceRead, AmendItems, AssignRead,
     RefundRead, WebhookReceive, SweepRead, payment
<1>3. ASSUME NEW h \in Handlers, Continue(h)
      PROVE  \/ UNCHANGED <<orders, attempts>>
             \/ \E o \in Orders : CreatedStep(o)
             \/ \E o \in Orders : PlacedStep(o)
  <2>1. CASE CreateRejected(h) \/ AmendRead(h) \/ AmendRefused(h) \/ AmendRejected(h)
             \/ AssignUpdate(h) \/ RefundInsert(h) \/ WebhookUnmatched(h)
             \/ WebhookLookup(h) \/ WebhookMatch(h) \/ WebhookOvertaken(h)
             \/ WebhookReread(h)
    BY <2>1 DEF CreateRejected, AmendRead, AmendRefused, AmendRejected, AssignUpdate,
       RefundInsert, WebhookUnmatched, WebhookLookup, WebhookMatch, WebhookOvertaken,
       WebhookReread, payment
  <2> QED
    BY <1>3, <2>1, CreateLife, AmendLife, AdvanceLife, AssignLife, RefundLife, WebhookLife, FlagLife,
       SweepLife DEF Continue
<1>4. ASSUME NEW h \in Handlers, BooksClosed(h) \/ Abort(h) PROVE UNCHANGED <<orders, attempts>>
  BY <1>4 DEF Abort, BooksClosed, payment
<1>5. CASE UNCHANGED vars
  BY <1>5 DEF vars
<1> QED
  BY <1>1, <1>2, <1>3, <1>4, <1>5 DEF Next

-----------------------------------------------------------------------------
(* The steps on requests.                                                  *)

\* An order that is there keeps how it is handed over and paid for.
LEMMA PlacedKeep ==
  ASSUME LifeInv, [Next]_vars, NEW o \in Orders, orders[o].status # "none"
  PROVE  orders'[o].ftype = orders[o].ftype /\ orders'[o].method = orders[o].method
         /\ orders'[o].status # "none"
<1>1. CASE UNCHANGED <<orders, attempts>>
  BY <1>1
<1>2. ASSUME NEW p \in Orders, CreatedStep(p)
      PROVE  orders'[o] = orders[o]
  BY <1>2 DEF CreatedStep
<1>3. ASSUME NEW p \in Orders, PlacedStep(p)
      PROVE  /\ orders'[o].ftype = orders[o].ftype /\ orders'[o].method = orders[o].method
             /\ orders'[o].status # "none"
  BY <1>3, FollowsMeaning DEF PlacedStep, OrderStatuses
<1> QED
  BY <1>1, <1>2, <1>3, OrdersStep

LEMMA CounterStep ==
  ASSUME LifeInv, [Next]_vars
  PROVE  CounterOrdersStay'
<1> SUFFICES ASSUME NEW o \in Orders, orders'[o].ftype \in CounterTypes
             PROVE  orders'[o].status \notin InDelivery
  BY DEF CounterOrdersStay
<1>1. CASE orders'[o] = orders[o]
  BY <1>1 DEF LifeInv, CounterOrdersStay
<1>2. CASE CreatedStep(o)
  BY <1>2 DEF CreatedStep, InDelivery
<1>3. CASE PlacedStep(o)
  BY <1>3, FollowsMeaning DEF PlacedStep, LifeInv, CounterOrdersStay
<1> QED
  BY <1>1, <1>2, <1>3, OrdersStep DEF CreatedStep, PlacedStep

LEMMA AdvancesFollowStep ==
  ASSUME LifeInv, [Next]_vars
  PROVE  AdvancesFollow'
<1> SUFFICES ASSUME NEW h \in Handlers, req'[h].at = "advance.commit"
             PROVE  /\ Follows(req'[h].from, req'[h].to, orders'[req'[h].o].ftype)
                    /\ req'[h].cash <=>
                         req'[h].to = "delivered" /\ orders'[req'[h].o].method # "bank_transfer"
  BY DEF AdvancesFollow, IsBank
<1>1. TypeOK
  BY DEF LifeInv, MoneyInv, FundingInv
<1>2. CASE req'[h] = req[h]
  <2>1. req[h].o \in Orders /\ orders[req[h].o].status # "none"
    BY <1>1, <1>2, RequestShape
       DEF LifeInv, MoneyInv, FundingInv, AdvancesAreFunded, TypeOK, AdvanceRequest
  <2> QED
    BY <1>2, <2>1, PlacedKeep DEF LifeInv, AdvancesFollow, IsBank
<1>3. CASE AdvanceRead(h)
  <2>1. PICK o, requested, role, r :
          /\ o \in Orders /\ requested \in OrderStatuses
          /\ r.o = o /\ r.from = orders[o].status
          /\ r.to = NextStatus(orders[o], requested)
          /\ r.cash = CashCollected(orders[o], r.to)
          /\ MayAdvance(role, o, r.to)
          /\ Begin(h, "advance", r)
    BY <1>3 DEF AdvanceRead
  <2>2. req'[h] = r
    BY <1>1, <2>1 DEF TypeOK, Begin
  <2>3. UNCHANGED orders
    BY <1>3 DEF AdvanceRead
  <2>4. /\ orders[o].status \in OrderStatuses \ ClosedStatuses
        /\ assertOrderTransition(role, orders[o].status, r.to, orders[o].ftype, orders[o].pay)
    BY <1>1, <2>1 DEF MayAdvance, TypeOK, OrderRow
  <2>5. orders[o].ftype \in CounterTypes => orders[o].status \notin InDelivery
    BY <2>1 DEF LifeInv, CounterOrdersStay
  <2>6. Follows(orders[o].status, r.to, orders[o].ftype)
    BY <2>4, <2>5, AllowedFollows
  <2>7. orders[o].method \in Methods
    BY <1>1, <2>1 DEF TypeOK, OrderRow
  <2> QED
    BY <2>1, <2>2, <2>3, <2>6, <2>7 DEF CashCollected, Methods
<1> QED
  BY <1>1, <1>2, <1>3, Arrivals

LEMMA AssignsStep ==
  ASSUME LifeInv, [Next]_vars
  PROVE  AssignsDeliver'
<1> SUFFICES ASSUME NEW h \in Handlers, req'[h].at \in {"assign.update", "assign.commit"}
             PROVE  /\ orders'[req'[h].o].ftype = "delivery"
                    /\ orders'[req'[h].o].status # "none"
  BY DEF AssignsDeliver
<1>1. TypeOK
  BY DEF LifeInv, MoneyInv, FundingInv
<1>2. CASE AssignRead(h)
  <2>1. PICK o, r :
          /\ o \in Orders
          /\ orders[o].status = "ready" /\ orders[o].ftype = "delivery"
          /\ r.o = o /\ Begin(h, "assign", r)
    BY <1>2 DEF AssignRead
  <2>2. req'[h] = r /\ UNCHANGED orders
    BY <1>1, <1>2, <2>1 DEF TypeOK, Begin, AssignRead
  <2> QED
    BY <2>1, <2>2
<1>3. CASE req'[h] = req[h] \/ AssignUpdate(h)
  <2>1. req[h] \in AssignRequest
    BY <1>1, <1>3, RequestShape DEF TypeOK, AssignUpdate
  <2>2. req'[h].o = req[h].o
    BY <1>1, <1>3, <2>1 DEF TypeOK, AssignUpdate, AssignRequest, Goto, End, Idle
  <2>3. req[h].o \in Orders /\ orders[req[h].o].ftype = "delivery"
        /\ orders[req[h].o].status # "none"
    BY <2>1 DEF AssignRequest, LifeInv, AssignsDeliver
  <2> QED
    BY <2>2, <2>3, PlacedKeep
<1> QED
  BY <1>1, <1>2, <1>3, Arrivals

LEMMA RefundsStep ==
  ASSUME LifeInv, [Next]_vars
  PROVE  RefundsCancelEarly'
<1> SUFFICES ASSUME NEW h \in Handlers, req'[h].at \in {"refund.insert", "refund.commit"},
                    req'[h].cancels
             PROVE  req'[h].from \in {"new", "accepted"}
  BY DEF RefundsCancelEarly
<1>1. TypeOK
  BY DEF LifeInv, MoneyInv, FundingInv
<1>2. CASE RefundRead(h)
  <2>1. PICK o, r, full :
          /\ r.cancels = CancelsOrder(orders[o], full) /\ r.from = orders[o].status
          /\ Begin(h, "refund", r)
    BY <1>2 DEF RefundRead
  <2>2. req'[h] = r
    BY <1>1, <2>1 DEF TypeOK, Begin
  <2> QED
    BY <2>1, <2>2 DEF CancelsOrder
<1>3. CASE req'[h] = req[h] \/ RefundInsert(h)
  <2>1. req[h] \in RefundRequest
    BY <1>1, <1>3, RequestShape DEF TypeOK, RefundInsert
  <2>2. req'[h].from = req[h].from /\ req'[h].cancels = req[h].cancels
    <3>1. CASE RefundInsert(h)
      <4>1. req' = [req EXCEPT ![h].at = "refund.commit",
                               ![h].prior = RefundsOf(req[h].o, req[h].a)]
        BY <1>1, <3>1 DEF TypeOK, RefundInsert, End, Idle
      <4>2. req'[h] = [req[h] EXCEPT !.at = "refund.commit",
                                     !.prior = RefundsOf(req[h].o, req[h].a)]
        BY <1>1, <4>1 DEF TypeOK
      <4> QED
        BY <2>1, <4>2 DEF RefundRequest
    <3> QED
      BY <1>3, <3>1
  <2> QED
    BY <2>1, <2>2 DEF RefundRequest, LifeInv, RefundsCancelEarly
<1> QED
  BY <1>1, <1>2, <1>3, Arrivals

LEMMA InitLife == Init => LifeInv
<1> SUFFICES ASSUME Init PROVE LifeInv
  OBVIOUS
<1>1. /\ \A h \in Handlers : req[h].at = "idle"
      /\ \A o \in Orders : orders[o].status = "none"
  BY DEF Init, Idle, NoOrder
<1>2. CounterOrdersStay
  BY <1>1 DEF CounterOrdersStay, InDelivery
<1>3. AdvancesFollow /\ AssignsDeliver /\ RefundsCancelEarly
  BY <1>1 DEF AdvancesFollow, AssignsDeliver, RefundsCancelEarly
<1> QED
  BY <1>2, <1>3, InitMoney DEF LifeInv

LEMMA StepLife == LifeInv /\ [Next]_vars => LifeInv'
  BY StepMoney, CounterStep, AdvancesFollowStep, AssignsStep, RefundsStep DEF LifeInv

LEMMA LifeHolds == Spec => []LifeInv
  BY InitLife, StepLife, PTL DEF Spec

-----------------------------------------------------------------------------
(* The refinement.                                                         *)

LEMMA CreatedIsPlace ==
  ASSUME LifeInv, LifeInv', NEW o \in Orders, CreatedStep(o)
  PROVE  Lifecycle!Place(o)
<1>1. [p \in Orders |-> orders'[p].status] =
        [[p \in Orders |-> orders[p].status] EXCEPT ![o] = "new"]
  BY DEF CreatedStep
<1>2. [p \in Orders |-> orders'[p].ftype] =
        [[p \in Orders |-> orders[p].ftype] EXCEPT ![o] = orders'[o].ftype]
  BY DEF CreatedStep
<1>3. [p \in Orders |-> orders'[p].method = "bank_transfer"] =
        [[p \in Orders |-> orders[p].method = "bank_transfer"] EXCEPT
           ![o] = (orders'[o].method = "bank_transfer")]
  BY DEF CreatedStep
<1>4. [p \in Orders |-> \E a \in Attempts : attempts'[p][a].paidAt] =
        [p \in Orders |-> \E a \in Attempts : attempts[p][a].paidAt]
  BY DEF CreatedStep, Funded, FundedNext
<1>5. orders'[o].ftype \in FulfillmentTypes
  BY DEF LifeInv, MoneyInv, FundingInv, TypeOK, OrderRow
<1>6. orders[o].status = "none"
  BY DEF CreatedStep
<1> QED
  BY <1>1, <1>2, <1>3, <1>4, <1>5, <1>6
     DEF Lifecycle!Place, Lifecycle!FulfillmentTypes, FulfillmentTypes, IsBank, Funded

LEMMA PlacedIsStep ==
  ASSUME LifeInv, LifeInv', NEW o \in Orders, PlacedStep(o)
  PROVE  Lifecycle!Next \/ UNCHANGED Lifecycle!vars
<1> DEFINE to == orders'[o].status
<1>1. [p \in Orders |-> orders'[p].status] =
        [[p \in Orders |-> orders[p].status] EXCEPT ![o] = to]
  BY DEF PlacedStep
<1>2. [p \in Orders |-> orders'[p].ftype] = [p \in Orders |-> orders[p].ftype]
  BY DEF PlacedStep
<1>3. [p \in Orders |-> orders'[p].method = "bank_transfer"] =
        [p \in Orders |-> orders[p].method = "bank_transfer"]
  BY DEF PlacedStep
<1>4. (FundedNext(o) <=> Funded(o)) =>
        [p \in Orders |-> \E a \in Attempts : attempts'[p][a].paidAt] =
        [p \in Orders |-> \E a \in Attempts : attempts[p][a].paidAt]
  BY DEF PlacedStep, Funded, FundedNext
<1>5. FundedNext(o) =>
        [p \in Orders |-> \E a \in Attempts : attempts'[p][a].paidAt] =
        [[p \in Orders |-> \E a \in Attempts : attempts[p][a].paidAt] EXCEPT ![o] = TRUE]
  BY DEF PlacedStep, Funded, FundedNext
<1>6. CASE to = orders[o].status
  <2>1. [p \in Orders |-> orders'[p].status] = [p \in Orders |-> orders[p].status]
    BY <1>6 DEF PlacedStep
  <2>2. CASE FundedNext(o) <=> Funded(o)
    BY <1>2, <1>3, <1>4, <2>1, <2>2 DEF Lifecycle!vars, IsBank, Funded
  <2>3. CASE ~ (FundedNext(o) <=> Funded(o))
    <3>1. FundedNext(o) /\ orders[o].status # "none"
      BY <2>3 DEF PlacedStep
    <3>2. Lifecycle!Fund(o)
      BY <1>2, <1>3, <1>5, <2>1, <3>1 DEF Lifecycle!Fund, IsBank, Funded
    <3> QED
      BY <3>2 DEF Lifecycle!Next
  <2> QED
    BY <2>2, <2>3
<1>7. CASE to # orders[o].status
  <2>1. Follows(orders[o].status, to, orders[o].ftype) /\ (to # "cancelled" /\ IsBank(o) => Funded(o))
    BY <1>7 DEF PlacedStep
  <2>2. \/ FundedNext(o) <=> Funded(o)
        \/ FundedNext(o) /\ to = "delivered" /\ ~ IsBank(o)
    BY <1>7 DEF PlacedStep
  <2>3. CASE <<orders[o].status, to>> \in Steps(orders[o].ftype)
    <3>1. PICK s \in OrderStatuses : s = to /\ s # "cancelled"
      BY <2>3, StepsMeaning DEF OrderStatuses
    <3>2. Lifecycle!Step(o, s)
      BY <1>1, <1>2, <1>3, <1>4, <1>5, <2>1, <2>2, <2>3, <3>1
         DEF Lifecycle!Step, Lifecycle!Steps, Lifecycle!CounterTypes, Lifecycle!CounterSteps,
             Lifecycle!DeliverySteps, Steps, CounterTypes, CounterSteps, DeliverySteps,
             IsBank, Funded
    <3> QED
      BY <3>2 DEF Lifecycle!Next, Lifecycle!OrderStatuses, OrderStatuses
  <2>4. CASE orders[o].status \in InDelivery /\ to = "delivery_failed"
    <3>1. Lifecycle!Fail(o)
      BY <1>1, <1>2, <1>3, <1>4, <2>1, <2>2, <2>4
         DEF Lifecycle!Fail, Lifecycle!InDelivery, InDelivery, IsBank, Funded
    <3> QED
      BY <3>1 DEF Lifecycle!Next
  <2>5. CASE orders[o].status \in {"new", "accepted"} /\ to = "cancelled"
    <3>1. Lifecycle!Cancel(o)
      BY <1>1, <1>2, <1>3, <1>4, <2>2, <2>5 DEF Lifecycle!Cancel, IsBank, Funded
    <3> QED
      BY <3>1 DEF Lifecycle!Next
  <2> QED
    BY <2>1, <2>3, <2>4, <2>5 DEF Follows
<1> QED
  BY <1>6, <1>7

LEMMA InitImplements == Init => Lifecycle!Init
<1> SUFFICES ASSUME Init PROVE Lifecycle!Init
  OBVIOUS
<1>1. /\ orders = [o \in Orders |-> NoOrder]
      /\ \A o \in Orders, a \in Attempts : ~ attempts[o][a].paidAt
  BY DEF Init, NoAttempt
<1>2. /\ [o \in Orders |-> orders[o].status] = [o \in Orders |-> "none"]
      /\ [o \in Orders |-> orders[o].ftype] \in [Orders -> FulfillmentTypes]
  BY <1>1 DEF NoOrder, FulfillmentTypes
<1>3. [o \in Orders |-> orders[o].method = "bank_transfer"] \in [Orders -> BOOLEAN]
  OBVIOUS
<1>4. [o \in Orders |-> \E a \in Attempts : attempts[o][a].paidAt] = [o \in Orders |-> FALSE]
  BY <1>1
<1> QED
  BY <1>2, <1>3, <1>4
     DEF Lifecycle!Init, Lifecycle!FulfillmentTypes, FulfillmentTypes, IsBank, Funded

LEMMA StepImplements ==
  LifeInv /\ LifeInv' /\ [Next]_vars => [Lifecycle!Next]_(Lifecycle!vars)
<1> SUFFICES ASSUME LifeInv, LifeInv', [Next]_vars
             PROVE  Lifecycle!Next \/ UNCHANGED Lifecycle!vars
  OBVIOUS
<1>1. CASE UNCHANGED <<orders, attempts>>
  BY <1>1 DEF Lifecycle!vars, IsBank, Funded
<1>2. ASSUME NEW o \in Orders, CreatedStep(o) PROVE Lifecycle!Next
  BY <1>2, CreatedIsPlace DEF Lifecycle!Next
<1>3. ASSUME NEW o \in Orders, PlacedStep(o)
      PROVE  Lifecycle!Next \/ UNCHANGED Lifecycle!vars
  BY <1>3, PlacedIsStep
<1> QED
  BY <1>1, <1>2, <1>3, OrdersStep

\* Whatever requests overtake each other on an order, those who watch it see it placed, moved
\* along its flow one step at a time, funded, cancelled early or failed on its way.
THEOREM LifecycleImplemented == Spec => ImplementsLifecycle
  BY InitImplements, StepImplements, LifeHolds, PTL DEF Spec, ImplementsLifecycle, Lifecycle!Spec

\* An order that was delivered, cancelled or given up is not brought back, by no request that
\* read it while it was open.
THEOREM ClosedIsFinalHolds == Spec => Lifecycle!ClosedIsFinal
<1> DEFINE Final == \A o \in Orders :
                      orders[o].status \in Lifecycle!ClosedStatuses =>
                        orders'[o].status = orders[o].status
<1>1. LifeInv /\ [Next]_vars => Final
  <2> SUFFICES ASSUME LifeInv, [Next]_vars, NEW o \in Orders,
                      orders[o].status \in Lifecycle!ClosedStatuses
               PROVE  orders'[o].status = orders[o].status
    OBVIOUS
  <2>1. \A to : ~ Follows(orders[o].status, to, orders[o].ftype)
    BY StepsMeaning DEF Lifecycle!ClosedStatuses, Follows, InDelivery
  <2>2. orders[o].status # "none"
    BY DEF Lifecycle!ClosedStatuses
  <2> QED
    BY <2>1, <2>2, OrdersStep DEF CreatedStep, PlacedStep
<1>2. LifeInv /\ [Next]_vars => [Lifecycle!EndsStay]_(Lifecycle!vars)
  BY <1>1 DEF Lifecycle!EndsStay
<1> QED
  BY <1>2, LifeHolds, PTL DEF Spec, Lifecycle!ClosedIsFinal

-----------------------------------------------------------------------------
(***************************************************************************)
(* What an order leaves in the books, the drawer and the stock.            *)
(*                                                                         *)
(* The batch of a transition writes the total it read.  That it is still   *)
(* the order's total comes from the flow: only an order that is new or     *)
(* accepted is amended, a delivery is asked for later than that, and no    *)
(* order comes back.                                                       *)
(***************************************************************************)

SaleOf(o) == IF orders[o].status = "delivered" /\ ~ IsBank(o) THEN orders[o].total ELSE 0

BooksVoided(o) ==
  allocation[o] = "voided" /\ ledger[o].revenue = "voided" /\ ledger[o].commission = "voided"

\* The rows of an order.
EffectsAt(o) ==
  /\ cashSales[o] = SaleOf(o)
  /\ ledger[o].commission = "earned" => orders[o].status = "delivered"
  /\ orders[o].status = "cancelled" => BooksVoided(o)
  /\ orders[o].reason = "by request" =>
       orders[o].status = "cancelled" /\ reservations[o].status # "active"

\* A delivery that is under way has the total of its order.
SalesAreDue ==
  \A h \in Handlers : req[h].at = "advance.commit" /\ req[h].to = "delivered" =>
    /\ orders[req[h].o].status \notin Amendable \cup {"none"}
    /\ req[h].total = orders[req[h].o].total

EffectsInv == LifeInv /\ SalesAreDue /\ \A o \in Orders : EffectsAt(o)

\* The rows of an order that a step does not touch.
SameRows(o) ==
  /\ orders'[o] = orders[o] /\ allocation'[o] = allocation[o]
  /\ ledger'[o].revenue = ledger[o].revenue /\ ledger'[o].commission = ledger[o].commission
  /\ cashSales'[o] = cashSales[o] /\ reservations'[o] = reservations[o]

LEMMA SameEffects ==
  ASSUME EffectsInv, NEW o \in Orders, SameRows(o)
  PROVE  EffectsAt(o)'
BY DEF EffectsInv, EffectsAt, SameRows, SaleOf, IsBank, BooksVoided

-----------------------------------------------------------------------------
(* The fragments of the batches.                                           *)

LEMMA VoidRows ==
  ASSUME TypeOK, NEW o \in Orders, NEW applies \in BOOLEAN, VoidRevenue(o, applies)
  PROVE  /\ \A p \in Orders : p # o => allocation'[p] = allocation[p] /\ ledger'[p] = ledger[p]
         /\ applies => BooksVoided(o)'
         /\ ~ applies => allocation'[o] = allocation[o] /\ ledger'[o] = ledger[o]
BY DEF TypeOK, VoidRevenue, Voided, BooksVoided

LEMMA PostRows ==
  ASSUME TypeOK, NEW o \in Orders, NEW applies \in BOOLEAN, NEW c, PostRevenue(o, c, applies)
  PROVE  /\ \A p \in Orders : p # o => allocation'[p] = allocation[p] /\ ledger'[p] = ledger[p]
         /\ BooksVoided(o) => BooksVoided(o)'
         /\ ledger'[o].commission \in {ledger[o].commission, c}
<1> DEFINE row == [ledger[o] EXCEPT !.revenue = IF @ = "pending" THEN "posted" ELSE @,
                                    !.commission = IF @ = "pending" THEN c ELSE @]
<1>1. ledger \in [Orders -> LedgerRow] /\ ledger[o] \in LedgerRow
  BY DEF TypeOK
<1>2. ledger' = IF applies THEN [ledger EXCEPT ![o] = row] ELSE ledger
  BY <1>1 DEF PostRevenue
<1>3. /\ row.revenue = IF ledger[o].revenue = "pending" THEN "posted" ELSE ledger[o].revenue
      /\ row.commission = IF ledger[o].commission = "pending" THEN c
                          ELSE ledger[o].commission
  BY <1>1 DEF LedgerRow
<1>4. /\ \A p \in Orders : p # o => allocation'[p] = allocation[p]
      /\ allocation[o] = "voided" => allocation'[o] = "voided"
  BY DEF TypeOK, PostRevenue
<1> HIDE DEF row
<1> QED
  BY <1>1, <1>2, <1>3, <1>4 DEF BooksVoided

LEMMA StockRows ==
  ASSUME TypeOK, NEW o \in Orders, NEW applies \in BOOLEAN,
         ReleaseStock(o, applies) \/ ConsumeStock(o, applies)
  PROVE  /\ \A p \in Orders : p # o => reservations'[p] = reservations[p]
         /\ applies => reservations'[o].status # "active"
         /\ reservations[o].status # "active" => reservations'[o].status # "active"
BY DEF TypeOK, ReleaseStock, ConsumeStock, ReservationRow

-----------------------------------------------------------------------------
(* The steps on the rows of an order.                                      *)

LEMMA CreateEffects ==
  ASSUME EffectsInv, NEW h \in Handlers, CreateCommit(h), NEW p \in Orders
  PROVE  EffectsAt(p)'
<1> DEFINE r == req[h]
<1>1. PICK o : o = r.o
  OBVIOUS
<1>2. TypeOK /\ o \in Orders /\ orders[o].status = "none"
  BY <1>1, RequestShape
     DEF EffectsInv, LifeInv, MoneyInv, FundingInv, TypeOK, CreateCommit, CreateRequest,
         CreatesAreNew
<1>3. CASE p # o
  BY <1>1, <1>2, <1>3, SameEffects DEF CreateCommit, SameRows, TypeOK
<1>4. CASE p = o
  <2>1. PICK now : orders' = [orders EXCEPT ![o] = NewOrder(r, now)]
    BY <1>1 DEF CreateCommit
  <2>2. orders'[o].status = "new" /\ orders'[o].reason = ""
    BY <1>2, <2>1 DEF TypeOK, NewOrder
  <2>3. cashSales'[o] = 0
    BY <1>2 DEF CreateCommit, EffectsInv, EffectsAt, SaleOf
  <2>4. ledger'[o].commission = "pending"
    BY <1>1, <1>2 DEF CreateCommit, NewLedger, TypeOK
  <2> QED
    BY <1>4, <2>2, <2>3, <2>4 DEF EffectsAt, SaleOf
<1> QED
  BY <1>3, <1>4

LEMMA AmendEffects ==
  ASSUME EffectsInv, NEW h \in Handlers, AmendCommit(h), NEW p \in Orders
  PROVE  EffectsAt(p)'
<1> DEFINE r == req[h]
<1>1. PICK o : o = r.o
  OBVIOUS
<1>2. TypeOK /\ o \in Orders /\ orders[o] \in OrderRow
  BY <1>1, RequestShape
     DEF EffectsInv, LifeInv, MoneyInv, FundingInv, TypeOK, AmendCommit, AmendRequest
<1>3. PICK now : orders' = [orders EXCEPT ![o].total = r.qty, ![o].updatedAt = now]
  BY <1>1 DEF AmendCommit
<1>4. UNCHANGED <<allocation, ledger, cashSales>>
  BY DEF AmendCommit, books
<1>5. CASE p # o
  <2>1. reservations'[p] = reservations[p]
    BY <1>1, <1>2, <1>5 DEF AmendCommit, Restock, stockRows, TypeOK
  <2> QED
    BY <1>2, <1>3, <1>4, <1>5, <2>1, SameEffects DEF SameRows, TypeOK
<1>6. CASE p = o
  <2>1. orders'[o] = [orders[o] EXCEPT !.total = r.qty, !.updatedAt = now]
    BY <1>2, <1>3 DEF TypeOK
  <2>2. orders'[o].status = orders[o].status /\ orders'[o].reason = orders[o].reason
    BY <1>2, <2>1 DEF OrderRow
  <2>3. orders[o].status \in {"new", "accepted"}
    BY <1>1 DEF AmendCommit, AmendWins, Amendable
  <2> QED
    BY <1>4, <1>6, <2>2, <2>3 DEF EffectsInv, EffectsAt, SaleOf
<1> QED
  BY <1>5, <1>6

LEMMA AdvanceEffects ==
  ASSUME EffectsInv, NEW h \in Handlers, AdvanceCommit(h), NEW p \in Orders
  PROVE  EffectsAt(p)'
<1> DEFINE r == req[h]
           won == AdvanceWins(r)
<1>1. PICK o : o = r.o
  OBVIOUS
<1>2. TypeOK /\ o \in Orders /\ orders[o] \in OrderRow /\ r \in AdvanceRequest
  BY <1>1, RequestShape
     DEF EffectsInv, LifeInv, MoneyInv, FundingInv, TypeOK, AdvanceCommit, AdvanceRequest
<1>3. won \in BOOLEAN
  BY DEF AdvanceWins
<1>4. \A q \in Orders : q # o => reservations'[q] = reservations[q]
                                 /\ allocation'[q] = allocation[q] /\ ledger'[q] = ledger[q]
  BY <1>1, <1>2, <1>3, VoidRows, PostRows, StockRows
     DEF AdvanceCommit, AdvanceBooks, stockRows
<1>5. cashSales' = IF r.cash /\ won /\ cashSales[o] = 0
                   THEN [cashSales EXCEPT ![o] = r.total] ELSE cashSales
  BY <1>1 DEF AdvanceCommit, RecordSale
<1>6. CASE p # o
  <2>1. orders'[p] = orders[p] /\ cashSales'[p] = cashSales[p]
    BY <1>1, <1>2, <1>5, <1>6 DEF AdvanceCommit, TypeOK
  <2> QED
    BY <1>4, <1>6, <2>1, SameEffects DEF SameRows
<1>7. CASE p = o /\ ~ won
  <2>1. orders'[o] = orders[o] /\ cashSales'[o] = cashSales[o]
    BY <1>5, <1>7 DEF AdvanceCommit
  <2>2. allocation'[o] = allocation[o] /\ ledger'[o] = ledger[o]
    BY <1>1, <1>2, <1>7 DEF AdvanceCommit, AdvanceBooks, VoidRevenue, Voided, PostRevenue
  <2>3. reservations'[o] = reservations[o]
    BY <1>1, <1>2, <1>7
       DEF AdvanceCommit, AdvanceBooks, ReleaseStock, ConsumeStock, stockRows
  <2> QED
    BY <1>7, <2>1, <2>2, <2>3, SameEffects DEF SameRows
<1>8. CASE p = o /\ won
  <2>1. PICK now : orders'[o] = AdvancedOrder(r, now)
    BY <1>1, <1>2, <1>8 DEF AdvanceCommit, TypeOK
  <2>2. /\ orders'[o].status = r.to /\ orders'[o].method = orders[o].method
        /\ orders'[o].total = orders[o].total
        /\ r.to # "cancelled" => orders'[o].reason = orders[o].reason
    BY <1>1, <1>2, <2>1 DEF AdvancedOrder, OrderRow
  <2>3. Follows(orders[o].status, r.to, orders[o].ftype)
    BY <1>1, <1>8 DEF AdvanceCommit, AdvanceWins, EffectsInv, LifeInv, AdvancesFollow
  <2>4. orders[o].status \notin {"delivered", "cancelled"}
    BY <2>3, FollowsMeaning DEF ClosedStatuses
  <2>5. orders[o].reason # "by request" /\ cashSales[o] = 0
        /\ ledger[o].commission # "earned"
    BY <1>2, <2>4 DEF EffectsInv, EffectsAt, SaleOf
  <2>6. r.cash <=> r.to = "delivered" /\ ~ IsBank(o)
    BY <1>1 DEF AdvanceCommit, EffectsInv, LifeInv, AdvancesFollow
  <2>7. r.to = "delivered" => r.total = orders[o].total
    BY <1>1 DEF AdvanceCommit, EffectsInv, SalesAreDue
  <2>8. cashSales'[o] = IF r.to = "delivered" /\ ~ IsBank(o) THEN orders[o].total ELSE 0
    BY <1>2, <1>5, <1>8, <2>5, <2>6, <2>7 DEF TypeOK
  <2>9. CASE r.to = "cancelled"
    <3>1. VoidRevenue(o, won) /\ ReleaseStock(o, won)
      BY <1>1, <2>9 DEF AdvanceCommit, AdvanceBooks
    <3>2. BooksVoided(o)' /\ reservations'[o].status # "active"
      BY <1>2, <1>3, <1>8, <3>1, VoidRows, StockRows
    <3>3. ledger'[o].commission = "voided"
      BY <3>2 DEF BooksVoided
    <3>4. EffectsAt(o)'
      BY <2>2, <2>8, <2>9, <3>2, <3>3 DEF EffectsAt, SaleOf, IsBank
    <3> QED
      BY <1>8, <3>4
  <2>10. CASE r.to = "delivered"
    <3>1. EffectsAt(o)'
      BY <2>2, <2>5, <2>8, <2>10 DEF EffectsAt, SaleOf, IsBank
    <3> QED
      BY <1>8, <3>1
  <2>11. CASE r.to \notin {"cancelled", "delivered"}
    <3>1. ledger'[o] = ledger[o]
      BY <2>11 DEF AdvanceCommit, AdvanceBooks
    <3>2. EffectsAt(o)'
      BY <2>2, <2>5, <2>8, <2>11, <3>1 DEF EffectsAt, SaleOf, IsBank
    <3> QED
      BY <1>8, <3>2
  <2> QED
    BY <2>9, <2>10, <2>11
<1> QED
  BY <1>6, <1>7, <1>8

LEMMA AssignEffects ==
  ASSUME EffectsInv, NEW h \in Handlers, AssignCommit(h), NEW p \in Orders
  PROVE  EffectsAt(p)'
<1> DEFINE r == req[h]
<1>1. PICK o : o = r.o
  OBVIOUS
<1>2. TypeOK /\ o \in Orders /\ orders[o] \in OrderRow
  BY <1>1, RequestShape
     DEF EffectsInv, LifeInv, MoneyInv, FundingInv, TypeOK, AssignCommit, AssignRequest
<1>3. UNCHANGED <<allocation, ledger, cashSales, reservations>>
  BY DEF AssignCommit, books, stockRows
<1>4. CASE p # o \/ orders[o].status # "ready"
  BY <1>1, <1>2, <1>3, <1>4, SameEffects DEF AssignCommit, SameRows, TypeOK
<1>5. CASE p = o /\ orders[o].status = "ready"
  <2>1. PICK now :
          orders' = [orders EXCEPT ![o].shipper = r.s, ![o].status = "assigned",
                                   ![o].delivery = "assigned", ![o].updatedAt = now]
    BY <1>1, <1>5 DEF AssignCommit
  <2>2. orders'[o] = [orders[o] EXCEPT !.shipper = r.s, !.status = "assigned",
                                       !.delivery = "assigned", !.updatedAt = now]
    BY <1>2, <2>1 DEF TypeOK
  <2>3. orders'[o].status = "assigned" /\ orders'[o].reason = orders[o].reason
    BY <1>2, <2>2 DEF OrderRow
  <2> QED
    BY <1>2, <1>3, <1>5, <2>3 DEF EffectsInv, EffectsAt, SaleOf
<1> QED
  BY <1>4, <1>5

LEMMA RefundEffects ==
  ASSUME EffectsInv, NEW h \in Handlers, RefundCommit(h), NEW p \in Orders
  PROVE  EffectsAt(p)'
<1> DEFINE r == req[h]
<1>1. PICK o : o = r.o
  OBVIOUS
<1>2. TypeOK /\ o \in Orders /\ orders[o] \in OrderRow /\ r.cancels \in BOOLEAN
  BY <1>1, RequestShape
     DEF EffectsInv, LifeInv, MoneyInv, FundingInv, TypeOK, RefundCommit, RefundRequest
<1>3. VoidRevenue(o, r.cancels) /\ ReleaseStock(o, r.cancels) /\ UNCHANGED cashSales
  BY <1>1 DEF RefundCommit
<1>4. CASE p # o
  <2>1. orders'[p] = orders[p]
    BY <1>1, <1>2, <1>4 DEF RefundCommit, TypeOK
  <2> QED
    BY <1>2, <1>3, <1>4, <2>1, VoidRows, StockRows, SameEffects DEF SameRows
<1>5. CASE p = o
  <2>1. \/ orders'[o] = orders[o]
        \/ AsRead(r) /\ \E now : orders'[o] = RefundedOrder(r, now)
    BY <1>1, <1>2 DEF RefundCommit, TypeOK
  <2>2. \/ orders'[o].status = orders[o].status /\ orders'[o].reason = orders[o].reason
        \/ /\ r.cancels /\ orders[o].status \in {"new", "accepted"}
           /\ orders'[o].status = "cancelled"
    <3>1. AsRead(r) /\ r.cancels => orders[o].status \in {"new", "accepted"}
      BY <1>1 DEF AsRead, RefundCommit, EffectsInv, LifeInv, RefundsCancelEarly
    <3> QED
      BY <1>1, <1>2, <2>1, <3>1 DEF RefundedOrder, Cancelled, OrderRow
  <2>3. orders'[o].total = orders[o].total /\ orders'[o].method = orders[o].method
    BY <1>1, <1>2, <2>1 DEF RefundedOrder, Cancelled, OrderRow
  <2>4. SaleOf(o)' = SaleOf(o)
    BY <2>2, <2>3 DEF SaleOf, IsBank
  <2>5. CASE r.cancels
    <3>1. BooksVoided(o)' /\ reservations'[o].status # "active"
      BY <1>2, <1>3, <2>5, VoidRows, StockRows
    <3>2. EffectsAt(o)'
      BY <1>2, <1>3, <2>2, <2>4, <3>1 DEF EffectsInv, EffectsAt, BooksVoided
    <3> QED
      BY <1>5, <3>2
  <2>6. CASE ~ r.cancels
    <3>1. allocation'[o] = allocation[o] /\ ledger'[o] = ledger[o]
      BY <1>2, <1>3, <2>6, VoidRows
    <3>2. reservations' = reservations
      BY <1>3, <2>6 DEF ReleaseStock
    <3>3. EffectsAt(o)'
      BY <1>2, <1>3, <2>2, <2>4, <2>6, <3>1, <3>2 DEF EffectsInv, EffectsAt, BooksVoided
    <3> QED
      BY <1>5, <3>3
  <2> QED
    BY <2>5, <2>6
<1> QED
  BY <1>4, <1>5

LEMMA WebhookEffects ==
  ASSUME EffectsInv, NEW h \in Handlers, WebhookCommit(h), NEW p \in Orders
  PROVE  EffectsAt(p)'
<1> DEFINE r == req[h]
<1>1. PICK o, a, att : /\ o = transactions[r.t].o
                       /\ a = transactions[r.t].a
                       /\ att = Credit(attempts[o][a], r.sum)
  OBVIOUS
<1>2. TypeOK /\ o \in Orders /\ orders[o] \in OrderRow
  <2>1. TypeOK /\ r.t \in Transfers /\ o # Nowhere
    BY <1>1, ServedTransfer
       DEF EffectsInv, LifeInv, MoneyInv, FundingInv, ServedAsRead, WebhookCommit, AboutTransfer
  <2>2. o \in Orders
    BY <1>1, <2>1 DEF TypeOK, TransactionRow
  <2> QED
    BY <2>1, <2>2 DEF TypeOK
<1>3. PICK now : orders' = [orders EXCEPT ![o] = PaidOrder(orders[o], att.status, now)]
  BY <1>1 DEF WebhookCommit
<1>4. PICK paid \in BOOLEAN : PostRevenue(o, "pending", paid)
  BY <1>1 DEF WebhookCommit, PostRevenue
<1>5. UNCHANGED <<cashSales, reservations>>
  BY DEF WebhookCommit, stockRows
<1>6. CASE p # o
  BY <1>2, <1>3, <1>4, <1>5, <1>6, PostRows, SameEffects DEF SameRows, TypeOK
<1>7. CASE p = o
  <2>1. orders'[o] = PaidOrder(orders[o], att.status, now)
    BY <1>2, <1>3 DEF TypeOK
  <2>2. /\ orders'[o].status = orders[o].status /\ orders'[o].reason = orders[o].reason
        /\ orders'[o].total = orders[o].total /\ orders'[o].method = orders[o].method
    BY <1>2, <2>1 DEF PaidOrder, OrderRow
  <2>3. SaleOf(o)' = SaleOf(o)
    BY <2>2 DEF SaleOf, IsBank
  <2>4. /\ BooksVoided(o) => BooksVoided(o)'
        /\ ledger'[o].commission \in {ledger[o].commission, "pending"}
    BY <1>2, <1>4, PostRows
  <2>5. EffectsAt(o)'
    BY <1>2, <1>5, <2>2, <2>3, <2>4 DEF EffectsInv, EffectsAt
  <2> QED
    BY <1>7, <2>5
<1> QED
  BY <1>6, <1>7

\* The update of an order whose attempt lapsed, and of its books.
LEMMA CloseEffects ==
  ASSUME EffectsInv, NEW o \in Orders, NEW row, NEW empty \in BOOLEAN, NEW now,
         row = orders[o] \/ row = Expired(orders[o], empty, now),
         CloseUnpaid(o, row, empty, now), UNCHANGED <<cashSales, reservations>>,
         NEW p \in Orders
  PROVE  EffectsAt(p)'
<1> DEFINE applies == empty /\ ClosedAt(row, now)
<1>1. TypeOK /\ orders[o] \in OrderRow
  BY DEF EffectsInv, LifeInv, MoneyInv, FundingInv, TypeOK
<1>2. VoidRevenue(o, applies) /\ applies \in BOOLEAN
  BY DEF CloseUnpaid, ClosedAt
<1>3. orders' = [orders EXCEPT ![o] = row]
  BY DEF CloseUnpaid
<1>4. orders'[o] = row
  BY <1>1, <1>3 DEF TypeOK
<1>5. /\ row.total = orders[o].total /\ row.method = orders[o].method
      /\ \/ row.status = orders[o].status /\ row.reason = orders[o].reason
         \/ /\ orders[o].status = "new" /\ row.status = "cancelled"
            /\ row.reason = "payment_expired" /\ applies
  BY <1>1 DEF Expired, Cancelled, OrderRow, ClosedAt
<1> HIDE DEF applies
<1>6. CASE p # o
  BY <1>1, <1>2, <1>3, <1>6, VoidRows, SameEffects DEF SameRows, TypeOK
<1>7. CASE p = o
  <2>1. SaleOf(o)' = SaleOf(o)
    BY <1>4, <1>5 DEF SaleOf, IsBank
  <2>2. CASE applies
    <3>1. BooksVoided(o)'
      BY <1>1, <1>2, <2>2, VoidRows
    <3>2. EffectsAt(o)'
      BY <1>1, <1>4, <1>5, <2>1, <3>1 DEF EffectsInv, EffectsAt, BooksVoided
    <3> QED
      BY <1>7, <3>2
  <2>3. CASE ~ applies
    <3>1. allocation'[o] = allocation[o] /\ ledger'[o] = ledger[o]
      BY <1>1, <1>2, <2>3, VoidRows
    <3>2. EffectsAt(o)'
      BY <1>1, <1>4, <1>5, <2>1, <2>3, <3>1 DEF EffectsInv, EffectsAt, BooksVoided
    <3> QED
      BY <1>7, <3>2
  <2> QED
    BY <2>2, <2>3
<1> QED
  BY <1>6, <1>7

LEMMA FlagEffects ==
  ASSUME EffectsInv, NEW h \in Handlers, WebhookFlag(h), NEW p \in Orders
  PROVE  EffectsAt(p)'
<1> DEFINE r == req[h]
           o == transactions[r.t].o
<1>1. TypeOK /\ o \in Orders
  BY FlaggedOrder DEF EffectsInv, LifeInv, MoneyInv, FundingInv
<1>2. r.empty \in BOOLEAN
  BY <1>1, RequestShape DEF TypeOK, WebhookFlag, FlagRequest
<1>3. UNCHANGED <<cashSales, reservations>>
  BY DEF WebhookFlag, stockRows
<1>4. CASE r.verdict = "late_payment" /\ r.open
  <2>1. PICK now : CloseUnpaid(o, Expired(orders[o], r.empty, now), r.empty, now)
    BY <1>4 DEF WebhookFlag
  <2> QED
    BY <1>1, <1>2, <1>3, <2>1, CloseEffects
<1>5. CASE ~ (r.verdict = "late_payment" /\ r.open)
  BY <1>3, <1>5, SameEffects DEF WebhookFlag, SameRows
<1> QED
  BY <1>4, <1>5

LEMMA SweepEffects ==
  ASSUME EffectsInv, NEW h \in Handlers, ExpireAttempt(h), NEW p \in Orders
  PROVE  EffectsAt(p)'
<1> DEFINE r == req[h]
           row(d) == IF attempts[d.o][d.a].status \in AwaitsMoney
                     THEN Expired(orders[d.o], d.empty, r.now) ELSE orders[d.o]
<1>1. PICK d \in r.due : CloseUnpaid(d.o, row(d), d.empty, r.now)
  BY DEF ExpireAttempt, SweptOrder, Hit
<1>2. d.o \in Orders /\ d.empty \in BOOLEAN
  <2>1. r \in SweepRequest
    BY RequestShape DEF EffectsInv, LifeInv, MoneyInv, FundingInv, TypeOK, ExpireAttempt
  <2> QED
    BY <1>1, <2>1 DEF SweepRequest, DueAttempt
<1>3. UNCHANGED <<cashSales, reservations>>
  BY DEF ExpireAttempt, SweptOrder, Hit, stockRows
<1>4. row(d) = Expired(orders[d.o], d.empty, r.now) \/ row(d) = orders[d.o]
  OBVIOUS
<1> HIDE DEF row
<1> QED
  BY <1>1, <1>2, <1>3, <1>4, CloseEffects

LEMMA EffectsStep ==
  ASSUME EffectsInv, [Next]_vars, NEW p \in Orders
  PROVE  EffectsAt(p)'
<1>1. CASE World
  <2>1. CASE ClosePeriod
    <3>1. PICK os : ledger' = [o \in Orders |-> [ledger[o] EXCEPT !.closed = @ \/ o \in os]]
      BY <2>1 DEF ClosePeriod
    <3>2. ledger[p] \in LedgerRow
      BY DEF EffectsInv, LifeInv, MoneyInv, FundingInv, TypeOK
    <3>3. ledger'[p].revenue = ledger[p].revenue /\ ledger'[p].commission = ledger[p].commission
      BY <3>1, <3>2 DEF LedgerRow
    <3> QED
      BY <2>1, <3>3, SameEffects DEF SameRows, ClosePeriod, stockRows
  <2>2. CASE ~ ClosePeriod
    <3>1. UNCHANGED <<orders, books, reservations>>
      BY <1>1, <2>2 DEF World, SendTransfer, Lapse, UpsertStock, stockRows
    <3> QED
      BY <3>1, SameEffects DEF SameRows, books
  <2> QED
    BY <2>1, <2>2
<1>2. ASSUME NEW h \in Handlers, Arrive(h) PROVE EffectsAt(p)'
  <2>1. UNCHANGED <<orders, books, reservations>>
    BY <1>2 DEF Arrive, CreateRead, AdvanceRead, AmendItems, AssignRead,
       RefundRead, WebhookReceive, SweepRead, stockRows
  <2> QED
    BY <2>1, SameEffects DEF SameRows, books
<1>3. ASSUME NEW h \in Handlers, Continue(h) PROVE EffectsAt(p)'
  <2>1. CASE CreateRejected(h) \/ AmendRead(h) \/ AmendRefused(h) \/ AmendRejected(h)
             \/ AssignUpdate(h) \/ RefundInsert(h) \/ WebhookUnmatched(h)
             \/ WebhookLookup(h) \/ WebhookMatch(h) \/ WebhookOvertaken(h)
             \/ WebhookReread(h)
    <3>1. UNCHANGED <<orders, books, reservations>>
      BY <2>1 DEF CreateRejected, AmendRead, AmendRefused, AmendRejected, AssignUpdate,
         RefundInsert, WebhookUnmatched, WebhookLookup, WebhookMatch, WebhookOvertaken,
         WebhookReread, stockRows
    <3> QED
      BY <3>1, SameEffects DEF SameRows, books
  <2> QED
    BY <1>3, <2>1, CreateEffects, AmendEffects, AdvanceEffects, AssignEffects, RefundEffects,
       WebhookEffects, FlagEffects, SweepEffects DEF Continue
<1>4. ASSUME NEW h \in Handlers, BooksClosed(h) \/ Abort(h) PROVE EffectsAt(p)'
  <2>1. UNCHANGED <<orders, books, reservations>>
    BY <1>4 DEF Abort, BooksClosed, stockRows
  <2> QED
    BY <2>1, SameEffects DEF SameRows, books
<1>5. CASE UNCHANGED vars
  BY <1>5, SameEffects DEF vars, SameRows
<1> QED
  BY <1>1, <1>2, <1>3, <1>4, <1>5 DEF Next

LEMMA SalesStep ==
  ASSUME EffectsInv, [Next]_vars
  PROVE  SalesAreDue'
<1> SUFFICES ASSUME NEW h \in Handlers, req'[h].at = "advance.commit", req'[h].to = "delivered"
             PROVE  /\ orders'[req'[h].o].status \notin Amendable \cup {"none"}
                    /\ req'[h].total = orders'[req'[h].o].total
  BY DEF SalesAreDue
<1>1. TypeOK /\ LifeInv
  BY DEF EffectsInv, LifeInv, MoneyInv, FundingInv
<1>2. CASE req'[h] = req[h]
  <2>1. PICK o \in Orders : o = req[h].o
    BY <1>1, <1>2, RequestShape DEF TypeOK, AdvanceRequest
  <2>2. orders[o].status \notin Amendable \cup {"none"} /\ req[h].total = orders[o].total
    BY <1>2, <2>1 DEF EffectsInv, SalesAreDue
  <2>3. \/ orders'[o] = orders[o]
        \/ PlacedStep(o)
    BY <1>1, <2>2, OrdersStep DEF CreatedStep, PlacedStep
  <2>4. CASE PlacedStep(o)
    <3>1. \/ orders'[o].status = orders[o].status
          \/ Follows(orders[o].status, orders'[o].status, orders[o].ftype)
      BY <2>4 DEF PlacedStep
    <3>2. orders'[o].status \notin Amendable \cup {"none"}
      BY <2>2, <3>1, FollowsMeaning DEF Amendable, OrderStatuses
    <3>3. orders'[o].total = orders[o].total
      BY <2>2, <2>4 DEF PlacedStep
    <3> QED
      BY <1>2, <2>1, <2>2, <3>2, <3>3
  <2> QED
    BY <1>2, <2>1, <2>2, <2>3, <2>4
<1>3. CASE AdvanceRead(h)
  <2>1. PICK o, role, r :
          /\ o \in Orders
          /\ r.o = o /\ r.total = orders[o].total
          /\ MayAdvance(role, o, r.to)
          /\ Begin(h, "advance", r)
    BY <1>3 DEF AdvanceRead
  <2>2. req'[h] = r /\ UNCHANGED orders
    BY <1>1, <1>3, <2>1 DEF TypeOK, Begin, AdvanceRead
  <2>3. /\ orders[o].status \in OrderStatuses \ ClosedStatuses
        /\ assertOrderTransition(role, orders[o].status, r.to, orders[o].ftype, orders[o].pay)
    BY <1>1, <2>1 DEF MayAdvance, TypeOK, OrderRow
  <2>4. orders[o].ftype \in CounterTypes => orders[o].status \notin InDelivery
    BY <1>1, <2>1 DEF LifeInv, CounterOrdersStay
  <2>5. Follows(orders[o].status, "delivered", orders[o].ftype)
    BY <2>2, <2>3, <2>4, AllowedFollows
  <2>6. orders[o].status \in {"ready", "delivering"}
    BY <2>5, StepsMeaning DEF Follows
  <2> QED
    BY <2>1, <2>2, <2>6 DEF Amendable
<1> QED
  BY <1>1, <1>2, <1>3, Arrivals

LEMMA InitEffects == Init => EffectsInv
<1> SUFFICES ASSUME Init PROVE EffectsInv
  OBVIOUS
<1>1. SalesAreDue
  BY DEF Init, Idle, SalesAreDue
<1>2. ASSUME NEW o \in Orders PROVE EffectsAt(o)
  BY DEF Init, EffectsAt, SaleOf, NoOrder
<1> QED
  BY <1>1, <1>2, InitLife DEF EffectsInv

LEMMA StepEffects == EffectsInv /\ [Next]_vars => EffectsInv'
<1> SUFFICES ASSUME EffectsInv, [Next]_vars PROVE EffectsInv'
  OBVIOUS
<1>1. LifeInv' /\ SalesAreDue'
  BY StepLife, SalesStep DEF EffectsInv
<1>2. (\A o \in Orders : EffectsAt(o))'
  BY EffectsStep
<1> QED
  BY <1>1, <1>2 DEF EffectsInv

LEMMA EffectsHold == Spec => []EffectsInv
  BY InitEffects, StepEffects, PTL DEF Spec

\* The drawer has taken the total of each cash order that was delivered, and nothing for the
\* others, although the sale writes a total that was read before its order could be amended.
THEOREM CashSaleIsTotalHolds == Spec => []CashSaleIsTotal
<1>1. EffectsInv => CashSaleIsTotal
  BY DEF EffectsInv, EffectsAt, SaleOf, CashSaleIsTotal, Placed
<1> QED
  BY <1>1, EffectsHold, PTL

\* An order that a person cancelled, by order.advance or by a full refund, holds no stock.
THEOREM CancelledByRequestReleasesStockHolds == Spec => []CancelledByRequestReleasesStock
<1>1. EffectsInv => CancelledByRequestReleasesStock
  BY DEF EffectsInv, EffectsAt, CancelledByRequestReleasesStock, Placed, ActiveReservations
<1> QED
  BY <1>1, EffectsHold, PTL

\* The books of a cancelled order are voided, also when a webhook posts its revenue late, and
\* only a delivered order earns its commission.
THEOREM BooksFollowOrder == Spec => [](CancelledEarnsNothing /\ CommissionNeedsDelivery)
<1>1. EffectsInv => CancelledEarnsNothing
  <2> SUFFICES ASSUME EffectsInv, NEW o \in Orders, orders[o].status = "cancelled"
               PROVE  /\ allocation[o] = "voided"
                      /\ ledger[o].revenue = "voided" /\ ledger[o].commission = "voided"
    BY DEF CancelledEarnsNothing, Placed
  <2> QED
    BY DEF EffectsInv, EffectsAt, BooksVoided
<1>2. EffectsInv => CommissionNeedsDelivery
  BY DEF EffectsInv, EffectsAt, CommissionNeedsDelivery
<1> QED
  BY <1>1, <1>2, EffectsHold, PTL

-----------------------------------------------------------------------------
(* The stock row stays valid.                                              *)

LEMMA FloorBounds ==
  ASSUME NEW m \in Nat, NEW n \in Nat, NEW q \in Nat, m <= n
  PROVE  /\ Floor0(m - q) \in Nat /\ Floor0(n - q) \in Nat /\ Floor0(m - q) <= Floor0(n - q)
         /\ Floor0(m - q) <= m
BY DEF Floor0

LEMMA StockStep == TypeOK /\ StockRowValid /\ [Next]_vars => StockRowValid'
<1> SUFFICES ASSUME TypeOK, StockRowValid, [Next]_vars PROVE StockRowValid'
  OBVIOUS
<1>1. /\ stock \in StockRow /\ stock.onHand \in Nat /\ stock.reserved \in Nat
      /\ stock.reserved <= stock.onHand
  BY DEF TypeOK, StockRow, StockRowValid, StockValid
<1>2. CASE UNCHANGED stock
  BY <1>2 DEF StockRowValid
<1>3. CASE UpsertStock
  <2>1. PICK onHand \in 0 .. OnHand :
          \E reserved \in 0 .. onHand, available \in BOOLEAN :
            stock' = [onHand |-> onHand, reserved |-> reserved, available |-> available]
    BY <1>3 DEF UpsertStock
  <2>2. stock'.onHand = onHand /\ stock'.reserved \in 0 .. onHand
    BY <2>1
  <2> QED
    BY <2>2, TablesAssumption DEF StockRowValid, StockValid
<1>4. ASSUME NEW h \in Handlers, CreateCommit(h) PROVE StockRowValid'
  <2>1. /\ stock' = [stock EXCEPT !.reserved = ReservedBy(req[h].qty)]
        /\ StockValid(stock.onHand, ReservedBy(req[h].qty))
    BY <1>4 DEF CreateCommit
  <2>2. stock'.onHand = stock.onHand /\ stock'.reserved = ReservedBy(req[h].qty)
    BY <1>1, <2>1 DEF StockRow
  <2> QED
    BY <2>1, <2>2 DEF StockRowValid
<1>5. ASSUME NEW h \in Handlers, AmendCommit(h) PROVE StockRowValid'
  <2>1. CASE req[h].delta # 0
    <3>1. /\ stock' = [stock EXCEPT !.reserved = @ + req[h].delta]
          /\ StockValid(stock.onHand, stock.reserved + req[h].delta)
      BY <1>5, <2>1 DEF AmendCommit, Restock, RestockPossible
    <3>2. stock'.onHand = stock.onHand /\ stock'.reserved = stock.reserved + req[h].delta
      BY <1>1, <3>1 DEF StockRow
    <3> QED
      BY <3>1, <3>2 DEF StockRowValid
  <2>2. CASE req[h].delta = 0
    BY <1>2, <1>5, <2>2 DEF AmendCommit, Restock, stockRows
  <2> QED
    BY <2>1, <2>2
<1>6. ASSUME NEW o \in Orders, NEW applies,
             ReleaseStock(o, applies) \/ ConsumeStock(o, applies)
      PROVE  StockRowValid'
  <2>1. reservations[o].quantity \in Nat
    BY DEF TypeOK, ReservationRow, Amounts
  <2>2. PICK q \in Nat : q = reservations[o].quantity
    BY <2>1
  <2>3. \/ stock' = stock
        \/ stock' = [stock EXCEPT !.reserved = Floor0(stock.reserved - q)]
        \/ stock' = [stock EXCEPT !.onHand = Floor0(stock.onHand - q),
                                  !.reserved = Floor0(stock.reserved - q)]
    BY <1>6, <2>2 DEF ReleaseStock, ConsumeStock
  <2>4. /\ Floor0(stock.reserved - q) \in Nat /\ Floor0(stock.onHand - q) \in Nat
        /\ Floor0(stock.reserved - q) <= Floor0(stock.onHand - q)
        /\ Floor0(stock.reserved - q) <= stock.reserved
    BY <1>1, FloorBounds
  <2>5. \/ stock' = stock
        \/ /\ stock'.reserved = Floor0(stock.reserved - q)
           /\ stock'.onHand \in {stock.onHand, Floor0(stock.onHand - q)}
    BY <1>1, <2>3 DEF StockRow
  <2> QED
    BY <1>1, <2>4, <2>5 DEF StockRowValid, StockValid
<1>7. ASSUME NEW h \in Handlers, AdvanceCommit(h) PROVE StockRowValid'
  <2>1. req[h].o \in Orders
    BY <1>7, RequestShape DEF TypeOK, AdvanceCommit, AdvanceRequest
  <2> QED
    BY <1>2, <1>6, <1>7, <2>1 DEF AdvanceCommit, AdvanceBooks, stockRows
<1>8. ASSUME NEW h \in Handlers, RefundCommit(h) PROVE StockRowValid'
  <2>1. req[h].o \in Orders
    BY <1>8, RequestShape DEF TypeOK, RefundCommit, RefundRequest
  <2> QED
    BY <1>6, <1>8, <2>1 DEF RefundCommit
<1>9. CASE World
  BY <1>2, <1>3, <1>9 DEF World, SendTransfer, Lapse, ClosePeriod, stockRows
<1>10. ASSUME NEW h \in Handlers, Arrive(h) \/ BooksClosed(h) \/ Abort(h) PROVE StockRowValid'
  BY <1>2, <1>10 DEF Arrive, Abort, BooksClosed, CreateRead, AdvanceRead, AmendItems, AssignRead,
     RefundRead, WebhookReceive, SweepRead, stockRows
<1>11. ASSUME NEW h \in Handlers, Continue(h) PROVE StockRowValid'
  <2>1. CASE CreateRejected(h) \/ AmendRead(h) \/ AmendRefused(h) \/ AmendRejected(h)
             \/ AssignUpdate(h) \/ AssignCommit(h) \/ RefundInsert(h) \/ WebhookUnmatched(h)
             \/ WebhookLookup(h) \/ WebhookMatch(h) \/ WebhookCommit(h) \/ WebhookOvertaken(h)
             \/ WebhookReread(h) \/ WebhookFlag(h) \/ ExpireAttempt(h)
    BY <1>2, <2>1 DEF CreateRejected, AmendRead, AmendRefused, AmendRejected, AssignUpdate,
       AssignCommit, RefundInsert, WebhookUnmatched, WebhookLookup, WebhookMatch,
       WebhookCommit, WebhookOvertaken, WebhookReread, WebhookFlag, ExpireAttempt, stockRows
  <2> QED
    BY <1>4, <1>5, <1>7, <1>8, <1>11, <2>1 DEF Continue
<1>12. CASE UNCHANGED vars
  BY <1>2, <1>12 DEF vars
<1> QED
  BY <1>9, <1>10, <1>11, <1>12 DEF Next

\* However the stock edit, orders, amendments, cancellations and deliveries follow each other,
\* no more is reserved than is on hand: no batch fails on the row it finds.
THEOREM StockRowValidHolds == Spec => []StockRowValid
<1>1. Init => StockRowValid
  BY TablesAssumption DEF Init, StockRowValid, StockValid
<1> QED
  BY <1>1, StockStep, TypesHold, PTL DEF Spec

-----------------------------------------------------------------------------
(***************************************************************************)
(* The counter of the orders in progress.                                  *)
(*                                                                         *)
(* A step opens an order and counts it, or closes one and counts it off,   *)
(* or leaves the open orders alone.  Only a sweep that expires a second    *)
(* attempt of an order it has just cancelled counts off an order twice: it *)
(* recognises its own stamp.                                               *)
(***************************************************************************)

Unopened == {"none", "delivered", "cancelled"}

\* twice: a step may count off an order that it does not close.
CountStep(twice) ==
  \/ /\ Open' = Open
     /\ \/ activeOrders' = activeOrders
        \/ twice /\ activeOrders' = Floor0(activeOrders - 1)
  \/ \E o \in Orders \ Open : Open' = Open \cup {o} /\ activeOrders' = activeOrders + 1
  \/ \E o \in Open : Open' = Open \ {o} /\ activeOrders' = Floor0(activeOrders - 1)

LEMMA SameOpen ==
  ASSUME \A o \in Orders : orders'[o].status = orders[o].status
  PROVE  Open' = Open
BY DEF Open, Placed

\* One order moves.
LEMMA OpenMoves ==
  ASSUME NEW o \in Orders, \A p \in Orders : p # o => orders'[p] = orders[p]
  PROVE  /\ o \in Open <=> orders[o].status \notin Unopened
         /\ orders'[o].status \in Unopened => Open' = Open \ {o}
         /\ orders'[o].status \notin Unopened => Open' = Open \cup {o}
BY DEF Open, Placed, Unopened

LEMMA CreateCount ==
  ASSUME LifeInv, NEW h \in Handlers, CreateCommit(h), NEW twice \in BOOLEAN
  PROVE  CountStep(twice)
<1>1. PICK o \in Orders : CreatedStep(o)
  BY CreateLife
<1>2. o \notin Open /\ Open' = Open \cup {o}
  BY <1>1, OpenMoves DEF CreatedStep, Unopened
<1> QED
  BY <1>2 DEF CountStep, CreateCommit

LEMMA AdvanceCount ==
  ASSUME LifeInv, NEW h \in Handlers, AdvanceCommit(h), NEW twice \in BOOLEAN
  PROVE  CountStep(twice)
<1> DEFINE r == req[h]
           closed == AdvanceWins(r) /\ r.to \in {"delivered", "cancelled"}
<1>1. PICK o \in Orders : o = r.o /\ PlacedStep(o)
  BY AdvanceLife
<1>2. orders[o] \in OrderRow /\ orders \in [Orders -> OrderRow]
  BY DEF LifeInv, MoneyInv, FundingInv, TypeOK
<1>3. activeOrders' = IF closed THEN Floor0(activeOrders - 1) ELSE activeOrders
  BY DEF AdvanceCommit, LeaveActive
<1>4. CASE ~ AdvanceWins(r)
  <2>1. Open' = Open
    BY <1>4, SameOpen DEF AdvanceCommit
  <2> QED
    BY <1>3, <1>4, <2>1 DEF CountStep
<1>5. CASE AdvanceWins(r)
  <2>1. PICK now : orders'[o] = AdvancedOrder(r, now)
    BY <1>1, <1>2, <1>5 DEF AdvanceCommit
  <2>2. orders'[o].status = r.to
    BY <1>1, <1>2, <2>1 DEF AdvancedOrder, OrderRow
  <2>3. Follows(orders[o].status, r.to, orders[o].ftype)
    BY <1>1, <1>5 DEF AdvanceCommit, AdvanceWins, LifeInv, AdvancesFollow
  <2>4. orders[o].status \notin Unopened /\ r.to # "none"
    BY <2>3, FollowsMeaning DEF ClosedStatuses, OrderStatuses, Unopened
  <2>5. CASE r.to \in {"delivered", "cancelled"}
    <3>1. o \in Open /\ Open' = Open \ {o}
      BY <1>1, <2>2, <2>4, <2>5, OpenMoves DEF PlacedStep, Unopened
    <3> QED
      BY <1>3, <1>5, <2>5, <3>1 DEF CountStep
  <2>6. CASE r.to \notin {"delivered", "cancelled"}
    <3>1. o \in Open /\ Open' = Open \cup {o}
      BY <1>1, <2>2, <2>4, <2>6, OpenMoves DEF PlacedStep, Unopened
    <3>2. Open' = Open
      BY <3>1
    <3> QED
      BY <1>3, <2>6, <3>2 DEF CountStep
  <2> QED
    BY <2>5, <2>6
<1> QED
  BY <1>4, <1>5

LEMMA AssignCount ==
  ASSUME LifeInv, NEW h \in Handlers, AssignCommit(h), NEW twice \in BOOLEAN
  PROVE  CountStep(twice)
<1> DEFINE r == req[h]
<1>1. PICK o \in Orders : o = r.o /\ PlacedStep(o)
  BY AssignLife
<1>2. orders[o] \in OrderRow /\ orders \in [Orders -> OrderRow]
  BY DEF LifeInv, MoneyInv, FundingInv, TypeOK
<1>3. activeOrders' = activeOrders
  BY DEF AssignCommit
<1>4. CASE orders[o].status # "ready"
  <2>1. Open' = Open
    BY <1>1, <1>4, SameOpen DEF AssignCommit
  <2> QED
    BY <1>3, <2>1 DEF CountStep
<1>5. CASE orders[o].status = "ready"
  <2>1. PICK now :
          orders' = [orders EXCEPT ![o].shipper = r.s, ![o].status = "assigned",
                                   ![o].delivery = "assigned", ![o].updatedAt = now]
    BY <1>1, <1>5 DEF AssignCommit
  <2>2. orders'[o] = [orders[o] EXCEPT !.shipper = r.s, !.status = "assigned",
                                       !.delivery = "assigned", !.updatedAt = now]
    BY <1>2, <2>1
  <2>3. orders'[o].status = "assigned"
    BY <1>2, <2>2 DEF OrderRow
  <2>4. Open' = Open
    BY <1>1, <1>5, <2>3, OpenMoves DEF PlacedStep, Unopened
  <2> QED
    BY <1>3, <2>4 DEF CountStep
<1> QED
  BY <1>4, <1>5

LEMMA RefundCount ==
  ASSUME LifeInv, NEW h \in Handlers, RefundCommit(h), NEW twice \in BOOLEAN
  PROVE  CountStep(twice)
<1> DEFINE r == req[h]
<1>1. PICK o \in Orders : o = r.o /\ PlacedStep(o)
  BY RefundLife
<1>2. /\ orders[o] \in OrderRow /\ orders \in [Orders -> OrderRow]
      /\ r.cancels \in BOOLEAN
  BY RequestShape DEF LifeInv, MoneyInv, FundingInv, TypeOK, RefundCommit, RefundRequest
<1>3. activeOrders' = IF AsRead(r) /\ r.cancels THEN Floor0(activeOrders - 1) ELSE activeOrders
  BY DEF RefundCommit, LeaveActive
<1>4. CASE AsRead(r) /\ r.cancels
  <2>1. orders[o].status \in {"new", "accepted"}
    BY <1>1, <1>4 DEF AsRead, RefundCommit, LifeInv, RefundsCancelEarly
  <2>2. PICK now : orders'[o] = RefundedOrder(r, now)
    BY <1>1, <1>2, <1>4 DEF RefundCommit
  <2>3. orders'[o].status = "cancelled"
    <3>1. orders'[o] = Cancelled(orders[o], "refunded", "by request", now)
      BY <1>1, <1>4, <2>2 DEF RefundedOrder
    <3> QED
      BY <1>2, <3>1 DEF Cancelled, OrderRow
  <2>4. o \in Open /\ Open' = Open \ {o}
    BY <1>1, <2>1, <2>3, OpenMoves DEF PlacedStep, Unopened
  <2> QED
    BY <1>3, <1>4, <2>4 DEF CountStep
<1>5. CASE ~ (AsRead(r) /\ r.cancels)
  <2>1. orders'[o].status = orders[o].status
    <3>1. CASE AsRead(r)
      <4>1. PICK now : orders'[o] = RefundedOrder(r, now)
        BY <1>1, <1>2, <3>1 DEF RefundCommit
      <4> QED
        BY <1>1, <1>2, <1>5, <3>1, <4>1 DEF RefundedOrder, OrderRow
    <3>2. CASE ~ AsRead(r)
      BY <3>2 DEF RefundCommit
    <3> QED
      BY <3>1, <3>2
  <2>2. Open' = Open
    BY <1>1, <2>1, SameOpen DEF PlacedStep
  <2> QED
    BY <1>3, <1>5, <2>2 DEF CountStep
<1> QED
  BY <1>4, <1>5

LEMMA CloseCount ==
  ASSUME TypeOK, NEW o \in Orders, NEW row, NEW empty \in BOOLEAN, NEW now,
         NEW twice \in BOOLEAN, twice \/ orders[o].updatedAt # now,
         row = orders[o] \/ row = Expired(orders[o], empty, now),
         CloseUnpaid(o, row, empty, now)
  PROVE  CountStep(twice)
<1> DEFINE applies == empty /\ ClosedAt(row, now)
<1>1. orders[o] \in OrderRow
  BY DEF TypeOK
<1>2. orders'[o] = row /\ \A p \in Orders : p # o => orders'[p] = orders[p]
  BY DEF CloseUnpaid, TypeOK
<1>3. activeOrders' = IF applies THEN Floor0(activeOrders - 1) ELSE activeOrders
  BY DEF CloseUnpaid, LeaveActive
<1>4. \/ row.status = orders[o].status /\ (twice \/ ~ applies)
      \/ orders[o].status = "new" /\ row.status = "cancelled" /\ applies
  BY <1>1 DEF Expired, Cancelled, OrderRow, ClosedAt
<1> HIDE DEF applies
<1>5. CASE row.status = orders[o].status /\ (twice \/ ~ applies)
  <2>1. Open' = Open
    BY <1>2, <1>5, SameOpen
  <2> QED
    BY <1>3, <1>5, <2>1 DEF CountStep
<1>6. CASE orders[o].status = "new" /\ row.status = "cancelled" /\ applies
  <2>1. o \in Open /\ Open' = Open \ {o}
    BY <1>2, <1>6, OpenMoves DEF Unopened
  <2> QED
    BY <1>3, <1>6, <2>1 DEF CountStep
<1> QED
  BY <1>4, <1>5, <1>6

\* What a sweep knows of its stamp: it is no other sweep's, and no order has it yet.
SweepsAreFresh ==
  \A h \in Handlers : req[h].at = "sweep.expire" =>
    /\ \A g \in Handlers : req[g].at = "sweep.expire" /\ req[g].now = req[h].now => g = h
    /\ \A d \in req[h].due : orders[d.o].updatedAt # req[h].now
    /\ \A d, e \in req[h].due : d.o = e.o => d = e

\* A new stamp is one that nobody holds.
LEMMA FreshIsNew ==
  ASSUME NEW now \in FreshStamps
  PROVE  now \in Stamps \ UsedStamps
  BY DEF FreshStamps

LEMMA FlagCount ==
  ASSUME LifeInv, NEW h \in Handlers, WebhookFlag(h), NEW twice \in BOOLEAN
  PROVE  CountStep(twice)
<1> DEFINE r == req[h]
           o == transactions[r.t].o
<1>1. TypeOK /\ o \in Orders
  BY FlaggedOrder DEF LifeInv, MoneyInv, FundingInv
<1>2. r.empty \in BOOLEAN
  BY <1>1, RequestShape DEF TypeOK, WebhookFlag, FlagRequest
<1>3. CASE r.verdict = "late_payment" /\ r.open
  <2>1. PICK now \in FreshStamps :
          CloseUnpaid(o, Expired(orders[o], r.empty, now), r.empty, now)
    BY <1>3 DEF WebhookFlag
  <2>2. orders[o].updatedAt # now
    BY <1>1, FreshIsNew DEF UsedStamps
  <2> QED
    BY <1>1, <1>2, <2>1, <2>2, CloseCount
<1>4. CASE ~ (r.verdict = "late_payment" /\ r.open)
  BY <1>4, SameOpen DEF WebhookFlag, CountStep
<1> QED
  BY <1>3, <1>4

LEMMA SweepCount ==
  ASSUME LifeInv, NEW h \in Handlers, ExpireAttempt(h),
         NEW twice \in BOOLEAN, twice \/ SweepsAreFresh
  PROVE  CountStep(twice)
<1> DEFINE r == req[h]
           row(d) == IF attempts[d.o][d.a].status \in AwaitsMoney
                     THEN Expired(orders[d.o], d.empty, r.now) ELSE orders[d.o]
<1>1. PICK d \in r.due : CloseUnpaid(d.o, row(d), d.empty, r.now)
  BY DEF ExpireAttempt, SweptOrder, Hit
<1>2. TypeOK /\ d.o \in Orders /\ d.empty \in BOOLEAN
  <2>1. TypeOK /\ r \in SweepRequest
    BY RequestShape DEF LifeInv, MoneyInv, FundingInv, TypeOK, ExpireAttempt
  <2> QED
    BY <1>1, <2>1 DEF SweepRequest, DueAttempt
<1>3. twice \/ orders[d.o].updatedAt # r.now
  BY <1>1 DEF SweepsAreFresh, ExpireAttempt
<1>4. row(d) = Expired(orders[d.o], d.empty, r.now) \/ row(d) = orders[d.o]
  OBVIOUS
<1> HIDE DEF row
<1> QED
  BY <1>1, <1>2, <1>3, <1>4, CloseCount

LEMMA ActiveSteps ==
  ASSUME LifeInv, [Next]_vars, NEW twice \in BOOLEAN, twice \/ SweepsAreFresh
  PROVE  CountStep(twice)
<1>1. ASSUME UNCHANGED <<orders, activeOrders>> PROVE CountStep(twice)
  BY <1>1, SameOpen DEF CountStep
<1>2. CASE World
  BY <1>1, <1>2 DEF World, SendTransfer, Lapse, UpsertStock, ClosePeriod
<1>3. ASSUME NEW h \in Handlers, Arrive(h) \/ BooksClosed(h) \/ Abort(h) PROVE CountStep(twice)
  BY <1>1, <1>3 DEF Arrive, Abort, BooksClosed, CreateRead, AdvanceRead, AmendItems, AssignRead,
     RefundRead, WebhookReceive, SweepRead
<1>4. ASSUME NEW h \in Handlers, Continue(h) PROVE CountStep(twice)
  <2>1. CASE CreateRejected(h) \/ AmendRead(h) \/ AmendRefused(h) \/ AmendRejected(h)
             \/ AssignUpdate(h) \/ RefundInsert(h) \/ WebhookUnmatched(h)
             \/ WebhookLookup(h) \/ WebhookMatch(h) \/ WebhookOvertaken(h)
             \/ WebhookReread(h)
    BY <1>1, <2>1 DEF CreateRejected, AmendRead, AmendRefused, AmendRejected, AssignUpdate,
       RefundInsert, WebhookUnmatched, WebhookLookup, WebhookMatch, WebhookOvertaken,
       WebhookReread
  <2>2. CASE AmendCommit(h)
    <3>1. PICK o, now : orders' = [orders EXCEPT ![o].total = req[h].qty, ![o].updatedAt = now]
      BY <2>2 DEF AmendCommit
    <3>2. \A p \in Orders : orders'[p].status = orders[p].status
      <4>1. orders \in [Orders -> OrderRow]
        BY DEF LifeInv, MoneyInv, FundingInv, TypeOK
      <4>2. ASSUME NEW p \in Orders, p = o PROVE orders'[p].status = orders[p].status
        <5>1. orders'[p] = [orders[p] EXCEPT !.total = req[h].qty, !.updatedAt = now]
          BY <3>1, <4>1, <4>2
        <5>2. orders[p] \in OrderRow
          BY <4>1
        <5> QED
          BY <5>1, <5>2 DEF OrderRow
      <4>3. ASSUME NEW p \in Orders, p # o PROVE orders'[p].status = orders[p].status
        BY <3>1, <4>1, <4>3
      <4> QED
        BY <4>2, <4>3
    <3>3. activeOrders' = activeOrders
      BY <2>2 DEF AmendCommit
    <3> QED
      BY <3>2, <3>3, SameOpen DEF CountStep
  <2>3. CASE WebhookCommit(h)
    <3>1. PICK o, status, now : orders' = [orders EXCEPT ![o] = PaidOrder(orders[o], status, now)]
      BY <2>3 DEF WebhookCommit
    <3>2. \A p \in Orders : orders'[p].status = orders[p].status
      <4>1. orders \in [Orders -> OrderRow]
        BY DEF LifeInv, MoneyInv, FundingInv, TypeOK
      <4> QED
        BY <3>1, <4>1 DEF PaidOrder, OrderRow
    <3>3. activeOrders' = activeOrders
      BY <2>3 DEF WebhookCommit
    <3> QED
      BY <3>2, <3>3, SameOpen DEF CountStep
  <2> QED
    BY <1>4, <2>1, <2>2, <2>3, CreateCount, AdvanceCount, AssignCount, RefundCount,
       FlagCount, SweepCount DEF Continue
<1>5. CASE UNCHANGED vars
  BY <1>1, <1>5 DEF vars
<1> QED
  BY <1>2, <1>3, <1>4, <1>5 DEF Next

LEMMA OpenIsFinite == IsFiniteSet(Open) /\ Cardinality(Open) \in Nat
<1>1. Open \in SUBSET Orders
  BY DEF Open, Placed
<1> QED
  BY <1>1, TablesAssumption, FS_Subset, FS_CardinalityType

LEMMA CounterFollows ==
  ASSUME TypeOK, NEW twice \in BOOLEAN, CountStep(twice)
  PROVE  /\ ActiveNotOverCounted => ActiveNotOverCounted'
         /\ ~ twice /\ ActiveCounted => ActiveCounted'
<1>1. activeOrders \in Nat
  BY DEF TypeOK
<1>2. PICK n \in Nat : n = Cardinality(Open)
  BY OpenIsFinite
<1>3. CASE Open' = Open /\ activeOrders' = activeOrders
  BY <1>3 DEF ActiveNotOverCounted, ActiveCounted
<1>4. CASE Open' = Open /\ twice /\ activeOrders' = Floor0(activeOrders - 1)
  BY <1>1, <1>2, <1>4 DEF ActiveNotOverCounted, Floor0
<1>5. ASSUME NEW o \in Orders \ Open,
             Open' = Open \cup {o} /\ activeOrders' = activeOrders + 1
      PROVE  /\ ActiveNotOverCounted => ActiveNotOverCounted'
             /\ ActiveCounted => ActiveCounted'
  <2>1. Cardinality(Open \cup {o}) = n + 1
    BY <1>2, OpenIsFinite, FS_AddElement
  <2> QED
    BY <1>1, <1>2, <1>5, <2>1 DEF ActiveNotOverCounted, ActiveCounted
<1>6. ASSUME NEW o \in Open,
             Open' = Open \ {o} /\ activeOrders' = Floor0(activeOrders - 1)
      PROVE  /\ ActiveNotOverCounted => ActiveNotOverCounted'
             /\ ActiveCounted => ActiveCounted'
  <2>1. Cardinality(Open \ {o}) = n - 1 /\ n - 1 \in Nat
    <3>1. Cardinality(Open \ {o}) = n - 1 /\ IsFiniteSet(Open \ {o})
      BY <1>2, OpenIsFinite, FS_RemoveElement
    <3> QED
      BY <3>1, FS_CardinalityType
  <2> QED
    BY <1>1, <1>2, <1>6, <2>1 DEF ActiveNotOverCounted, ActiveCounted, Floor0
<1> QED
  BY <1>3, <1>4, <1>5, <1>6 DEF CountStep

\* The site never counts more orders in progress than there are, whoever closes them and
\* however often: what it cannot rule out is that it counts fewer.
THEOREM ActiveNotOverCountedHolds == Spec => []ActiveNotOverCounted
<1>1. Init => ActiveNotOverCounted
  <2> SUFFICES ASSUME Init PROVE ActiveNotOverCounted
    OBVIOUS
  <2>1. activeOrders = 0
    BY DEF Init
  <2> QED
    BY <2>1, OpenIsFinite DEF ActiveNotOverCounted
<1>2. LifeInv /\ ActiveNotOverCounted /\ [Next]_vars => ActiveNotOverCounted'
  BY ActiveSteps, CounterFollows DEF LifeInv, MoneyInv, FundingInv
<1> QED
  BY <1>1, <1>2, LifeHolds, PTL DEF Spec

-----------------------------------------------------------------------------
(* With one payment attempt to an order the counter is exact.              *)

\* Every row a step writes bears a stamp that nobody held, but those of a sweep.
Stamped ==
  \A o \in Orders :
    \/ orders'[o].updatedAt = orders[o].updatedAt
    \/ orders'[o].updatedAt \notin UsedStamps

SweptStep(h, d) ==
  /\ d \in req[h].due /\ req[h].at = "sweep.expire"
  /\ \A o \in Orders : o # d.o => orders'[o].updatedAt = orders[o].updatedAt
  /\ orders'[d.o].updatedAt \in {orders[d.o].updatedAt, req[h].now}
  /\ req'[h] # Idle => req'[h].now = req[h].now /\ req'[h].due = req[h].due \ {d}
  /\ \A g \in Handlers : g # h => req'[g] = req[g]

\* One row is written.
LEMMA OneStamped ==
  ASSUME TypeOK, NEW o \in Orders, NEW row, orders' = [orders EXCEPT ![o] = row],
         NEW now \in FreshStamps, row.updatedAt \in {orders[o].updatedAt, now}
  PROVE  Stamped
<1>1. now \notin UsedStamps
  BY FreshIsNew
<1> QED
  BY <1>1 DEF TypeOK, Stamped

LEMMA SameStamps ==
  ASSUME UNCHANGED orders
  PROVE  Stamped
BY DEF Stamped

LEMMA CommitStamped ==
  ASSUME LifeInv, NEW h \in Handlers,
         \/ CreateCommit(h) \/ AmendCommit(h) \/ AdvanceCommit(h) \/ AssignCommit(h)
         \/ RefundCommit(h) \/ WebhookCommit(h) \/ WebhookFlag(h)
  PROVE  Stamped
<1> DEFINE r == req[h]
<1>1. TypeOK
  BY DEF LifeInv, MoneyInv, FundingInv
<1>2. CASE UNCHANGED orders
  BY <1>2, SameStamps
<1>3. CASE ~ WebhookCommit(h) /\ ~ WebhookFlag(h) /\ ~ UNCHANGED orders
  <2>1. r.o \in Orders /\ orders[r.o] \in OrderRow
    BY <1>1, <1>3, RequestShape DEF TypeOK, CreateCommit, AmendCommit, AdvanceCommit,
       AssignCommit, RefundCommit, CreateRequest, AmendRequest, AdvanceRequest, AssignRequest,
       RefundRequest
  <2>2. CASE CreateCommit(h)
    <3>1. PICK now \in FreshStamps : orders' = [orders EXCEPT ![r.o] = NewOrder(r, now)]
      BY <2>2 DEF CreateCommit
    <3>2. NewOrder(r, now).updatedAt = now
      BY DEF NewOrder
    <3> QED
      BY <1>1, <2>1, <3>1, <3>2, OneStamped
  <2>3. CASE AmendCommit(h)
    <3>1. PICK now \in FreshStamps :
            orders' = [orders EXCEPT ![r.o].total = r.qty, ![r.o].updatedAt = now]
      BY <2>3 DEF AmendCommit
    <3> DEFINE row == [orders[r.o] EXCEPT !.total = r.qty, !.updatedAt = now]
    <3>2. orders' = [orders EXCEPT ![r.o] = row]
      BY <1>1, <2>1, <3>1 DEF TypeOK
    <3>3. row.updatedAt = now
      BY <2>1 DEF OrderRow
    <3> QED
      BY <1>1, <2>1, <3>2, <3>3, OneStamped
  <2>4. CASE AdvanceCommit(h)
    <3>1. PICK now \in FreshStamps : orders' = [orders EXCEPT ![r.o] = AdvancedOrder(r, now)]
      BY <1>3, <2>4 DEF AdvanceCommit
    <3>2. AdvancedOrder(r, now).updatedAt = now
      BY <2>1 DEF AdvancedOrder, OrderRow
    <3> QED
      BY <1>1, <2>1, <3>1, <3>2, OneStamped
  <2>5. CASE AssignCommit(h)
    <3>1. PICK now \in FreshStamps :
            orders' = [orders EXCEPT ![r.o].shipper = r.s, ![r.o].status = "assigned",
                                     ![r.o].delivery = "assigned", ![r.o].updatedAt = now]
      BY <1>3, <2>5 DEF AssignCommit
    <3> DEFINE row == [orders[r.o] EXCEPT !.shipper = r.s, !.status = "assigned",
                                          !.delivery = "assigned", !.updatedAt = now]
    <3>2. orders' = [orders EXCEPT ![r.o] = row]
      BY <1>1, <2>1, <3>1 DEF TypeOK
    <3>3. row.updatedAt = now
      BY <2>1 DEF OrderRow
    <3> QED
      BY <1>1, <2>1, <3>2, <3>3, OneStamped
  <2>6. CASE RefundCommit(h)
    <3>1. PICK now \in FreshStamps : orders' = [orders EXCEPT ![r.o] = RefundedOrder(r, now)]
      BY <1>3, <2>6 DEF RefundCommit
    <3>2. RefundedOrder(r, now).updatedAt = now
      BY <2>1 DEF RefundedOrder, Cancelled, OrderRow
    <3> QED
      BY <1>1, <2>1, <3>1, <3>2, OneStamped
  <2> QED
    BY <1>3, <2>2, <2>3, <2>4, <2>5, <2>6
<1>4. CASE WebhookCommit(h)
  <2>1. PICK o : o = transactions[r.t].o
    OBVIOUS
  <2>2. PICK status, now : /\ now \in FreshStamps
                           /\ orders' = [orders EXCEPT ![o] = PaidOrder(orders[o], status, now)]
    BY <1>4, <2>1 DEF WebhookCommit
  <2>3. o \in Orders
    <3>1. r.t \in Transfers /\ o # Nowhere
      BY <1>4, <2>1, ServedTransfer
         DEF LifeInv, MoneyInv, ServedAsRead, WebhookCommit, AboutTransfer
    <3> QED
      BY <1>1, <2>1, <3>1 DEF TypeOK, TransactionRow
  <2>4. PaidOrder(orders[o], status, now).updatedAt = now
    BY <1>1, <2>3 DEF TypeOK, PaidOrder, OrderRow
  <2> QED
    BY <1>1, <2>2, <2>3, <2>4, OneStamped
<1>5. CASE WebhookFlag(h) /\ ~ UNCHANGED orders
  <2>1. PICK o : o = transactions[r.t].o
    OBVIOUS
  <2>2. PICK now \in FreshStamps :
          orders' = [orders EXCEPT ![o] = Expired(orders[o], r.empty, now)]
    BY <1>5, <2>1 DEF WebhookFlag, CloseUnpaid
  <2>3. o \in Orders
    BY <1>5, <2>1, FlaggedOrder DEF LifeInv
  <2>4. Expired(orders[o], r.empty, now).updatedAt \in {orders[o].updatedAt, now}
    BY <1>1, <2>3 DEF TypeOK, Expired, Cancelled, OrderRow
  <2> QED
    BY <1>1, <2>2, <2>3, <2>4, OneStamped
<1> QED
  BY <1>2, <1>3, <1>4, <1>5

LEMMA SweepStamped ==
  ASSUME LifeInv, NEW h \in Handlers, ExpireAttempt(h)
  PROVE  \E d : SweptStep(h, d)
<1> DEFINE r == req[h]
           row(d) == IF attempts[d.o][d.a].status \in AwaitsMoney
                     THEN Expired(orders[d.o], d.empty, r.now) ELSE orders[d.o]
<1>1. PICK d \in r.due :
        /\ orders' = [orders EXCEPT ![d.o] = row(d)]
        /\ IF r.due = {d} THEN End(h) ELSE req' = [req EXCEPT ![h].due = @ \ {d}]
  BY DEF ExpireAttempt, SweptOrder, Hit, CloseUnpaid
<1>2. TypeOK /\ r \in SweepRequest /\ d.o \in Orders /\ r.at = "sweep.expire"
  <2>1. TypeOK /\ r \in SweepRequest /\ r.at = "sweep.expire"
    BY RequestShape DEF LifeInv, MoneyInv, FundingInv, TypeOK, ExpireAttempt
  <2> QED
    BY <1>1, <2>1 DEF SweepRequest, DueAttempt
<1>3. row(d).updatedAt \in {orders[d.o].updatedAt, r.now}
  BY <1>2 DEF TypeOK, Expired, Cancelled, OrderRow
<1> HIDE DEF row
<1>4. /\ orders'[d.o].updatedAt \in {orders[d.o].updatedAt, r.now}
      /\ \A o \in Orders : o # d.o => orders'[o].updatedAt = orders[o].updatedAt
  BY <1>1, <1>2, <1>3 DEF TypeOK
<1>5. \A g \in Handlers : g # h => req'[g] = req[g]
  BY <1>1, <1>2 DEF TypeOK, End
<1>6. ASSUME req'[h] # Idle
      PROVE  req'[h].now = r.now /\ req'[h].due = r.due \ {d}
  <2>1. req' = [req EXCEPT ![h].due = @ \ {d}]
    BY <1>1, <1>2, <1>6 DEF TypeOK, End
  <2>2. req'[h] = [r EXCEPT !.due = @ \ {d}]
    BY <1>2, <2>1 DEF TypeOK
  <2> QED
    BY <1>2, <2>2 DEF SweepRequest
<1> QED
  BY <1>1, <1>2, <1>4, <1>5, <1>6 DEF SweptStep

LEMMA StampStep ==
  ASSUME LifeInv, [Next]_vars
  PROVE  \/ Stamped
         \/ \E h \in Handlers : \E d : SweptStep(h, d)
<1>1. CASE World
  BY <1>1, SameStamps DEF World, SendTransfer, Lapse, UpsertStock, ClosePeriod
<1>2. ASSUME NEW h \in Handlers, Arrive(h) \/ BooksClosed(h) \/ Abort(h) PROVE Stamped
  BY <1>2, SameStamps DEF Arrive, Abort, BooksClosed, CreateRead, AdvanceRead, AmendItems, AssignRead,
     RefundRead, WebhookReceive, SweepRead
<1>3. ASSUME NEW h \in Handlers, Continue(h) PROVE Stamped \/ \E d : SweptStep(h, d)
  <2>1. CASE CreateRejected(h) \/ AmendRead(h) \/ AmendRefused(h) \/ AmendRejected(h)
             \/ AssignUpdate(h) \/ RefundInsert(h) \/ WebhookUnmatched(h)
             \/ WebhookLookup(h) \/ WebhookMatch(h) \/ WebhookOvertaken(h)
             \/ WebhookReread(h)
    BY <2>1, SameStamps DEF CreateRejected, AmendRead, AmendRefused, AmendRejected,
       AssignUpdate, RefundInsert, WebhookUnmatched, WebhookLookup, WebhookMatch,
       WebhookOvertaken, WebhookReread
  <2> QED
    BY <1>3, <2>1, CommitStamped, SweepStamped DEF Continue
<1>4. CASE UNCHANGED vars
  BY <1>4, SameStamps DEF vars
<1> QED
  BY <1>1, <1>2, <1>3, <1>4 DEF Next

LEMMA SweepsStep ==
  ASSUME MaxAttempts = 1, LifeInv, SweepsAreFresh, [Next]_vars
  PROVE  SweepsAreFresh'
<1> DEFINE Sweeping == {h \in Handlers : req[h].at = "sweep.expire"}
           SweepingNext == {h \in Handlers : req'[h].at = "sweep.expire"}
<1> SUFFICES ASSUME NEW h \in SweepingNext
             PROVE  /\ \A g \in SweepingNext : req'[g].now = req'[h].now => g = h
                    /\ \A d \in req'[h].due : orders'[d.o].updatedAt # req'[h].now
                    /\ \A d, e \in req'[h].due : d.o = e.o => d = e
  BY DEF SweepsAreFresh
<1>1. TypeOK /\ \A g \in Handlers : req[g] \in Request
  BY DEF LifeInv, MoneyInv, FundingInv, TypeOK
<1>2. ASSUME NEW g \in Sweeping
      PROVE  /\ req[g].now \in UsedStamps
             /\ \A d \in req[g].due : d.o \in Orders
  BY <1>1, RequestShape DEF UsedStamps, SweepRequest, DueAttempt
<1>3. CASE \E g \in Handlers : SweepRead(g)
  <2>1. PICK g \in Handlers : SweepRead(g)
    BY <1>3
  <2>2. PICK now \in FreshStamps, due \in SUBSET AllDue :
          Begin(g, "sweep", [at |-> "sweep.expire", now |-> now, due |-> due])
    BY <2>1 DEF SweepRead
  <2>3. /\ req'[g] = [at |-> "sweep.expire", now |-> now, due |-> due]
        /\ \A k \in Handlers : k # g => req'[k] = req[k]
    BY <1>1, <2>2 DEF TypeOK, Begin
  <2>4. UNCHANGED orders
    BY <2>1 DEF SweepRead
  <2>5. now \notin UsedStamps
    BY FreshIsNew
  <2>6. \A d \in due : d.o \in Orders /\ \E a \in Attempts : d = AsDue(d.o, a)
    BY <2>2 DEF AllDue, AsDue
  <2>7. \A d, e \in due : d.o = e.o => d = e
    BY <2>6 DEF Attempts
  <2>8. \A d \in due : orders[d.o].updatedAt # now
    BY <2>5, <2>6 DEF UsedStamps
  <2>9. CASE h = g
    <3>1. ASSUME NEW k \in SweepingNext, k # g PROVE req'[k].now # now
      BY <1>2, <2>3, <2>5, <3>1
    <3> QED
      BY <2>3, <2>4, <2>7, <2>8, <2>9, <3>1
  <2>10. CASE h # g
    <3>1. h \in Sweeping /\ req'[h] = req[h]
      BY <2>3, <2>10
    <3>2. req'[h].now # now
      BY <1>2, <2>5, <3>1
    <3> QED
      BY <2>3, <2>4, <3>1, <3>2 DEF SweepsAreFresh
  <2> QED
    BY <2>9, <2>10
<1>4. CASE \A g \in Handlers : ~ SweepRead(g)
  <2>1. ASSUME NEW g \in SweepingNext
        PROVE  /\ g \in Sweeping /\ req'[g].now = req[g].now
               /\ req'[g] = req[g] \/ ExpireAttempt(g)
    <3>1. CASE req'[g] = req[g]
      BY <3>1
    <3>2. CASE req'[g] # req[g]
      <4>1. ExpireAttempt(g)
        BY <1>1, <1>4, <3>2, Arrivals
      <4>2. PICK d : SweptStep(g, d)
        BY <4>1, SweepStamped
      <4>3. req'[g] # Idle
        BY DEF Idle
      <4> QED
        BY <4>1, <4>2, <4>3 DEF SweptStep
    <3> QED
      BY <3>1, <3>2
  <2>2. \A g \in SweepingNext : req'[g].now = req'[h].now => g = h
    BY <2>1 DEF SweepsAreFresh
  <2>3. CASE Stamped /\ req'[h] = req[h]
    <3>1. ASSUME NEW d \in req[h].due PROVE orders'[d.o].updatedAt # req[h].now
      BY <1>2, <2>1, <2>3 DEF Stamped, SweepsAreFresh
    <3> QED
      BY <2>1, <2>2, <2>3, <3>1 DEF SweepsAreFresh
  <2>4. ASSUME NEW g \in Handlers, NEW d, SweptStep(g, d), g # h
        PROVE  /\ \A e \in req'[h].due : orders'[e.o].updatedAt # req'[h].now
               /\ \A e, f \in req'[h].due : e.o = f.o => e = f
    <3>1. req'[h] = req[h] /\ h \in Sweeping /\ g \in Sweeping
      BY <2>1, <2>4 DEF SweptStep
    <3>2. req[g].now # req[h].now
      BY <2>4, <3>1 DEF SweepsAreFresh
    <3>3. ASSUME NEW e \in req[h].due PROVE orders'[e.o].updatedAt # req[h].now
      <4>1. e.o \in Orders /\ orders[e.o].updatedAt # req[h].now
        BY <1>2, <3>1 DEF SweepsAreFresh
      <4> QED
        BY <2>4, <3>2, <4>1 DEF SweptStep
    <3> QED
      BY <3>1, <3>3 DEF SweepsAreFresh
  <2>5. ASSUME NEW d, SweptStep(h, d)
        PROVE  /\ \A e \in req'[h].due : orders'[e.o].updatedAt # req'[h].now
               /\ \A e, f \in req'[h].due : e.o = f.o => e = f
    <3>1. /\ h \in Sweeping /\ d \in req[h].due
          /\ req'[h].now = req[h].now /\ req'[h].due = req[h].due \ {d}
      BY <2>1, <2>5 DEF SweptStep, Idle
    <3>2. ASSUME NEW e \in req'[h].due PROVE orders'[e.o].updatedAt # req[h].now
      <4>1. e \in req[h].due /\ e.o \in Orders /\ e.o # d.o
        BY <1>2, <3>1 DEF SweepsAreFresh
      <4> QED
        BY <2>5, <3>1, <4>1 DEF SweptStep, SweepsAreFresh
    <3> QED
      BY <3>1, <3>2 DEF SweepsAreFresh
  <2>6. CASE ExpireAttempt(h)
    <3>1. PICK d : SweptStep(h, d)
      BY <2>6, SweepStamped
    <3> QED
      BY <2>2, <2>5, <3>1
  <2> QED
    BY <2>1, <2>2, <2>3, <2>4, <2>5, <2>6, StampStep
<1> QED
  BY <1>3, <1>4

\* While every order has one payment attempt the counter is exact, although a sweep tells an
\* order it has cancelled by a stamp it drew long before.
THEOREM ActiveCountedHolds ==
  ASSUME MaxAttempts = 1
  PROVE  Spec => []ActiveCounted
<1>1. Init => SweepsAreFresh /\ ActiveCounted
  <2> SUFFICES ASSUME Init PROVE SweepsAreFresh /\ ActiveCounted
    OBVIOUS
  <2>1. SweepsAreFresh
    BY DEF Init, Idle, SweepsAreFresh
  <2>2. Open = {} /\ activeOrders = 0
    BY DEF Init, NoOrder, Open, Placed
  <2> QED
    BY <2>1, <2>2, FS_EmptySet DEF ActiveCounted
<1>2. LifeInv /\ SweepsAreFresh /\ ActiveCounted /\ [Next]_vars
        => SweepsAreFresh' /\ ActiveCounted'
  BY SweepsStep, ActiveSteps, CounterFollows DEF LifeInv, MoneyInv, FundingInv
<1> QED
  BY <1>1, <1>2, LifeHolds, PTL DEF Spec

-----------------------------------------------------------------------------
(***************************************************************************)
(* The kitchen column.                                                     *)
(*                                                                         *)
(* A transition writes what it worked out from the row it read, and the    *)
(* webhook lets a new order into the queue on its own.  order.assign alone *)
(* moves an order and leaves the column at "ready".                        *)
(***************************************************************************)

KitchenAt(o) ==
  CASE orders[o].status = "none" -> TRUE
    [] orders[o].status = "new" ->
         \/ orders[o].kitchen \in {"scheduled", "queued"}
         \/ orders[o].kitchen = "payment-pending" /\ IsBank(o) /\ orders[o].pay # "paid"
    [] OTHER ->
         \/ orders[o].kitchen = kitchenForOrder(orders[o].status, orders[o].kitchen)
         \/ orders[o].status = "assigned" /\ orders[o].kitchen = "ready" /\ "assign" \in Kinds

\* What a request writes into the column goes with the status it writes.
Cooks(r) ==
  /\ r.at = "advance.commit" => r.kitchen = kitchenForOrder(r.to, r.kitchen)
  /\ r.at \in {"assign.update", "assign.commit"} => "assign" \in Kinds

KitchenInv ==
  /\ LifeInv
  /\ \A h \in Handlers : Cooks(req[h])
  /\ \A o \in Orders : KitchenAt(o)

LEMMA CooksStep ==
  ASSUME KitchenInv, [Next]_vars, NEW h \in Handlers
  PROVE  Cooks(req[h])'
<1>1. TypeOK
  BY DEF KitchenInv, LifeInv, MoneyInv, FundingInv
<1>2. CASE req'[h] = req[h]
  BY <1>2 DEF KitchenInv, Cooks
<1>3. CASE AdvanceRead(h)
  <2>1. PICK row, to, r :
          r.at = "advance.commit" /\ r.to = to /\ r.kitchen = kitchenForOrder(to, row.kitchen)
          /\ Begin(h, "advance", r)
    BY <1>3 DEF AdvanceRead
  <2>2. req'[h] = r
    BY <1>1, <2>1 DEF TypeOK, Begin
  <2>3. r.kitchen = kitchenForOrder(r.to, r.kitchen)
    BY <2>1 DEF kitchenForOrder
  <2> QED
    BY <2>1, <2>2, <2>3 DEF Cooks
<1>4. CASE AssignRead(h) \/ AssignUpdate(h)
  <2>1. "assign" \in Kinds
    BY <1>4 DEF AssignRead, AssignUpdate, Begin, KitchenInv, Cooks
  <2>2. req'[h].at # "advance.commit"
    BY <1>1, <1>4, <1>2, Arrivals DEF AssignRead, AssignUpdate, AdvanceRead, Begin, Goto, End, Idle, TypeOK
  <2> QED
    BY <2>1, <2>2 DEF Cooks
<1> QED
  BY <1>1, <1>2, <1>3, <1>4, Arrivals DEF Cooks

-----------------------------------------------------------------------------
(* The steps that write the row of an order.                               *)

LEMMA SameKitchen ==
  ASSUME KitchenInv, NEW o \in Orders, orders'[o] = orders[o]
  PROVE  KitchenAt(o)'
BY DEF KitchenInv, KitchenAt, IsBank

\* A row whose status and method stay.
LEMMA SameStatusKitchen ==
  ASSUME KitchenInv, NEW o \in Orders, orders'[o].status = orders[o].status,
         orders'[o].method = orders[o].method,
         \/ /\ orders'[o].kitchen = orders[o].kitchen
            /\ orders'[o].pay = "paid" => orders[o].pay = "paid" \/ orders[o].kitchen # "payment-pending"
         \/ orders[o].kitchen = "payment-pending" /\ orders'[o].kitchen = "queued"
  PROVE  KitchenAt(o)'
<1>1. KitchenAt(o)
  BY DEF KitchenInv
<1> QED
  BY <1>1 DEF KitchenAt, IsBank, kitchenForOrder, InDelivery

LEMMA CancelledKitchen ==
  ASSUME NEW o \in Orders, orders'[o].status = "cancelled", orders'[o].kitchen = "cancelled"
  PROVE  KitchenAt(o)'
BY DEF KitchenAt, kitchenForOrder, InDelivery

LEMMA CreateKitchen ==
  ASSUME KitchenInv, NEW h \in Handlers, CreateCommit(h), NEW p \in Orders
  PROVE  KitchenAt(p)'
<1>1. PICK r : r = req[h]
  OBVIOUS
<1>2. TypeOK /\ r.o \in Orders /\ r.later \in BOOLEAN
  BY <1>1, RequestShape
     DEF KitchenInv, LifeInv, MoneyInv, FundingInv, TypeOK, CreateCommit, CreateRequest
<1>3. PICK now : orders' = [orders EXCEPT ![r.o] = NewOrder(r, now)]
  BY <1>1 DEF CreateCommit
<1>4. CASE p # r.o
  BY <1>2, <1>3, <1>4, SameKitchen DEF TypeOK
<1>5. CASE p = r.o
  <2>1. orders'[p] = NewOrder(r, now)
    BY <1>2, <1>3, <1>5 DEF TypeOK
  <2>2. /\ NewOrder(r, now).status = "new" /\ NewOrder(r, now).method = r.method
        /\ NewOrder(r, now).pay = "pending"
    BY DEF NewOrder
  <2>3. \/ NewOrder(r, now).kitchen \in {"scheduled", "queued"}
        \/ NewOrder(r, now).kitchen = "payment-pending" /\ r.method = "bank_transfer"
    BY <1>2 DEF NewOrder
  <2> QED
    BY <2>1, <2>2, <2>3 DEF KitchenAt, IsBank
<1> QED
  BY <1>4, <1>5

LEMMA AmendKitchen ==
  ASSUME KitchenInv, NEW h \in Handlers, AmendCommit(h), NEW p \in Orders
  PROVE  KitchenAt(p)'
<1>1. PICK o : o = req[h].o
  OBVIOUS
<1>2. TypeOK /\ o \in Orders /\ orders[o] \in OrderRow
  BY <1>1, RequestShape
     DEF KitchenInv, LifeInv, MoneyInv, FundingInv, TypeOK, AmendCommit, AmendRequest
<1>3. PICK qty, now : orders' = [orders EXCEPT ![o].total = qty, ![o].updatedAt = now]
  BY <1>1 DEF AmendCommit
<1>4. CASE p # o
  BY <1>2, <1>3, <1>4, SameKitchen DEF TypeOK
<1>5. CASE p = o
  <2>1. orders'[o] = [orders[o] EXCEPT !.total = qty, !.updatedAt = now]
    BY <1>2, <1>3 DEF TypeOK
  <2>2. /\ orders'[o].status = orders[o].status /\ orders'[o].method = orders[o].method
        /\ orders'[o].kitchen = orders[o].kitchen /\ orders'[o].pay = orders[o].pay
    BY <1>2, <2>1 DEF OrderRow
  <2> QED
    BY <1>2, <1>5, <2>2, SameStatusKitchen
<1> QED
  BY <1>4, <1>5

LEMMA AdvanceKitchen ==
  ASSUME KitchenInv, NEW h \in Handlers, AdvanceCommit(h), NEW p \in Orders
  PROVE  KitchenAt(p)'
<1>1. PICK r : r = req[h]
  OBVIOUS
<1>2. TypeOK /\ r.o \in Orders /\ orders[r.o] \in OrderRow /\ r \in AdvanceRequest
  BY <1>1, RequestShape
     DEF KitchenInv, LifeInv, MoneyInv, FundingInv, TypeOK, AdvanceCommit, AdvanceRequest
<1>3. PICK now : orders' = IF AdvanceWins(r) THEN [orders EXCEPT ![r.o] = AdvancedOrder(r, now)]
                           ELSE orders
  BY <1>1 DEF AdvanceCommit
<1>4. CASE p # r.o \/ ~ AdvanceWins(r)
  BY <1>2, <1>3, <1>4, SameKitchen DEF TypeOK
<1>5. CASE p = r.o /\ AdvanceWins(r)
  <2>1. orders'[p] = AdvancedOrder(r, now)
    BY <1>2, <1>3, <1>5 DEF TypeOK
  <2>2. orders'[p].status = r.to /\ orders'[p].kitchen = r.kitchen
    BY <1>2, <2>1 DEF AdvancedOrder, OrderRow
  <2>3. r.at = "advance.commit" /\ Follows(r.from, r.to, orders[r.o].ftype)
    BY <1>1 DEF AdvanceCommit, KitchenInv, LifeInv, AdvancesFollow
  <2>4. r.to \notin {"none", "new"}
    BY <2>3, StepsMeaning DEF Follows
  <2>5. r.kitchen = kitchenForOrder(r.to, r.kitchen)
    BY <1>1, <2>3 DEF KitchenInv, Cooks
  <2> QED
    BY <2>2, <2>4, <2>5 DEF KitchenAt
<1> QED
  BY <1>4, <1>5

LEMMA AssignKitchen ==
  ASSUME KitchenInv, NEW h \in Handlers, AssignCommit(h), NEW p \in Orders
  PROVE  KitchenAt(p)'
<1>1. PICK r : r = req[h]
  OBVIOUS
<1>2. TypeOK /\ r.o \in Orders /\ orders[r.o] \in OrderRow
  BY <1>1, RequestShape
     DEF KitchenInv, LifeInv, MoneyInv, FundingInv, TypeOK, AssignCommit, AssignRequest
<1>3. PICK now : orders' = IF orders[r.o].status = "ready"
                           THEN [orders EXCEPT ![r.o].shipper = r.s, ![r.o].status = "assigned",
                                         ![r.o].delivery = "assigned", ![r.o].updatedAt = now]
                           ELSE orders
  BY <1>1 DEF AssignCommit
<1>4. CASE p # r.o \/ orders[r.o].status # "ready"
  BY <1>2, <1>3, <1>4, SameKitchen DEF TypeOK
<1>5. CASE p = r.o /\ orders[r.o].status = "ready"
  <2>1. orders'[p] = [orders[p] EXCEPT !.shipper = r.s, !.status = "assigned",
                                       !.delivery = "assigned", !.updatedAt = now]
    BY <1>2, <1>3, <1>5 DEF TypeOK
  <2>2. orders'[p].status = "assigned" /\ orders'[p].kitchen = orders[p].kitchen
    BY <1>2, <1>5, <2>1 DEF OrderRow
  <2>3. orders[p].kitchen = "ready"
    <3>1. KitchenAt(p) /\ orders[p].status = "ready"
      BY <1>5 DEF KitchenInv
    <3> QED
      BY <3>1 DEF KitchenAt, kitchenForOrder, InDelivery
  <2>4. "assign" \in Kinds
    BY <1>1 DEF AssignCommit, KitchenInv, Cooks
  <2> QED
    BY <2>2, <2>3, <2>4 DEF KitchenAt
<1> QED
  BY <1>4, <1>5

LEMMA RefundKitchen ==
  ASSUME KitchenInv, NEW h \in Handlers, RefundCommit(h), NEW p \in Orders
  PROVE  KitchenAt(p)'
<1>1. PICK r : r = req[h]
  OBVIOUS
<1>2. TypeOK /\ r.o \in Orders /\ orders[r.o] \in OrderRow
  BY <1>1, RequestShape
     DEF KitchenInv, LifeInv, MoneyInv, FundingInv, TypeOK, RefundCommit, RefundRequest
<1>3. PICK now : orders' = IF AsRead(r) THEN [orders EXCEPT ![r.o] = RefundedOrder(r, now)]
                           ELSE orders
  BY <1>1 DEF RefundCommit
<1>4. CASE p # r.o \/ ~ AsRead(r)
  BY <1>2, <1>3, <1>4, SameKitchen DEF TypeOK
<1>5. CASE p = r.o /\ AsRead(r)
  <2>1. orders'[p] = RefundedOrder(r, now)
    BY <1>2, <1>3, <1>5 DEF TypeOK
  <2>2. CASE r.cancels
    BY <1>2, <1>5, <2>1, <2>2, CancelledKitchen DEF RefundedOrder, Cancelled, OrderRow
  <2>3. CASE ~ r.cancels
    <3>1. /\ orders'[p].status = orders[p].status /\ orders'[p].method = orders[p].method
          /\ orders'[p].kitchen = orders[p].kitchen /\ orders'[p].pay # "paid"
      BY <1>2, <1>5, <2>1, <2>3 DEF RefundedOrder, OrderRow
    <3> QED
      BY <3>1, SameStatusKitchen
  <2> QED
    BY <2>2, <2>3
<1> QED
  BY <1>4, <1>5

LEMMA WebhookKitchen ==
  ASSUME KitchenInv, NEW h \in Handlers, WebhookCommit(h), NEW p \in Orders
  PROVE  KitchenAt(p)'
<1>1. PICK o, status, now : orders' = [orders EXCEPT ![o] = PaidOrder(@, status, now)]
  BY DEF WebhookCommit
<1>2. TypeOK /\ orders[p] \in OrderRow
  BY DEF KitchenInv, LifeInv, MoneyInv, FundingInv, TypeOK
<1>3. CASE p # o
  BY <1>1, <1>2, <1>3, SameKitchen DEF TypeOK
<1>4. CASE p = o
  <2>1. orders'[p] = PaidOrder(orders[p], status, now)
    BY <1>1, <1>2, <1>4 DEF TypeOK
  <2>2. orders'[p].status = orders[p].status /\ orders'[p].method = orders[p].method
    BY <1>2, <2>1 DEF PaidOrder, OrderRow
  <2>3. \/ /\ orders'[p].kitchen = orders[p].kitchen
           /\ orders'[p].pay = "paid" => orders[p].pay = "paid" \/ orders[p].kitchen # "payment-pending"
        \/ orders[p].kitchen = "payment-pending" /\ orders'[p].kitchen = "queued"
    BY <1>2, <2>1 DEF PaidOrder, OrderRow
  <2> QED
    BY <2>2, <2>3, SameStatusKitchen
<1> QED
  BY <1>3, <1>4

LEMMA CloseKitchen ==
  ASSUME KitchenInv, NEW o \in Orders, NEW row, NEW empty \in BOOLEAN, NEW now,
         CloseUnpaid(o, row, empty, now),
         row = Expired(orders[o], empty, now) \/ row = orders[o], NEW p \in Orders
  PROVE  KitchenAt(p)'
<1>1. TypeOK /\ orders[o] \in OrderRow /\ orders' = [orders EXCEPT ![o] = row]
  BY DEF KitchenInv, LifeInv, MoneyInv, FundingInv, TypeOK, CloseUnpaid
<1>2. CASE p # o \/ row = orders[o]
  BY <1>1, <1>2, SameKitchen DEF TypeOK
<1>3. CASE p = o /\ row = Expired(orders[o], empty, now)
  <2>1. orders'[p] = Expired(orders[p], empty, now)
    BY <1>1, <1>3 DEF TypeOK
  <2>2. \/ orders'[p] = orders[p]
        \/ orders'[p].status = "cancelled" /\ orders'[p].kitchen = "cancelled"
        \/ /\ orders'[p].status = orders[p].status /\ orders'[p].method = orders[p].method
           /\ orders'[p].kitchen = orders[p].kitchen /\ orders'[p].pay = "expired"
    <3>1. orders[p] \in OrderRow
      BY <1>1, <1>3
    <3>2. CASE empty /\ orders[p].status = "new" /\ orders[p].pay \in AwaitsMoney
      BY <2>1, <3>1, <3>2 DEF Expired, Cancelled, OrderRow
    <3>3. CASE ~ empty /\ orders[p].pay \in AwaitsMoney
      <4>1. orders'[p] = [orders[p] EXCEPT !.pay = "expired", !.updatedAt = now]
        BY <2>1, <3>3 DEF Expired
      <4> QED
        BY <3>1, <4>1 DEF OrderRow
    <3>4. CASE /\ ~ (empty /\ orders[p].status = "new" /\ orders[p].pay \in AwaitsMoney)
               /\ ~ (~ empty /\ orders[p].pay \in AwaitsMoney)
      BY <2>1, <3>4 DEF Expired
    <3> QED
      BY <3>2, <3>3, <3>4
  <2> QED
    BY <2>2, SameKitchen, CancelledKitchen, SameStatusKitchen
<1> QED
  BY <1>2, <1>3

LEMMA FlagKitchen ==
  ASSUME KitchenInv, NEW h \in Handlers, WebhookFlag(h), NEW p \in Orders
  PROVE  KitchenAt(p)'
<1> DEFINE r == req[h]
           o == transactions[r.t].o
<1>1. TypeOK /\ o \in Orders
  BY FlaggedOrder DEF KitchenInv, LifeInv, MoneyInv, FundingInv
<1>2. r.empty \in BOOLEAN
  BY <1>1, RequestShape DEF TypeOK, WebhookFlag, FlagRequest
<1>3. CASE r.verdict = "late_payment" /\ r.open
  <2>1. PICK now : CloseUnpaid(o, Expired(orders[o], r.empty, now), r.empty, now)
    BY <1>3 DEF WebhookFlag
  <2> QED
    BY <1>1, <1>2, <2>1, CloseKitchen
<1>4. CASE ~ (r.verdict = "late_payment" /\ r.open)
  BY <1>4, SameKitchen DEF WebhookFlag
<1> QED
  BY <1>3, <1>4

LEMMA SweepKitchen ==
  ASSUME KitchenInv, NEW h \in Handlers, ExpireAttempt(h), NEW p \in Orders
  PROVE  KitchenAt(p)'
<1> DEFINE r == req[h]
           row(d) == IF attempts[d.o][d.a].status \in AwaitsMoney
                     THEN Expired(orders[d.o], d.empty, r.now) ELSE orders[d.o]
<1>1. PICK d \in r.due : CloseUnpaid(d.o, row(d), d.empty, r.now)
  BY DEF ExpireAttempt, SweptOrder, Hit
<1>2. d.o \in Orders /\ d.empty \in BOOLEAN
  <2>1. r \in SweepRequest
    BY RequestShape DEF KitchenInv, LifeInv, MoneyInv, FundingInv, TypeOK, ExpireAttempt
  <2> QED
    BY <1>1, <2>1 DEF SweepRequest, DueAttempt
<1>3. row(d) = Expired(orders[d.o], d.empty, r.now) \/ row(d) = orders[d.o]
  OBVIOUS
<1> HIDE DEF row
<1> QED
  BY <1>1, <1>2, <1>3, CloseKitchen

LEMMA KitchenStep == KitchenInv /\ [Next]_vars => KitchenInv'
<1> SUFFICES ASSUME KitchenInv, [Next]_vars PROVE KitchenInv'
  OBVIOUS
<1>1. LifeInv' /\ \A h \in Handlers : Cooks(req[h])'
  BY StepLife, CooksStep DEF KitchenInv
<1>2. ASSUME NEW p \in Orders PROVE KitchenAt(p)'
  <2>1. CASE World
    BY <2>1, SameKitchen DEF World, SendTransfer, Lapse, UpsertStock, ClosePeriod
  <2>2. ASSUME NEW h \in Handlers, Arrive(h) PROVE KitchenAt(p)'
    BY <2>2, SameKitchen DEF Arrive, CreateRead, AdvanceRead, AmendItems, AssignRead,
       RefundRead, WebhookReceive, SweepRead
  <2>3. ASSUME NEW h \in Handlers, Continue(h) PROVE KitchenAt(p)'
    <3>1. CASE CreateRejected(h) \/ AmendRead(h) \/ AmendRefused(h) \/ AmendRejected(h)
               \/ AssignUpdate(h) \/ RefundInsert(h) \/ WebhookUnmatched(h)
               \/ WebhookLookup(h) \/ WebhookMatch(h) \/ WebhookOvertaken(h)
               \/ WebhookReread(h)
      BY <3>1, SameKitchen DEF CreateRejected, AmendRead, AmendRefused, AmendRejected,
         AssignUpdate, RefundInsert, WebhookUnmatched, WebhookLookup, WebhookMatch,
         WebhookOvertaken, WebhookReread
    <3> QED
      BY <2>3, <3>1, CreateKitchen, AmendKitchen, AdvanceKitchen, AssignKitchen, RefundKitchen,
         WebhookKitchen, FlagKitchen, SweepKitchen DEF Continue
  <2>4. ASSUME NEW h \in Handlers, BooksClosed(h) \/ Abort(h) PROVE KitchenAt(p)'
    BY <2>4, SameKitchen DEF Abort, BooksClosed
  <2>5. CASE UNCHANGED vars
    BY <2>5, SameKitchen DEF vars
  <2> QED
    BY <2>1, <2>2, <2>3, <2>4, <2>5 DEF Next
<1>3. \A p \in Orders : KitchenAt(p)'
  BY <1>2
<1> QED
  BY <1>1, <1>3 DEF KitchenInv

LEMMA InitKitchen == Init => KitchenInv
<1> SUFFICES ASSUME Init PROVE KitchenInv
  OBVIOUS
<1>1. \A o \in Orders : orders[o].status = "none"
  BY DEF Init, NoOrder
<1>2. \A h \in Handlers : req[h].at = "idle"
  BY DEF Init, Idle
<1> QED
  BY <1>1, <1>2, InitLife DEF KitchenInv, KitchenAt, Cooks

\* The kitchen column goes with the status, whichever handler wrote either of them last, but
\* for an order given to a shipper by order.assign, which leaves the column at "ready".
THEOREM KitchenColumnHolds == Spec => [](\A o \in Orders : KitchenAt(o))
<1>1. KitchenInv => \A o \in Orders : KitchenAt(o)
  BY DEF KitchenInv
<1> QED
  BY <1>1, InitKitchen, KitchenStep, PTL DEF Spec

\* Where the shippers are not assigned by order.assign the column follows without exception.
THEOREM KitchenFollowsStatusHolds ==
  ASSUME "assign" \notin Kinds
  PROVE  Spec => []KitchenFollowsStatus
<1>1. KitchenInv => KitchenFollowsStatus
  <2> SUFFICES ASSUME KitchenInv, NEW o \in Placed
               PROVE  IF orders[o].status = "new"
                      THEN orders[o].kitchen \in {"scheduled", "queued"} \cup
                             (IF IsBank(o) /\ orders[o].pay # "paid" THEN {"payment-pending"} ELSE {})
                      ELSE orders[o].kitchen = kitchenForOrder(orders[o].status, orders[o].kitchen)
    BY DEF KitchenFollowsStatus
  <2>1. KitchenAt(o) /\ orders[o].status # "none"
    BY DEF KitchenInv, Placed
  <2> QED
    BY <2>1 DEF KitchenAt
<1> QED
  BY <1>1, InitKitchen, KitchenStep, PTL DEF Spec

-----------------------------------------------------------------------------
(***************************************************************************)
(* The shipper of the order on its way.                                    *)
(*                                                                         *)
(* A transition frees the shipper it has read on the order, and only if it *)
(* closes the order.  An order gets its shipper when it is ready, and can  *)
(* be on its way without one; none gets a second one.                      *)
(***************************************************************************)

NotCarried == {"none", "new", "accepted", "preparing", "ready"}

CarrierInv ==
  /\ LifeInv /\ CarrierIsBusy
  /\ \A o \in Orders : orders[o].status \in NotCarried => orders[o].shipper = NoShipper

SameShippers == \A o \in Orders : orders'[o].shipper = orders[o].shipper

\* What a step does to shippers: nothing, it closes an order, or it gives one a shipper.
CarrierStep ==
  \/ SameShippers /\ staff' = staff
  \/ SameShippers /\ \E o \in Orders : orders'[o].status \in ClosedStatuses
  \/ \E o \in Orders, s \in Shippers :
       /\ \A p \in Orders \ {o} : orders'[p] = orders[p]
       /\ orders'[o].status = "assigned" /\ orders'[o].shipper = s
       /\ staff' = [staff EXCEPT ![s] = "busy"]

\* An order is written as it is, but for fields that are not the shipper.
LEMMA SameShipper ==
  ASSUME LifeInv, NEW o \in Orders, NEW row, orders' = [orders EXCEPT ![o] = row],
         row.shipper = orders[o].shipper, staff' = staff
  PROVE  CarrierStep
BY DEF LifeInv, MoneyInv, FundingInv, TypeOK, SameShippers, CarrierStep

LEMMA CreateShipper ==
  ASSUME CarrierInv, NEW h \in Handlers, CreateCommit(h)
  PROVE  CarrierStep
<1> DEFINE r == req[h]
<1>1. r.o \in Orders /\ orders[r.o].status = "none"
  BY RequestShape DEF CarrierInv, LifeInv, MoneyInv, FundingInv, TypeOK, CreateCommit,
     CreateRequest, CreatesAreNew
<1>2. PICK now : orders' = [orders EXCEPT ![r.o] = NewOrder(r, now)]
  BY DEF CreateCommit
<1>3. NewOrder(r, now).shipper = orders[r.o].shipper
  BY <1>1 DEF CarrierInv, NotCarried, NewOrder
<1> HIDE DEF r
<1> QED
  BY <1>1, <1>2, <1>3, SameShipper DEF CarrierInv, CreateCommit

LEMMA AmendShipper ==
  ASSUME CarrierInv, NEW h \in Handlers, AmendCommit(h)
  PROVE  CarrierStep
<1> DEFINE r == req[h]
<1>1. r.o \in Orders /\ orders[r.o] \in OrderRow
  BY RequestShape DEF CarrierInv, LifeInv, MoneyInv, FundingInv, TypeOK, AmendCommit, AmendRequest
<1>2. PICK now : orders' = [orders EXCEPT ![r.o].total = r.qty, ![r.o].updatedAt = now]
  BY DEF AmendCommit
<1> DEFINE row == [orders[r.o] EXCEPT !.total = r.qty, !.updatedAt = now]
<1>3. orders' = [orders EXCEPT ![r.o] = row]
  BY <1>1, <1>2 DEF CarrierInv, LifeInv, MoneyInv, FundingInv, TypeOK
<1>4. row.shipper = orders[r.o].shipper
  BY <1>1 DEF OrderRow
<1>5. staff' = staff
  BY DEF AmendCommit
<1> HIDE DEF row, r
<1> QED
  BY <1>1, <1>3, <1>4, <1>5, SameShipper DEF CarrierInv

LEMMA AdvanceShipper ==
  ASSUME CarrierInv, NEW h \in Handlers, AdvanceCommit(h)
  PROVE  CarrierStep
<1> DEFINE r == req[h]
<1>1. r.o \in Orders /\ orders[r.o] \in OrderRow
  BY RequestShape
     DEF CarrierInv, LifeInv, MoneyInv, FundingInv, TypeOK, AdvanceCommit, AdvanceRequest
<1>2. CASE ~ AdvanceWins(r)
  BY <1>2 DEF AdvanceCommit, FreeShipper, CarrierStep, SameShippers
<1>3. CASE AdvanceWins(r)
  <2>1. PICK now : orders' = [orders EXCEPT ![r.o] = AdvancedOrder(r, now)]
    BY <1>3 DEF AdvanceCommit
  <2>2. AdvancedOrder(r, now).shipper = orders[r.o].shipper /\ AdvancedOrder(r, now).status = r.to
    BY <1>1 DEF AdvancedOrder, OrderRow
  <2>3. CASE r.to \in ClosedStatuses
    BY <1>1, <2>1, <2>2, <2>3
       DEF CarrierStep, SameShippers, CarrierInv, LifeInv, MoneyInv, FundingInv, TypeOK
  <2>4. CASE r.to \notin ClosedStatuses
    <3>1. staff' = staff
      BY <2>4 DEF AdvanceCommit, FreeShipper
    <3> HIDE DEF r
    <3> QED
      BY <1>1, <2>1, <2>2, <3>1, SameShipper DEF CarrierInv
  <2> QED
    BY <2>3, <2>4
<1> QED
  BY <1>2, <1>3

LEMMA AssignShipper ==
  ASSUME CarrierInv, NEW h \in Handlers, AssignCommit(h)
  PROVE  CarrierStep
<1> DEFINE r == req[h]
<1>1. r.o \in Orders /\ orders[r.o] \in OrderRow /\ r.s \in Shippers
  BY RequestShape
     DEF CarrierInv, LifeInv, MoneyInv, FundingInv, TypeOK, AssignCommit, AssignRequest
<1>2. CASE orders[r.o].status # "ready"
  BY <1>2 DEF AssignCommit, CarrierStep, SameShippers
<1>3. CASE orders[r.o].status = "ready"
  <2>1. PICK now :
          orders' = [orders EXCEPT ![r.o].shipper = r.s, ![r.o].status = "assigned",
                                   ![r.o].delivery = "assigned", ![r.o].updatedAt = now]
    BY <1>3 DEF AssignCommit
  <2>2. /\ orders'[r.o].status = "assigned" /\ orders'[r.o].shipper = r.s
        /\ \A p \in Orders \ {r.o} : orders'[p] = orders[p]
    BY <1>1, <2>1 DEF OrderRow, CarrierInv, LifeInv, MoneyInv, FundingInv, TypeOK
  <2>3. staff' = [staff EXCEPT ![r.s] = "busy"]
    BY <1>3 DEF AssignCommit
  <2> QED
    BY <1>1, <2>2, <2>3 DEF CarrierStep
<1> QED
  BY <1>2, <1>3

LEMMA RefundShipper ==
  ASSUME CarrierInv, NEW h \in Handlers, RefundCommit(h)
  PROVE  CarrierStep
<1> DEFINE r == req[h]
<1>1. r.o \in Orders /\ orders[r.o] \in OrderRow /\ staff' = staff
  BY RequestShape
     DEF CarrierInv, LifeInv, MoneyInv, FundingInv, TypeOK, RefundCommit, RefundRequest
<1>2. CASE ~ AsRead(r)
  BY <1>1, <1>2 DEF RefundCommit, CarrierStep, SameShippers
<1>3. CASE AsRead(r)
  <2>1. PICK now : orders' = [orders EXCEPT ![r.o] = RefundedOrder(r, now)]
    BY <1>3 DEF RefundCommit
  <2>2. RefundedOrder(r, now).shipper = orders[r.o].shipper
    BY <1>1 DEF RefundedOrder, Cancelled, OrderRow
  <2> HIDE DEF r
  <2> QED
    BY <1>1, <2>1, <2>2, SameShipper DEF CarrierInv
<1> QED
  BY <1>2, <1>3

LEMMA WebhookShipper ==
  ASSUME CarrierInv, NEW h \in Handlers, WebhookCommit(h)
  PROVE  CarrierStep
<1>1. PICK o, status, now : orders' = [orders EXCEPT ![o] = PaidOrder(orders[o], status, now)]
  BY DEF WebhookCommit
<1>2. orders \in [Orders -> OrderRow]
  BY DEF CarrierInv, LifeInv, MoneyInv, FundingInv, TypeOK
<1>3. SameShippers
  BY <1>1, <1>2 DEF SameShippers, PaidOrder, OrderRow
<1> QED
  BY <1>3 DEF WebhookCommit, CarrierStep

LEMMA CloseShipper ==
  ASSUME CarrierInv, NEW o, NEW row, NEW empty, NEW now, staff' = staff,
         row = Expired(orders[o], empty, now) \/ row = orders[o],
         orders' = [orders EXCEPT ![o] = row]
  PROVE  CarrierStep
<1>1. orders \in [Orders -> OrderRow]
  BY DEF CarrierInv, LifeInv, MoneyInv, FundingInv, TypeOK
<1>2. o \in Orders => row.shipper = orders[o].shipper
  BY <1>1 DEF Expired, Cancelled, OrderRow
<1> QED
  BY <1>1, <1>2 DEF CarrierStep, SameShippers

LEMMA FlagShipper ==
  ASSUME CarrierInv, NEW h \in Handlers, WebhookFlag(h)
  PROVE  CarrierStep
<1> DEFINE r == req[h]
           o == transactions[r.t].o
<1>1. staff' = staff
  BY DEF WebhookFlag
<1>2. CASE r.verdict = "late_payment" /\ r.open
  <2>1. PICK now : orders' = [orders EXCEPT ![o] = Expired(orders[o], r.empty, now)]
    BY <1>2 DEF WebhookFlag, CloseUnpaid
  <2> HIDE DEF o, r
  <2> QED
    BY <1>1, <2>1, CloseShipper
<1>3. CASE ~ (r.verdict = "late_payment" /\ r.open)
  BY <1>1, <1>3 DEF WebhookFlag, CarrierStep, SameShippers
<1> QED
  BY <1>2, <1>3

LEMMA SweepShipper ==
  ASSUME CarrierInv, NEW h \in Handlers, ExpireAttempt(h)
  PROVE  CarrierStep
<1> DEFINE r == req[h]
           hit(d) == attempts[d.o][d.a].status \in AwaitsMoney
           row(d) == IF hit(d) THEN Expired(orders[d.o], d.empty, r.now) ELSE orders[d.o]
<1>1. PICK d \in r.due : orders' = [orders EXCEPT ![d.o] = row(d)]
  BY DEF ExpireAttempt, SweptOrder, Hit, CloseUnpaid
<1>2. row(d) = Expired(orders[d.o], d.empty, r.now) \/ row(d) = orders[d.o]
  OBVIOUS
<1>3. staff' = staff
  BY DEF ExpireAttempt, SweptOrder, Hit
<1> HIDE DEF row, hit, r
<1> QED
  BY <1>1, <1>2, <1>3, CloseShipper

LEMMA CarrierSteps ==
  ASSUME CarrierInv, [Next]_vars
  PROVE  CarrierStep
<1>1. ASSUME UNCHANGED <<orders, staff>> PROVE CarrierStep
  BY <1>1 DEF CarrierStep, SameShippers
<1>2. CASE World
  BY <1>1, <1>2 DEF World, SendTransfer, Lapse, UpsertStock, ClosePeriod
<1>3. ASSUME NEW h \in Handlers, Arrive(h) \/ BooksClosed(h) \/ Abort(h) PROVE CarrierStep
  BY <1>1, <1>3 DEF Arrive, Abort, BooksClosed, CreateRead, AdvanceRead, AmendItems, AssignRead,
     RefundRead, WebhookReceive, SweepRead
<1>4. ASSUME NEW h \in Handlers, Continue(h) PROVE CarrierStep
  <2>1. CASE CreateRejected(h) \/ AmendRead(h) \/ AmendRefused(h) \/ AmendRejected(h)
             \/ AssignUpdate(h) \/ RefundInsert(h) \/ WebhookUnmatched(h)
             \/ WebhookLookup(h) \/ WebhookMatch(h) \/ WebhookOvertaken(h)
             \/ WebhookReread(h)
    BY <1>1, <2>1 DEF CreateRejected, AmendRead, AmendRefused, AmendRejected, AssignUpdate,
       RefundInsert, WebhookUnmatched, WebhookLookup, WebhookMatch, WebhookOvertaken,
       WebhookReread
  <2>2. ASSUME WebhookFlag(h) PROVE CarrierStep
    BY <1>1, <2>2, FlagShipper
  <2>3. ASSUME ExpireAttempt(h) PROVE CarrierStep
    BY <1>1, <2>3, SweepShipper
  <2> QED
    BY <1>4, <2>1, <2>2, <2>3, CreateShipper, AmendShipper, AdvanceShipper, AssignShipper,
       RefundShipper, WebhookShipper DEF Continue
<1>5. CASE UNCHANGED vars
  BY <1>1, <1>5 DEF vars
<1> QED
  BY <1>2, <1>3, <1>4, <1>5 DEF Next

\* An order sets out from "ready", and never comes back to where it was not carried.
LEMMA OnItsWay ==
  ASSUME LifeInv, [Next]_vars, NEW o \in Orders
  PROVE  /\ orders'[o].status \in NotCarried => orders[o].status \in NotCarried
         /\ orders'[o].status \in InDelivery => orders[o].status \in InDelivery \cup {"ready"}
<1>1. CASE orders'[o] = orders[o]
  BY <1>1
<1>2. CASE CreatedStep(o)
  BY <1>2 DEF CreatedStep, NotCarried, InDelivery
<1>3. CASE PlacedStep(o)
  BY <1>3, StepsMeaning DEF PlacedStep, Follows, NotCarried, InDelivery
<1> QED
  BY <1>1, <1>2, <1>3, OrdersStep DEF CreatedStep, PlacedStep

LEMMA StepCarrier ==
  ASSUME \A o, p \in Orders : o = p, CarrierInv, [Next]_vars
  PROVE  CarrierInv'
<1>1. LifeInv'
  BY StepLife DEF CarrierInv
<1>2. ASSUME NEW o \in Orders
      PROVE  /\ orders'[o].status \in NotCarried => orders'[o].shipper = NoShipper
             /\ orders'[o].status \in InDelivery /\ orders'[o].shipper # NoShipper =>
                  staff'[orders'[o].shipper] = "busy"
  <2>1. /\ orders[o].status \in NotCarried => orders[o].shipper = NoShipper
        /\ orders[o].status \in InDelivery /\ orders[o].shipper # NoShipper =>
             staff[orders[o].shipper] = "busy"
    BY DEF CarrierInv, CarrierIsBusy, Placed, InDelivery
  <2>2. /\ orders'[o].status \in NotCarried => orders[o].status \in NotCarried
        /\ orders'[o].status \in InDelivery => orders[o].status \in InDelivery \cup {"ready"}
    BY OnItsWay DEF CarrierInv
  <2>3. CASE SameShippers /\ staff' = staff
    BY <2>1, <2>2, <2>3 DEF SameShippers, NotCarried
  <2>4. CASE SameShippers /\ \E p \in Orders : orders'[p].status \in ClosedStatuses
    <3>1. orders'[o].status \in ClosedStatuses
      BY <2>4
    <3> QED
      BY <2>1, <2>2, <2>4, <3>1 DEF SameShippers, InDelivery, ClosedStatuses
  <2>5. ASSUME NEW p \in Orders, NEW s \in Shippers,
               orders'[p].status = "assigned", orders'[p].shipper = s,
               staff' = [staff EXCEPT ![s] = "busy"]
        PROVE  /\ orders'[o].status \notin NotCarried
               /\ staff'[orders'[o].shipper] = "busy"
    <3>1. p = o /\ staff \in [Shippers -> {"available", "busy"}]
      BY DEF CarrierInv, LifeInv, MoneyInv, FundingInv, TypeOK
    <3> QED
      BY <2>5, <3>1 DEF NotCarried
  <2> QED
    BY <2>3, <2>4, <2>5, CarrierSteps DEF CarrierStep
<1> QED
  BY <1>1, <1>2 DEF CarrierInv, CarrierIsBusy, Placed

LEMMA InitCarrier == Init => CarrierInv
<1> SUFFICES ASSUME Init PROVE CarrierInv
  OBVIOUS
<1>1. \A o \in Orders : orders[o].status = "none" /\ orders[o].shipper = NoShipper
  BY DEF Init, NoOrder
<1> QED
  BY <1>1, InitLife DEF CarrierInv, CarrierIsBusy, Placed, InDelivery

\* The shipper of an order on its way is busy, whoever else assigns, advances or amends the
\* order and however late, for any number of shippers and requests.  With a second order two
\* assignments may each find the shipper free (lib/commands-orders.ts:802).
THEOREM CarrierIsBusyHolds ==
  ASSUME \A o, p \in Orders : o = p
  PROVE  Spec => []CarrierIsBusy
<1>1. CarrierInv => CarrierIsBusy
  BY DEF CarrierInv
<1>2. CarrierInv /\ [Next]_vars => CarrierInv'
  BY StepCarrier
<1> QED
  BY <1>1, <1>2, InitCarrier, PTL DEF Spec

-----------------------------------------------------------------------------
(***************************************************************************)
(* Sums of quantities.                                                     *)
(*                                                                         *)
(* A sum over a set is a recursive function, which takes the elements in   *)
(* the order CHOOSE picks them.  That such a function exists, and that the *)
(* order does not matter, is shown on a least counterexample.              *)
(***************************************************************************)

Quantities(rows, S) == MapThenSumSet(LAMBDA o : rows[o].quantity, S)

Pick(s) == CHOOSE x \in s : TRUE

\* One step of the recursion: the sum of s when f has those of its subsets.
Summed(rows, f, s) ==
  IF s = {} THEN 0 ELSE rows[Pick(s)].quantity + f[s \ {Pick(s)}]

SumsOf(rows, S) == CHOOSE f : f = [s \in SUBSET S |-> Summed(rows, f, s)]

Counted(rows, S) == IsFiniteSet(S) /\ \A x \in S : rows[x].quantity \in Nat

LEMMA QuantitiesAreSums ==
  ASSUME NEW rows, NEW S
  PROVE  Quantities(rows, S) = SumsOf(rows, S)[S]
BY DEF Quantities, MapThenSumSet, MapThenFoldSet, SumsOf, Summed, Pick

LEMMA LeastNumber ==
  ASSUME NEW T, T \subseteq Nat, T # {}
  PROVE  \E x \in T : \A y \in T : x <= y
<1>1. PICK x \in T : \A y \in T : ~ (<<y, x>> \in OpToRel(<, Nat))
  BY NatLessThanWellFounded, WFMin
<1>2. \A y \in T : ~ (y < x)
  BY <1>1 DEF OpToRel
<1> QED
  BY <1>2

\* A set of finite sets has one with the fewest elements.
LEMMA LeastSet ==
  ASSUME NEW S, IsFiniteSet(S), NEW U \in SUBSET SUBSET S, U # {}
  PROVE  \E s \in U : \A t \in U : Cardinality(s) <= Cardinality(t)
<1> DEFINE T == {n \in Nat : \E s \in U : Cardinality(s) = n}
<1>1. \A s \in U : Cardinality(s) \in Nat
  BY FS_Subset, FS_CardinalityType
<1>2. T \subseteq Nat /\ T # {}
  BY <1>1
<1>3. PICK n \in T : \A m \in T : n <= m
  <2> HIDE DEF T
  <2> QED
    BY <1>2, LeastNumber
<1> QED
  BY <1>1, <1>3

LEMMA PickedIn ==
  ASSUME NEW s, s # {}
  PROVE  Pick(s) \in s
BY DEF Pick

LEMMA Smaller ==
  ASSUME NEW S, IsFiniteSet(S), NEW s \in SUBSET S, NEW x \in s
  PROVE  /\ s \ {x} \in SUBSET S /\ Cardinality(s) \in Nat \ {0}
         /\ Cardinality(s \ {x}) = Cardinality(s) - 1
<1>1. IsFiniteSet(s)
  BY FS_Subset
<1>2. Cardinality(s) \in Nat /\ Cardinality(s) # 0
  BY <1>1, FS_CardinalityType, FS_EmptySet
<1> QED
  BY <1>1, <1>2, FS_RemoveElement

\* The recursion has a solution.
LEMMA SumsExist ==
  ASSUME NEW rows, NEW S, Counted(rows, S)
  PROVE  \E f \in [SUBSET S -> Nat] : f = [s \in SUBSET S |-> Summed(rows, f, s)]
<1> DEFINE Upto(f, n) == \A s \in SUBSET S : Cardinality(s) <= n => f[s] = Summed(rows, f, s)
           T == {n \in Nat : ~ \E f \in [SUBSET S -> Nat] : Upto(f, n)}
<1>1. IsFiniteSet(S) /\ \A s \in SUBSET S : Cardinality(s) \in Nat
  BY FS_Subset, FS_CardinalityType DEF Counted
<1>2. ASSUME NEW f \in [SUBSET S -> Nat], NEW s \in SUBSET S
      PROVE  Summed(rows, f, s) \in Nat
  <2>1. CASE s = {}
    BY <2>1 DEF Summed
  <2>2. CASE s # {}
    <3>1. Pick(s) \in S /\ rows[Pick(s)].quantity \in Nat /\ f[s \ {Pick(s)}] \in Nat
      BY <2>2, PickedIn DEF Counted
    <3> QED
      BY <2>2, <3>1 DEF Summed
  <2> QED
    BY <2>1, <2>2
<1>3. T = {}
  <2> SUFFICES ASSUME T # {} PROVE FALSE
    OBVIOUS
  <2>1. PICK n \in T : \A m \in T : n <= m
    <3>1. T \subseteq Nat
      OBVIOUS
    <3> HIDE DEF T
    <3> QED
      BY <3>1, LeastNumber
  <2>2. CASE n = 0
    <3> DEFINE z == [s \in SUBSET S |-> 0]
    <3>1. Upto(z, 0)
      <4> SUFFICES ASSUME NEW s \in SUBSET S, Cardinality(s) <= 0
                   PROVE  z[s] = Summed(rows, z, s)
        OBVIOUS
      <4>1. IsFiniteSet(s) /\ Cardinality(s) = 0
        BY <1>1, FS_Subset
      <4>2. s = {}
        BY <4>1, FS_EmptySet
      <4> QED
        BY <4>2 DEF Summed
    <3> QED
      BY <2>1, <2>2, <3>1
  <2>3. CASE n # 0
    <3>1. n - 1 \in Nat /\ n - 1 \notin T
      <4>1. n \in Nat
        BY <2>1
      <4> HIDE DEF T
      <4> QED
        BY <2>1, <2>3, <4>1
    <3>2. PICK f \in [SUBSET S -> Nat] : Upto(f, n - 1)
      BY <3>1
    <3> DEFINE g == [s \in SUBSET S |-> IF Cardinality(s) <= n - 1 THEN f[s] ELSE Summed(rows, f, s)]
    <3>3. g \in [SUBSET S -> Nat]
      BY <1>2
    <3>4. ASSUME NEW s \in SUBSET S, Cardinality(s) <= n
          PROVE  g[s] = Summed(rows, f, s) /\ Summed(rows, f, s) = Summed(rows, g, s)
      <4>1. g[s] = Summed(rows, f, s)
        BY <3>2
      <4>2. CASE s = {}
        <5> HIDE DEF g
        <5> QED
          BY <4>1, <4>2 DEF Summed
      <4>3. CASE s # {}
        <5>1. s \ {Pick(s)} \in SUBSET S /\ Cardinality(s \ {Pick(s)}) <= n - 1
          BY <1>1, <3>1, <3>4, <4>3, PickedIn, Smaller
        <5>2. g[s \ {Pick(s)}] = f[s \ {Pick(s)}]
          BY <5>1
        <5> HIDE DEF g
        <5>3. Summed(rows, f, s) = Summed(rows, g, s)
          BY <5>2 DEF Summed
        <5> QED
          BY <4>1, <5>3
      <4> HIDE DEF g
      <4> QED
        BY <4>1, <4>2, <4>3
    <3> HIDE DEF g
    <3>5. Upto(g, n)
      BY <3>4
    <3> QED
      BY <2>1, <3>3, <3>5
  <2> QED
    BY <2>2, <2>3
<1>4. PICK f \in [SUBSET S -> Nat] : Upto(f, Cardinality(S))
  BY <1>1, <1>3
<1>5. \A s \in SUBSET S : f[s] = Summed(rows, f, s)
  BY <1>1, <1>4, FS_Subset
<1>6. f = [s \in SUBSET S |-> Summed(rows, f, s)]
  BY <1>5
<1> QED
  BY <1>6

\* What the sum of a set is made of.
Solves(f, rows, S) == \A s \in SUBSET S : f[s] = Summed(rows, f, s)

\* Two sums agree on a set whose quantities are the same.
LEMMA SolutionsAgree ==
  ASSUME NEW f, NEW g, NEW rows, NEW other, NEW S, NEW T, IsFiniteSet(S),
         Solves(f, rows, S), Solves(g, other, T), NEW s \in SUBSET S, s \subseteq T,
         \A x \in s : rows[x].quantity = other[x].quantity
  PROVE  f[s] = g[s]
<1> DEFINE U == {u \in SUBSET s : f[u] # g[u]}
<1>1. SUFFICES ASSUME U # {} PROVE FALSE
  OBVIOUS
<1>2. IsFiniteSet(s)
  BY FS_Subset
<1>3. PICK u \in U : \A v \in U : Cardinality(u) <= Cardinality(v)
  <2>1. U \in SUBSET SUBSET s
    OBVIOUS
  <2> HIDE DEF U
  <2> QED
    BY <1>1, <1>2, <2>1, LeastSet
<1>4. u \in SUBSET s /\ u \in SUBSET S /\ u \in SUBSET T /\ f[u] # g[u]
  OBVIOUS
<1>5. f[u] = Summed(rows, f, u) /\ g[u] = Summed(other, g, u)
  BY <1>4 DEF Solves
<1>6. u # {}
  BY <1>4, <1>5 DEF Summed
<1>7. Pick(u) \in u
  BY <1>6, PickedIn
<1>8. /\ u \ {Pick(u)} \in SUBSET s /\ Cardinality(u) \in Nat \ {0}
      /\ Cardinality(u \ {Pick(u)}) = Cardinality(u) - 1
  BY <1>2, <1>4, <1>7, Smaller
<1>9. u \ {Pick(u)} \notin U
  <2> HIDE DEF U
  <2> QED
    BY <1>3, <1>8
<1>10. f[u \ {Pick(u)}] = g[u \ {Pick(u)}]
  BY <1>8, <1>9
<1>11. rows[Pick(u)].quantity = other[Pick(u)].quantity
  BY <1>4, <1>7
<1> QED
  BY <1>4, <1>5, <1>6, <1>10, <1>11 DEF Summed

LEMMA SumsSolve ==
  ASSUME NEW rows, NEW S, Counted(rows, S)
  PROVE  SumsOf(rows, S) \in [SUBSET S -> Nat] /\ Solves(SumsOf(rows, S), rows, S)
<1>1. PICK f \in [SUBSET S -> Nat] : f = [s \in SUBSET S |-> Summed(rows, f, s)]
  BY SumsExist
<1>2. SumsOf(rows, S) = [s \in SUBSET S |-> Summed(rows, SumsOf(rows, S), s)]
  BY <1>1 DEF SumsOf
<1>3. Solves(SumsOf(rows, S), rows, S)
  BY <1>2 DEF Solves
<1>4. Solves(f, rows, S)
  BY <1>1 DEF Solves
<1>5. ASSUME NEW s \in SUBSET S PROVE SumsOf(rows, S)[s] = f[s]
  BY <1>3, <1>4, SolutionsAgree DEF Counted
<1> QED
  BY <1>2, <1>3, <1>5

\* The order in which the elements are taken does not matter.
Additive(f, rows, S) ==
  \A s \in SUBSET S : \A x \in s : f[s] = rows[x].quantity + f[s \ {x}]

LEMMA AnyOrder ==
  ASSUME NEW rows, NEW S, Counted(rows, S), NEW f, f \in [SUBSET S -> Nat], Solves(f, rows, S)
  PROVE  Additive(f, rows, S)
<1> DEFINE U == {u \in SUBSET S : \E x \in u : f[u] # rows[x].quantity + f[u \ {x}]}
<1>1. SUFFICES ASSUME U # {} PROVE FALSE
  BY DEF Additive
<1>2. PICK u \in U : \A v \in U : Cardinality(u) <= Cardinality(v)
  <2>1. U \in SUBSET SUBSET S
    OBVIOUS
  <2> HIDE DEF U
  <2> QED
    BY <1>1, <2>1, LeastSet DEF Counted
<1>3. PICK x \in u : f[u] # rows[x].quantity + f[u \ {x}]
  OBVIOUS
<1>4. PICK y : y = Pick(u)
  OBVIOUS
<1>5. y \in u /\ f[u] = rows[y].quantity + f[u \ {y}]
  BY <1>4, PickedIn DEF Solves, Summed
<1>6. x # y
  BY <1>3, <1>5
<1>7. PICK v, w, z : v = u \ {y} /\ w = u \ {x} /\ z = v \ {x}
  OBVIOUS
<1>8. /\ v \in SUBSET S /\ x \in v /\ w \in SUBSET S /\ y \in w
      /\ z \in SUBSET S /\ w \ {y} = z
  BY <1>3, <1>5, <1>6, <1>7
<1>9. /\ Cardinality(u) \in Nat \ {0}
      /\ Cardinality(v) = Cardinality(u) - 1 /\ Cardinality(w) = Cardinality(u) - 1
  BY <1>3, <1>5, <1>7, Smaller DEF Counted
<1>10. v \notin U
  <2> HIDE DEF U
  <2> QED
    BY <1>2, <1>9
<1>11. f[v] = rows[x].quantity + f[z]
  BY <1>7, <1>8, <1>10
<1>12. f[w] = rows[y].quantity + f[z]
  <2>1. w \notin U
    <3> HIDE DEF U
    <3> QED
      BY <1>2, <1>9
  <2> QED
    BY <1>8, <2>1
<1>13. rows[x].quantity \in Nat /\ rows[y].quantity \in Nat /\ f[z] \in Nat
  BY <1>3, <1>5, <1>8 DEF Counted
<1>14. f[u] = rows[x].quantity + f[w]
  <2> HIDE DEF U
  <2> QED
    BY <1>5, <1>7, <1>11, <1>12, <1>13
<1> QED
  BY <1>3, <1>7, <1>14

-----------------------------------------------------------------------------
(* What the sums of the reservations are used for.                         *)

LEMMA QuantitiesOfNone ==
  ASSUME NEW rows
  PROVE  Quantities(rows, {}) = 0
<1>1. Counted(rows, {})
  BY FS_EmptySet DEF Counted
<1> QED
  BY <1>1, QuantitiesAreSums, SumsSolve DEF Solves, Summed

LEMMA QuantitiesType ==
  ASSUME NEW rows, NEW S, Counted(rows, S)
  PROVE  Quantities(rows, S) \in Nat
<1>1. PICK f : f = SumsOf(rows, S)
  OBVIOUS
<1>2. f \in [SUBSET S -> Nat] /\ S \in SUBSET S
  BY <1>1, SumsSolve
<1> QED
  BY <1>1, <1>2, QuantitiesAreSums

Alike(rows, other, S) == \A x \in S : rows[x].quantity = other[x].quantity

LEMMA QuantitiesSame ==
  ASSUME NEW rows, NEW other, NEW S, Counted(rows, S), Alike(rows, other, S)
  PROVE  Quantities(rows, S) = Quantities(other, S)
<1>1. Counted(other, S) /\ S \in SUBSET S
  BY DEF Counted, Alike
<1>2. PICK f, g : f = SumsOf(rows, S) /\ g = SumsOf(other, S)
  OBVIOUS
<1>3. Solves(f, rows, S) /\ Solves(g, other, S)
  BY <1>1, <1>2, SumsSolve
<1>4. f[S] = g[S]
  BY <1>1, <1>3, SolutionsAgree DEF Counted, Alike
<1> QED
  BY <1>2, <1>4, QuantitiesAreSums

LEMMA QuantitiesWithout ==
  ASSUME NEW rows, NEW S, Counted(rows, S), NEW x \in S
  PROVE  Quantities(rows, S) = rows[x].quantity + Quantities(rows, S \ {x})
<1>1. PICK f, g : f = SumsOf(rows, S) /\ g = SumsOf(rows, S \ {x})
  OBVIOUS
<1>2. Counted(rows, S \ {x})
  BY FS_RemoveElement DEF Counted
<1>3. /\ f \in [SUBSET S -> Nat] /\ Solves(f, rows, S)
      /\ Solves(g, rows, S \ {x})
  BY <1>1, <1>2, SumsSolve
<1>4. Additive(f, rows, S)
  BY <1>3, AnyOrder
<1>5. f[S] = rows[x].quantity + f[S \ {x}]
  BY <1>4 DEF Additive
<1>6. f[S \ {x}] = g[S \ {x}]
  BY <1>3, SolutionsAgree DEF Counted
<1> QED
  BY <1>1, <1>5, <1>6, QuantitiesAreSums

-----------------------------------------------------------------------------
(***************************************************************************)
(* The stock is what the orders hold and took.                             *)
(*                                                                         *)
(* Where nobody edits the stock row or amends an order: an edit overwrites *)
(* the row under live reservations, and an amendment may move the reserved *)
(* count by a difference taken from items that another amendment replaced. *)
(***************************************************************************)

In(rows, status) == {o \in Orders : rows[o].status = status}
QuantityIn(rows, status) == Quantities(rows, In(rows, status))
Share(row, status) == IF row.status = status THEN row.quantity ELSE 0

LEMMA QuantityInType ==
  ASSUME NEW rows \in [Orders -> ReservationRow], NEW status
  PROVE  /\ Counted(rows, In(rows, status)) /\ QuantityIn(rows, status) \in Nat
         /\ \A o \in Orders : Share(rows[o], status) \in Nat
<1>1. \A o \in Orders : rows[o].quantity \in Nat
  BY TablesAssumption DEF ReservationRow, Amounts
<1>2. IsFiniteSet(In(rows, status))
  BY FS_Subset, TablesAssumption DEF In
<1>3. Counted(rows, In(rows, status))
  BY <1>1, <1>2 DEF Counted, In
<1> QED
  BY <1>1, <1>3, QuantitiesType DEF QuantityIn, Share

\* An order's own share, and the rest.
LEMMA ShareAndRest ==
  ASSUME NEW rows \in [Orders -> ReservationRow], NEW status, NEW o \in Orders
  PROVE  /\ QuantityIn(rows, status)
              = Share(rows[o], status) + Quantities(rows, In(rows, status) \ {o})
         /\ Counted(rows, In(rows, status) \ {o})
         /\ Quantities(rows, In(rows, status) \ {o}) \in Nat
<1>1. PICK S : S = In(rows, status)
  OBVIOUS
<1>2. Counted(rows, S)
  BY <1>1, QuantityInType
<1>3. Counted(rows, S \ {o}) /\ Quantities(rows, S \ {o}) \in Nat
  <2>1. Counted(rows, S \ {o})
    BY <1>2, FS_RemoveElement DEF Counted
  <2> QED
    BY <2>1, QuantitiesType
<1>4. CASE o \in S
  <2>1. Quantities(rows, S) = rows[o].quantity + Quantities(rows, S \ {o})
    BY <1>2, <1>4, QuantitiesWithout
  <2>2. Share(rows[o], status) = rows[o].quantity
    BY <1>1, <1>4 DEF Share, In
  <2> QED
    BY <1>1, <1>3, <2>1, <2>2 DEF QuantityIn
<1>5. CASE o \notin S
  <2>1. S \ {o} = S
    BY <1>5
  <2>2. Share(rows[o], status) = 0
    BY <1>1, <1>5 DEF Share, In
  <2> QED
    BY <1>1, <1>3, <2>1, <2>2 DEF QuantityIn
<1> QED
  BY <1>4, <1>5

LEMMA ShareMoves ==
  ASSUME NEW rows \in [Orders -> ReservationRow], NEW o \in Orders, NEW row \in ReservationRow,
         NEW status, NEW next, next = [rows EXCEPT ![o] = row]
  PROVE  QuantityIn(next, status)
           = QuantityIn(rows, status) - Share(rows[o], status) + Share(row, status)
<1>1. PICK R : R = In(rows, status) \ {o}
  OBVIOUS
<1>2. next \in [Orders -> ReservationRow] /\ next[o] = row
  OBVIOUS
<1>3. In(next, status) \ {o} = R
  BY <1>1 DEF In
<1>4. /\ QuantityIn(rows, status) = Share(rows[o], status) + Quantities(rows, R)
      /\ Counted(rows, R) /\ Quantities(rows, R) \in Nat
  BY <1>1, ShareAndRest
<1>5. QuantityIn(next, status) = Share(row, status) + Quantities(next, R)
  BY <1>2, <1>3, ShareAndRest
<1>6. Quantities(rows, R) = Quantities(next, R)
  <2>1. Alike(rows, next, R)
    BY <1>1 DEF In, Alike
  <2> QED
    BY <1>4, <2>1, QuantitiesSame
<1>7. Share(rows[o], status) \in Nat /\ Share(row, status) \in Nat
  BY <1>2, QuantityInType
<1> QED
  BY <1>4, <1>5, <1>6, <1>7

\* No amendment is under way.
NoAmend == \A h \in Handlers : req[h].at \notin {"amend.read", "amend.commit"}

\* An order that is not there holds nothing.
NoneHeld == \A o \in Orders : orders[o].status = "none" => reservations[o].status = "none"

\* What the rows sum up to.
Conserved ==
  /\ stock.reserved = QuantityIn(reservations, "active")
  /\ stock.onHand + QuantityIn(reservations, "consumed") = OnHand

StockInv ==
  LifeInv /\ StockRowValid /\ stock.available /\ NoAmend /\ NoneHeld /\ Conserved

\* What a step may do to the stock rows: nothing, or with one order's reservation what it
\* does with the counts.
StockStays ==
  UNCHANGED <<stock, reservations>>

StockMoves(o) ==
  \E row \in ReservationRow :
    /\ reservations' = [reservations EXCEPT ![o] = row]
    /\ orders'[o].status # "none" /\ stock'.available = stock.available
    /\ stock'.reserved = stock.reserved - Share(reservations[o], "active") + Share(row, "active")
    /\ stock'.onHand = stock.onHand + Share(reservations[o], "consumed") - Share(row, "consumed")

LEMMA MovesKeep ==
  ASSUME StockInv, [Next]_vars, NEW o \in Orders, StockMoves(o)
  PROVE  /\ stock'.available
         /\ \A p \in Orders : orders'[p].status = "none" => reservations'[p].status = "none"
         /\ stock'.reserved = QuantityIn(reservations', "active")
         /\ stock'.onHand + QuantityIn(reservations', "consumed") = OnHand
<1>1. /\ TypeOK /\ reservations \in [Orders -> ReservationRow]
      /\ stock.onHand \in Nat /\ stock.reserved \in Nat
  BY DEF StockInv, LifeInv, MoneyInv, FundingInv, TypeOK, StockRow
<1>2. PICK row \in ReservationRow :
        /\ reservations' = [reservations EXCEPT ![o] = row]
        /\ orders'[o].status # "none" /\ stock'.available = stock.available
        /\ stock'.reserved = stock.reserved - Share(reservations[o], "active") + Share(row, "active")
        /\ stock'.onHand
             = stock.onHand + Share(reservations[o], "consumed") - Share(row, "consumed")
  BY DEF StockMoves
<1>3. PICK next : next = reservations'
  OBVIOUS
<1>4. next \in [Orders -> ReservationRow] /\ next[o] = row
      /\ \A p \in Orders : p # o => next[p] = reservations[p]
  BY <1>1, <1>2, <1>3
<1>5. /\ QuantityIn(next, "active")
           = QuantityIn(reservations, "active") - Share(reservations[o], "active") + Share(row, "active")
      /\ QuantityIn(next, "consumed")
           = QuantityIn(reservations, "consumed") - Share(reservations[o], "consumed")
             + Share(row, "consumed")
  BY <1>1, <1>2, <1>3, ShareMoves
<1>6. /\ Share(reservations[o], "active") \in Nat /\ Share(row, "active") \in Nat
      /\ Share(reservations[o], "consumed") \in Nat /\ Share(row, "consumed") \in Nat
      /\ QuantityIn(reservations, "consumed") \in Nat /\ OnHand \in Nat
  BY <1>1, <1>4, QuantityInType, TablesAssumption
<1>7. stock'.reserved = QuantityIn(next, "active")
  BY <1>2, <1>5 DEF StockInv, Conserved
<1>8. stock'.onHand + QuantityIn(next, "consumed") = OnHand
  <2>1. stock.onHand + QuantityIn(reservations, "consumed") = OnHand
    BY DEF StockInv, Conserved
  <2> QED
    BY <1>1, <1>2, <1>5, <1>6, <2>1
<1>9. ASSUME NEW p \in Orders, orders'[p].status = "none" PROVE reservations'[p].status = "none"
  <2>1. p # o
    BY <1>2, <1>9
  <2>2. orders[p].status = "none"
    BY <1>9, PlacedKeep DEF StockInv
  <2> QED
    BY <1>3, <1>4, <2>1, <2>2 DEF StockInv, NoneHeld
<1> QED
  BY <1>2, <1>3, <1>7, <1>8, <1>9 DEF StockInv, NoneHeld, Conserved

-----------------------------------------------------------------------------
(* The steps that write the stock rows.                                    *)

LEMMA CreateStock ==
  ASSUME StockInv, NEW h \in Handlers, CreateCommit(h)
  PROVE  req[h].o \in Orders /\ StockMoves(req[h].o)
<1>1. PICK r : r = req[h]
  OBVIOUS
<1>2. /\ TypeOK /\ r.o \in Orders /\ r.qty \in Amounts /\ r.qty \in Nat
      /\ stock \in StockRow /\ stock.onHand \in Nat /\ stock.reserved \in Nat
  BY <1>1, RequestShape, TablesAssumption
     DEF StockInv, LifeInv, MoneyInv, FundingInv, TypeOK, CreateCommit, CreateRequest, Amounts, StockRow
<1>3. orders[r.o].status = "none"
  BY <1>1 DEF StockInv, LifeInv, MoneyInv, FundingInv, CreatesAreNew, CreateCommit
<1>4. reservations[r.o].status = "none"
  BY <1>2, <1>3 DEF StockInv, NoneHeld
<1>5. PICK row : row = [quantity |-> r.qty, status |-> "active"]
  OBVIOUS
<1>6. row \in ReservationRow /\ reservations' = [reservations EXCEPT ![r.o] = row]
  BY <1>1, <1>2, <1>5 DEF ReservationRow, CreateCommit
<1>7. /\ stock'.reserved = stock.reserved + r.qty
      /\ stock'.onHand = stock.onHand /\ stock'.available = stock.available
  BY <1>1, <1>2 DEF CreateCommit, ReservedBy, StockInv, StockRow
<1>8. orders'[r.o].status # "none"
  <2>1. PICK now : orders' = [orders EXCEPT ![r.o] = NewOrder(r, now)]
    BY <1>1 DEF CreateCommit
  <2>2. NewOrder(r, now).status = "new"
    BY DEF NewOrder
  <2> QED
    BY <1>2, <2>1, <2>2 DEF TypeOK
<1>9. /\ Share(reservations[r.o], "active") = 0 /\ Share(reservations[r.o], "consumed") = 0
      /\ Share(row, "active") = r.qty /\ Share(row, "consumed") = 0
  BY <1>4, <1>5 DEF Share
<1>10. /\ stock'.reserved = stock.reserved - 0 + r.qty
       /\ stock'.onHand = stock.onHand + 0 - 0
  BY <1>2, <1>7
<1>11. StockMoves(r.o)
  BY <1>6, <1>7, <1>8, <1>9, <1>10 DEF StockMoves
<1> QED
  BY <1>1, <1>2, <1>11

\* A batch that closes the reservation of an order that is there: gives back what it holds,
\* or takes it from the shelf.
LEMMA CloseStock ==
  ASSUME StockInv, NEW o \in Orders, NEW applies \in BOOLEAN, orders'[o].status # "none",
         ReleaseStock(o, applies) \/ ConsumeStock(o, applies)
  PROVE  StockStays \/ StockMoves(o)
<1>1. PICK row, q : row = reservations[o] /\ q = row.quantity
  OBVIOUS
<1>2. /\ reservations \in [Orders -> ReservationRow] /\ row \in ReservationRow /\ q \in Nat
      /\ stock \in StockRow /\ stock.onHand \in Nat /\ stock.reserved \in Nat
      /\ stock.reserved <= stock.onHand
  BY <1>1, TablesAssumption
     DEF StockInv, LifeInv, MoneyInv, FundingInv, TypeOK, ReservationRow, Amounts, StockRow,
         StockRowValid, StockValid
<1>3. CASE ~ (applies /\ row.status = "active")
  BY <1>1, <1>3 DEF ReleaseStock, ConsumeStock, StockStays
<1>4. CASE applies /\ row.status = "active"
  <2>1. q <= stock.reserved
    <3>1. /\ stock.reserved = Share(row, "active") + Quantities(reservations, In(reservations, "active") \ {o})
          /\ Quantities(reservations, In(reservations, "active") \ {o}) \in Nat
      BY <1>1, <1>2, ShareAndRest DEF StockInv, Conserved
    <3>2. Share(row, "active") = q
      BY <1>1, <1>4 DEF Share
    <3> QED
      BY <1>2, <3>1, <3>2
  <2>2. Floor0(stock.reserved - q) = stock.reserved - q /\ Floor0(stock.onHand - q) = stock.onHand - q
    BY <1>2, <2>1 DEF Floor0
  <2>3. PICK to \in {"released", "consumed"} :
          /\ reservations' = [reservations EXCEPT ![o].status = to]
          /\ stock' = IF to = "released" THEN [stock EXCEPT !.reserved = stock.reserved - q]
                      ELSE [stock EXCEPT !.onHand = stock.onHand - q,
                                         !.reserved = stock.reserved - q]
    <3>1. CASE ReleaseStock(o, applies)
      <4>1. /\ reservations' = [reservations EXCEPT ![o].status = "released"]
            /\ stock' = [stock EXCEPT !.reserved = stock.reserved - q]
        BY <1>1, <1>4, <2>2, <3>1 DEF ReleaseStock
      <4> QED
        BY <4>1
    <3>2. CASE ConsumeStock(o, applies)
      <4>1. /\ reservations' = [reservations EXCEPT ![o].status = "consumed"]
            /\ stock' = [stock EXCEPT !.onHand = stock.onHand - q, !.reserved = stock.reserved - q]
        BY <1>1, <1>4, <2>2, <3>2 DEF ConsumeStock
      <4> QED
        BY <4>1
    <3> QED
      BY <3>1, <3>2
  <2>4. PICK next : next = [row EXCEPT !.status = to]
    OBVIOUS
  <2>5. /\ next \in ReservationRow /\ next.quantity = q /\ next.status = to
        /\ reservations' = [reservations EXCEPT ![o] = next]
    BY <1>1, <1>2, <2>3, <2>4 DEF ReservationRow
  <2>6. /\ stock'.available = stock.available /\ stock'.reserved = stock.reserved - q
        /\ stock'.onHand = IF to = "released" THEN stock.onHand ELSE stock.onHand - q
    BY <1>2, <2>3 DEF StockRow
  <2>7. /\ Share(row, "active") = q /\ Share(row, "consumed") = 0 /\ Share(next, "active") = 0
        /\ Share(next, "consumed") = IF to = "released" THEN 0 ELSE q
    BY <1>1, <1>4, <2>3, <2>5 DEF Share
  <2>8. /\ stock'.reserved = stock.reserved - Share(row, "active") + Share(next, "active")
        /\ stock'.onHand = stock.onHand + Share(row, "consumed") - Share(next, "consumed")
    BY <1>2, <2>3, <2>6, <2>7
  <2> QED
    BY <1>1, <2>5, <2>6, <2>8 DEF StockMoves
<1> QED
  BY <1>3, <1>4

\* Every step leaves the stock rows, or moves them with one order.
LEMMA StockSteps ==
  ASSUME StockInv, [Next]_vars, "stock" \notin Kinds
  PROVE  StockStays \/ \E o \in Orders : StockMoves(o)
<1>1. TypeOK
  BY DEF StockInv, LifeInv, MoneyInv, FundingInv
<1>2. CASE UNCHANGED stockRows
  BY <1>2 DEF StockStays, stockRows
<1>3. CASE World
  BY <1>2, <1>3 DEF World, SendTransfer, Lapse, UpsertStock, ClosePeriod
<1>4. ASSUME NEW h \in Handlers, Arrive(h) \/ BooksClosed(h) \/ Abort(h) PROVE UNCHANGED stockRows
  BY <1>4 DEF Arrive, Abort, BooksClosed, CreateRead, AdvanceRead, AmendItems, AssignRead, RefundRead,
     WebhookReceive, SweepRead
<1>5. ASSUME NEW h \in Handlers, CreateCommit(h) PROVE \E o \in Orders : StockMoves(o)
  BY <1>5, CreateStock
<1>6. ASSUME NEW h \in Handlers, AmendCommit(h) PROVE FALSE
  BY <1>6 DEF StockInv, NoAmend, AmendCommit
<1>7. ASSUME NEW h \in Handlers, AdvanceCommit(h)
      PROVE  StockStays \/ \E o \in Orders : StockMoves(o)
  <2>1. PICK r : r = req[h]
    OBVIOUS
  <2>2. r.o \in Orders /\ r.at = "advance.commit"
    BY <1>1, <1>7, <2>1, RequestShape DEF TypeOK, AdvanceCommit, AdvanceRequest
  <2>3. orders'[r.o].status # "none"
    BY <2>1, <2>2, PlacedKeep
       DEF StockInv, LifeInv, MoneyInv, FundingInv, AdvancesAreFunded
  <2>4. PICK won \in BOOLEAN : won = AdvanceWins(r)
    BY DEF AdvanceWins
  <2>5. AdvanceBooks(r, won)
    BY <1>7, <2>1, <2>4 DEF AdvanceCommit
  <2>6. UNCHANGED stockRows \/ ReleaseStock(r.o, won) \/ ConsumeStock(r.o, won)
    BY <2>5 DEF AdvanceBooks, stockRows
  <2> QED
    BY <1>2, <2>2, <2>3, <2>6, CloseStock
<1>8. ASSUME NEW h \in Handlers, RefundCommit(h)
      PROVE  StockStays \/ \E o \in Orders : StockMoves(o)
  <2>1. PICK r : r = req[h]
    OBVIOUS
  <2>2. r.o \in Orders /\ r.a \in Attempts /\ r.at = "refund.commit" /\ r.cancels \in BOOLEAN
    BY <1>1, <1>8, <2>1, RequestShape DEF TypeOK, RefundCommit, RefundRequest
  <2>3. orders'[r.o].status # "none"
    BY <2>1, <2>2, PlacedKeep
       DEF StockInv, LifeInv, MoneyInv, RefundTargetsExist, AttemptsArePlaced
  <2>4. ReleaseStock(r.o, r.cancels)
    BY <1>8, <2>1 DEF RefundCommit
  <2> QED
    BY <2>2, <2>3, <2>4, CloseStock
<1>9. ASSUME NEW h \in Handlers, Continue(h)
      PROVE  StockStays \/ \E o \in Orders : StockMoves(o)
  <2>1. CASE CreateRejected(h) \/ AmendRead(h) \/ AmendRefused(h) \/ AmendRejected(h)
             \/ AssignUpdate(h) \/ AssignCommit(h) \/ RefundInsert(h) \/ WebhookUnmatched(h)
             \/ WebhookLookup(h) \/ WebhookMatch(h) \/ WebhookCommit(h) \/ WebhookOvertaken(h)
             \/ WebhookReread(h) \/ WebhookFlag(h) \/ ExpireAttempt(h)
    BY <1>2, <2>1 DEF CreateRejected, AmendRead, AmendRefused, AmendRejected, AssignUpdate,
       AssignCommit, RefundInsert, WebhookUnmatched, WebhookLookup, WebhookMatch,
       WebhookCommit, WebhookOvertaken, WebhookReread, WebhookFlag, ExpireAttempt
  <2> QED
    BY <1>5, <1>6, <1>7, <1>8, <1>9, <2>1 DEF Continue
<1>10. CASE UNCHANGED vars
  BY <1>2, <1>10 DEF vars, stockRows
<1> QED
  BY <1>2, <1>3, <1>4, <1>9, <1>10 DEF Next

LEMMA NoAmendStep ==
  ASSUME TypeOK, NoAmend, [Next]_vars, "amend" \notin Kinds
  PROVE  NoAmend'
<1> SUFFICES ASSUME NEW h \in Handlers, req'[h].at \in {"amend.read", "amend.commit"}
             PROVE  FALSE
  BY DEF NoAmend
<1>1. CASE req'[h] = req[h]
  BY <1>1 DEF NoAmend
<1>2. CASE AmendItems(h)
  BY <1>2 DEF AmendItems, Begin
<1>3. CASE AmendRead(h)
  BY <1>3 DEF AmendRead, NoAmend
<1> QED
  BY <1>1, <1>2, <1>3, Arrivals

LEMMA ConservedStep ==
  ASSUME StockInv, [Next]_vars, "amend" \notin Kinds, "stock" \notin Kinds
  PROVE  StockInv'
<1>1. TypeOK /\ NoAmend /\ LifeInv /\ StockRowValid
  BY DEF StockInv, LifeInv, MoneyInv, FundingInv
<1>2. LifeInv' /\ StockRowValid' /\ NoAmend'
  BY <1>1, StepLife, StockStep, NoAmendStep
<1>3. CASE StockStays
  <2>1. stock' = stock /\ reservations' = reservations
    BY <1>3 DEF StockStays
  <2>2. stock'.available /\ Conserved'
    BY <2>1 DEF StockInv, Conserved
  <2>3. NoneHeld'
    <3> SUFFICES ASSUME NEW o \in Orders, orders'[o].status = "none"
                 PROVE  reservations'[o].status = "none"
      BY DEF NoneHeld
    <3>1. orders[o].status = "none"
      BY <1>1, PlacedKeep
    <3> QED
      BY <2>1, <3>1 DEF StockInv, NoneHeld
  <2> QED
    BY <1>2, <2>2, <2>3 DEF StockInv
<1>4. ASSUME NEW o \in Orders, StockMoves(o) PROVE StockInv'
  <2>1. stock'.available /\ Conserved' /\ NoneHeld'
    BY <1>4, MovesKeep DEF Conserved, NoneHeld
  <2> QED
    BY <1>2, <2>1 DEF StockInv
<1> QED
  BY <1>3, <1>4, StockSteps

LEMMA InitStock == Init => StockInv
<1> SUFFICES ASSUME Init PROVE StockInv
  OBVIOUS
<1>1. /\ stock.onHand = OnHand /\ stock.reserved = 0 /\ stock.available
      /\ \A o \in Orders : reservations[o].status = "none"
  BY DEF Init
<1>2. \A h \in Handlers : req[h].at = "idle"
  BY DEF Init, Idle
<1>3. In(reservations, "active") = {} /\ In(reservations, "consumed") = {}
  BY <1>1 DEF In
<1>4. QuantityIn(reservations, "active") = 0 /\ QuantityIn(reservations, "consumed") = 0
  BY <1>3, QuantitiesOfNone DEF QuantityIn
<1>5. StockRowValid
  BY <1>1, TablesAssumption DEF StockRowValid, StockValid
<1> QED
  BY <1>1, <1>2, <1>4, <1>5, InitLife, TablesAssumption DEF StockInv, NoAmend, NoneHeld, Conserved

\* The reserved count is the sum of the active reservations, and what left the shelf is what
\* the delivered orders consumed, whatever creates, transitions, refunds, payments and sweeps
\* run at the same time.
THEOREM StockConservedHolds ==
  ASSUME "amend" \notin Kinds, "stock" \notin Kinds
  PROVE  Spec => [](StockConserved /\ ReservedMatchesReservations)
<1>1. StockInv /\ [Next]_vars => StockInv'
  BY ConservedStep
<1>2. StockInv => StockConserved /\ ReservedMatchesReservations
  <2>1. QuantityOf(ActiveReservations) = QuantityIn(reservations, "active")
    BY DEF QuantityOf, QuantityIn, Quantities, In, ActiveReservations
  <2>2. QuantityOf(Consumed) = QuantityIn(reservations, "consumed")
    BY DEF QuantityOf, QuantityIn, Quantities, In, Consumed
  <2> QED
    BY <2>1, <2>2 DEF StockInv, Conserved, StockConserved, ReservedMatchesReservations
<1> QED
  BY <1>1, <1>2, InitStock, PTL DEF Spec

\* Books, kitchen and stock follow the status of every order. The assumption names the three
\* writers that break a part of it: an amendment counts from items that another one may have
\* replaced, an edit overwrites the stock row, and an assignment leaves the kitchen column.
THEOREM EffectsFollowOrderHolds ==
  ASSUME "amend" \notin Kinds, "stock" \notin Kinds, "assign" \notin Kinds
  PROVE  Spec => []EffectsFollowOrder
<1>1. Spec => [](CancelledEarnsNothing /\ CommissionNeedsDelivery)
  BY BooksFollowOrder
<1>2. Spec => []KitchenFollowsStatus
  BY KitchenFollowsStatusHolds
<1>3. Spec => [](StockConserved /\ ReservedMatchesReservations)
  BY StockConservedHolds
<1>4. /\ CancelledEarnsNothing /\ CommissionNeedsDelivery
      /\ KitchenFollowsStatus
      /\ StockConserved /\ ReservedMatchesReservations
      => EffectsFollowOrder
  BY DEF EffectsFollowOrder
<1> QED
  BY <1>1, <1>2, <1>3, <1>4, PTL
=============================================================================
