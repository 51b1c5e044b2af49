------------------------------ MODULE Reports -------------------------------
(***************************************************************************)
(* The money reports of the portal.  A report reads its tables at once, each   *)
(* query on a connection of its own, while orders and expenses go on; the      *)
(* figures are then computed from what came back.  The orders' batches are     *)
(* those of OrderSystem and Ledger, as far as these tables go.                 *)
(***************************************************************************)
EXTENDS Integers, FiniteSets, FiniteSetsExt

CONSTANTS
  Orders, Expenses,
  OwnSites, OtherSites, \* the sites of the reader's account, the rest
  ChannelOf, \* the channel each order comes over
  Gross, Cost, Spent, \* what an order earns and costs, what an expense is
  MaxWrites, MaxDay, None

(* Bounds: MaxWrites, MaxDay; every order has one price, every expense too;   *)
(* a behaviour ends with its report. *)
Sites == OwnSites \cup OtherSites
Days == 1..MaxDay

VARIABLES
  orders, allocations, expenses, \* the tables, by id
  today, writes,
  report \* the report, once it is asked for
vars == <<orders, allocations, expenses, today, writes, report>>

OperationOrder ==
  [siteId : Sites, channel : {ChannelOf[o] : o \in Orders}, method : {"cash", "bank"},
   orderStatus : {"new", "accepted", "delivered", "cancelled"},
   paid : BOOLEAN, createdAt : Days, completedAt : Days \cup {None}]
Allocation == [status : {"pending", "posted", "voided"}, createdAt : Days]
Expense == [siteId : Sites, status : {"pending", "approved", "rejected"}, expenseDate : Days]

Tables(kind) ==
  IF kind = "snapshot" THEN {"orders", "allocations", "expenses"}
  ELSE IF kind = "dashboard" THEN {"orders"}
  ELSE {"allocations", "expenses"}
Kinds == {"snapshot", "dashboard", "summary", "profit-loss"}
Readers == {"owner", "store-owner", "kitchen"}

Idle == [at |-> "idle"]

Init ==
  /\ orders = <<>> /\ allocations = <<>> /\ expenses = <<>>
  /\ today = 1 /\ writes = 0 /\ report = Idle

-----------------------------------------------------------------------------
(* The writers. *)
Put(f, id, row) == [x \in DOMAIN f \cup {id} |-> IF x = id THEN row ELSE f[x]]

Write ==
  /\ writes < MaxWrites /\ writes' = writes + 1 /\ report.at # "answered"
  /\ report' = IF report.at = "idle" THEN report ELSE [report EXCEPT !.stale = TRUE]
  /\ UNCHANGED today

PlaceOrder(o) ==
  /\ o \notin DOMAIN orders /\ Orders \cap 1..(o - 1) \subseteq DOMAIN orders /\ Write
  /\ \E s \in Sites, m \in {"cash", "bank"} :
       orders' = Put(orders, o, [siteId |-> s, channel |-> ChannelOf[o], method |-> m, orderStatus |-> "new",
                                 paid |-> FALSE, createdAt |-> today, completedAt |-> None])
  /\ allocations' = Put(allocations, o, [status |-> "pending", createdAt |-> today])
  /\ UNCHANGED expenses

Posted(o) == [allocations EXCEPT ![o].status = IF @ = "pending" THEN "posted" ELSE @]

(* A transfer in full: the order is paid and accepted. *)
PayOrder(o) ==
  /\ o \in DOMAIN orders /\ orders[o].method = "bank" /\ orders[o].orderStatus = "new" /\ Write
  /\ orders' = [orders EXCEPT ![o].paid = TRUE, ![o].orderStatus = "accepted"]
  /\ allocations' = Posted(o)
  /\ UNCHANGED expenses

AdvanceOrder(o) ==
  /\ o \in DOMAIN orders /\ Write
  /\ \/ /\ orders[o].orderStatus = "new" /\ orders[o].method = "cash"
        /\ orders' = [orders EXCEPT ![o].orderStatus = "accepted"]
        /\ UNCHANGED allocations
     \/ /\ orders[o].orderStatus = "accepted"
        /\ orders' = [orders EXCEPT ![o].orderStatus = "delivered", ![o].paid = TRUE,
                                    ![o].completedAt = today]
        /\ allocations' = Posted(o)
     \/ /\ orders[o].orderStatus \in {"new", "accepted"}
        /\ orders' = [orders EXCEPT ![o].orderStatus = "cancelled"]
        /\ allocations' = [allocations EXCEPT ![o].status = "voided"]
  /\ UNCHANGED expenses

SubmitExpense(e) ==
  /\ e \notin DOMAIN expenses /\ Write
  /\ \E s \in Sites :
       expenses' = Put(expenses, e, [siteId |-> s, status |-> "pending", expenseDate |-> today])
  /\ UNCHANGED <<orders, allocations>>

ReviewExpense(e) ==
  /\ e \in DOMAIN expenses /\ expenses[e].status = "pending" /\ Write
  /\ \E s \in {"approved", "rejected"} : expenses' = [expenses EXCEPT ![e].status = s]
  /\ UNCHANGED <<orders, allocations>>

NextDay ==
  /\ report = Idle /\ today < MaxDay /\ today' = today + 1
  /\ UNCHANGED <<orders, allocations, expenses, writes, report>>

-----------------------------------------------------------------------------
(* The queries.  Orders of the kitchen are chosen by status and not by site;  *)
(* a P&L is filtered by the sites of the session alone. *)
SitesOf(role) == IF role = "owner" THEN Sites ELSE OwnSites
SeesOrder(role, o) ==
  CASE role = "owner" -> TRUE
    [] role = "store-owner" -> o.siteId \in OwnSites /\ o.orderStatus # "cancelled"
    [] role = "kitchen" -> o.orderStatus = "accepted"

Rows(kind, role, from, table) ==
  CASE table = "orders" -> {o \in DOMAIN orders : SeesOrder(role, orders[o])}
    [] table = "allocations" ->
         {o \in DOMAIN allocations :
            CASE kind = "snapshot" -> SeesOrder(role, orders[o])
              [] kind = "summary" -> /\ SeesOrder(role, orders[o]) /\ allocations[o].status # "voided"
                                     /\ allocations[o].createdAt >= from
              [] kind = "profit-loss" ->
                   /\ orders[o].siteId \in SitesOf(role) /\ allocations[o].status = "posted"
                   /\ from <= IF orders[o].completedAt # None THEN orders[o].completedAt
                              ELSE orders[o].createdAt}
    [] table = "expenses" ->
         {e \in DOMAIN expenses :
            /\ expenses[e].siteId \in SitesOf(role)
            /\ kind # "snapshot" => expenses[e].status = "approved" /\ expenses[e].expenseDate >= from}

Read(kind, role, from, table) ==
  LET of == CASE table = "orders" -> orders [] table = "expenses" -> expenses
              [] table = "allocations" ->
                   [o \in DOMAIN allocations |-> [status |-> allocations[o].status,
                      createdAt |-> allocations[o].createdAt, siteId |-> orders[o].siteId]]
  IN [x \in Rows(kind, role, from, table) |-> of[x]]

-----------------------------------------------------------------------------
(* buildFinanceSnapshot. *)
Contribution(n) == n * (Gross - Cost)

Active_Unchecked(got) == {o \in DOMAIN got.allocations : got.allocations[o].status = "posted"}
Active(got) ==
  {o \in DOMAIN got.allocations :
     /\ got.allocations[o].status = "posted"
     /\ o \in DOMAIN got.orders /\ got.orders[o].orderStatus # "cancelled"}

Approved(got) == {e \in DOMAIN got.expenses : got.expenses[e].status = "approved"}

channelBreakdown(got) ==
  [c \in {got.orders[o].channel : o \in Active(got) \cap DOMAIN got.orders} |->
     Gross * Cardinality({o \in Active(got) \cap DOMAIN got.orders : got.orders[o].channel = c})]

locationBreakdown(role, got) ==
  [s \in SitesOf(role) |->
     Contribution(Cardinality({o \in Active(got) \cap DOMAIN got.orders : got.orders[o].siteId = s}))
     - Spent * Cardinality({e \in Approved(got) : got.expenses[e].siteId = s})]

trend(got) ==
  [d \in Days |->
     Contribution(Cardinality({o \in Active(got) : got.allocations[o].createdAt = d}))
     - Spent * Cardinality({e \in Approved(got) : got.expenses[e].expenseDate = d})]

receivables(got) ==
  Gross * Cardinality({o \in DOMAIN got.orders :
                         ~got.orders[o].paid /\ got.orders[o].orderStatus # "cancelled"})
payables(got) ==
  Spent * Cardinality({e \in DOMAIN got.expenses : got.expenses[e].status \in {"pending", "approved"}})

buildFinanceSnapshot(role, got) ==
  [grossRevenue |-> Gross * Cardinality(Active(got)),
   netProfit |-> Contribution(Cardinality(Active(got))) - Spent * Cardinality(Approved(got)),
   channelBreakdown |-> channelBreakdown(got), locationBreakdown |-> locationBreakdown(role, got),
   trend |-> trend(got), receivables |-> receivables(got), payables |-> payables(got)]

(* siteProfitLoss: a row for every site that sold something. *)
siteProfitLoss(got) ==
  [s \in {got.allocations[o].siteId : o \in DOMAIN got.allocations} |->
     Contribution(Cardinality({o \in DOMAIN got.allocations : got.allocations[o].siteId = s}))
     - Spent * Cardinality({e \in DOMAIN got.expenses : got.expenses[e].siteId = s})]

getScopedFinanceSummary(got) ==
  [netProfit |-> Contribution(Cardinality(DOMAIN got.allocations))
                 - Spent * Cardinality(DOMAIN got.expenses)]

(* getScopedDashboard: orders not paid for, cancelled ones included. *)
getScopedDashboard(got) ==
  [receivables |-> Gross * Cardinality({o \in DOMAIN got.orders : ~got.orders[o].paid})]

Answer(kind, role, got) ==
  CASE kind = "snapshot" -> buildFinanceSnapshot(role, got)
    [] kind = "profit-loss" -> [rows |-> siteProfitLoss(got)]
    [] kind = "summary" -> getScopedFinanceSummary(got)
    [] kind = "dashboard" -> getScopedDashboard(got)

-----------------------------------------------------------------------------
Ask ==
  /\ report = Idle
  /\ \E kind \in Kinds, role \in Readers, from \in Days :
       /\ kind \in {"snapshot", "dashboard"} => from = 1
       /\ report' = [at |-> "reading", kind |-> kind, role |-> role, from |-> from,
                     got |-> [t \in {} |-> {}], stale |-> FALSE]
  /\ UNCHANGED <<orders, allocations, expenses, today, writes>>

Query ==
  /\ report.at = "reading"
  /\ \E t \in Tables(report.kind) \ DOMAIN report.got :
       LET got == Put(report.got, t, Read(report.kind, report.role, report.from, t)) IN
       report' =
         IF DOMAIN got # Tables(report.kind) THEN [report EXCEPT !.got = got]
         ELSE [at |-> "answered", kind |-> report.kind, role |-> report.role, from |-> report.from,
               stale |-> report.stale, answer |-> Answer(report.kind, report.role, got)]
  /\ UNCHANGED <<orders, allocations, expenses, today, writes>>

Next ==
  \/ \E o \in Orders : PlaceOrder(o) \/ PayOrder(o) \/ AdvanceOrder(o)
  \/ \E e \in Expenses : SubmitExpense(e) \/ ReviewExpense(e)
  \/ NextDay \/ Ask \/ Query

Spec == Init /\ [][Next]_vars

-----------------------------------------------------------------------------
TypeOK ==
  /\ DOMAIN orders \subseteq Orders /\ \A o \in DOMAIN orders : orders[o] \in OperationOrder
  /\ DOMAIN allocations = DOMAIN orders
  /\ \A o \in DOMAIN allocations : allocations[o] \in Allocation
  /\ DOMAIN expenses \subseteq Expenses /\ \A e \in DOMAIN expenses : expenses[e] \in Expense
  /\ today \in Days /\ writes \in 0..MaxWrites
  /\ report.at \in {"idle", "reading", "answered"}

Total(f) == MapThenSumSet(LAMBDA x : f[x], DOMAIN f)

(* The parts of a snapshot add up to its totals whatever was written between  *)
(* its queries.  (Not by site for the kitchen, whose orders are those of every *)
(* site and whose sites are its own.)                                         *)
BreakdownsAddUp ==
  report.at = "answered" /\ report.kind = "snapshot" =>
    LET a == report.answer IN
    /\ Total(a.channelBreakdown) = a.grossRevenue
    /\ Total(a.trend) = a.netProfit
    /\ report.role # "kitchen" => Total(a.locationBreakdown) = a.netProfit

(* What a site has earned: orders paid for by transfer or delivered, never    *)
(* once cancelled, less what was spent there. *)
Earned(o) ==
  /\ orders[o].orderStatus # "cancelled"
  /\ orders[o].orderStatus = "delivered" \/ orders[o].paid
SoldOn(o) == IF orders[o].completedAt = None THEN orders[o].createdAt ELSE orders[o].completedAt
SpentSince(role, from) ==
  {e \in DOMAIN expenses : /\ expenses[e].siteId \in SitesOf(role) /\ expenses[e].status = "approved"
                           /\ expenses[e].expenseDate >= from}
Profit(role, sold, from) ==
  Contribution(Cardinality({o \in sold : orders[o].siteId \in SitesOf(role) /\ Earned(o)}))
  - Spent * Cardinality(SpentSince(role, from))

(* A report nothing was written under shows what the orders and expenses say, *)
(* although each reads other columns: the snapshot and the P&L the status of   *)
(* the allocation, the dashboard the payment.  The P&L leaves out a site that  *)
(* spent and sold nothing, the summary counts what is not earned yet, the      *)
(* owner's dashboard counts cancelled orders: those are set aside here.        *)
ReportsAgree ==
  report.at = "answered" /\ ~report.stale =>
    LET a == report.answer role == report.role from == report.from
        since == {o \in DOMAIN orders : orders[o].createdAt >= from}
        sold == {o \in DOMAIN orders : SoldOn(o) >= from} IN
    CASE report.kind = "snapshot" ->
           role # "kitchen" => a.netProfit = Profit(role, DOMAIN orders, 1)
      [] report.kind = "profit-loss" ->
           (\A e \in SpentSince(role, from) :
              \E o \in sold : Earned(o) /\ orders[o].siteId = expenses[e].siteId)
           => Total(a.rows) = Profit(role, sold, from)
      [] report.kind = "summary" ->
           role # "kitchen" /\ (\A o \in since : Earned(o) \/ orders[o].orderStatus = "cancelled")
           => a.netProfit = Profit(role, since, from)
      [] report.kind = "dashboard" ->
           role = "store-owner" =>
           a.receivables = Gross * Cardinality({o \in DOMAIN orders :
             /\ orders[o].siteId \in OwnSites /\ orders[o].orderStatus # "cancelled"
             /\ ~orders[o].paid})

=============================================================================
