------------------------------- MODULE Ledger -------------------------------
(***************************************************************************)
(* The general ledger: commissions of one payee, the settlements that pay    *)
(* them, expenses, and the closing of an accounting period.                  *)
(*                                                                          *)
(* A command reads, then runs one transaction: Write stands for its          *)
(* statements, which wait for locked rows and see committed rows only, and   *)
(* Commit makes their effect visible.  Every amount is 1.                    *)
(***************************************************************************)
EXTENDS Integers, FiniteSets

CONSTANTS
  MaxRequests, \* commands in a behaviour
  MaxOpen,     \* commands under way at a time
  Entries,     \* finance_ledger_entries: commissions, all of period 1
  Expenses,    \* finance_expenses, all of period 1
  None

(* Bounds: MaxRequests commands, MaxOpen at a time; two periods. *)
Requests == 1..MaxRequests
Periods == 1..2

VARIABLES
  entries,     \* entry -> status and settlement_id
  settlements, \* finance_settlements: a function from the request that made it
  lines,       \* finance_settlement_lines: entry and settlement
  payments,    \* the settlement_payment rows of the ledger
  expenses,    \* expense -> status
  booked,      \* expenses with an operating_expense row in the ledger
  closed,      \* accounting_periods that are closed
  month,       \* the period of today
  request      \* what each request has read
vars == <<entries, settlements, lines, payments, expenses, booked, closed, month, request>>

settlementStatuses == {"draft", "approved", "paid"}
Settlement == [status : settlementStatuses, net : Nat, stamp : Requests]
Idle == [at |-> "idle"]
Done == [at |-> "done"]
(* Pending work; "at" is its phase and "what" the kind of its transaction.  *)
Pending ==
  {Idle, Done} \cup
  [at : {"write", "commit"}, what : {"pay"}, entry : Entries, month : Periods, saw : SUBSET Periods] \cup
  [at : {"write", "commit"}, what : {"settle"}, sources : SUBSET Entries,
   to : settlementStatuses, month : Periods, saw : SUBSET Periods] \cup
  [at : {"write", "commit"}, what : {"change"}, settlement : Requests, read : Settlement,
   to : settlementStatuses, month : Periods, saw : SUBSET Periods] \cup
  [at : {"write", "commit"}, what : {"review"}, expense : Expenses,
   to : {"approved", "rejected"}, month : Periods, saw : SUBSET Periods]

Init ==
  /\ entries = [e \in Entries |-> [status |-> "pending", settlement |-> None]]
  /\ settlements = <<>> /\ lines = {} /\ payments = {}
  /\ expenses = [x \in Expenses |-> "none"] /\ booked = {}
  /\ closed = {} /\ month = 1
  /\ request = [c \in Requests |-> Idle]

-----------------------------------------------------------------------------
Then(c, what) == request' = [request EXCEPT ![c] = what]
Begin(c, what) ==
  /\ request[c] = Idle
  /\ \A d \in 1..(c - 1) : request[d] # Idle
  /\ Cardinality({d \in Requests : request[d] \notin {Idle, Done}}) < MaxOpen
  /\ Then(c, what)
End(c) == Then(c, Done)

Open(p) == p \notin closed                          \* assertLedgerPeriodOpen
Payable(e) == entries[e].status \in {"earned", "approved"} /\ entries[e].settlement = None
Books == <<entries, settlements, lines, payments, expenses, booked, closed, month>>

(* Rows an open transaction has written: others wait for its end. *)
Writes(c) ==
  LET r == request[c] IN
  IF r.at # "commit" THEN {}
  ELSE CASE r.what = "pay" -> {r.entry}
         [] r.what = "settle" -> r.sources
         [] r.what = "change" -> {r.settlement}
         [] r.what = "review" -> {r.expense}
Free(row) == \A d \in Requests : row \notin Writes(d)

-----------------------------------------------------------------------------
(* The commission of an order is earned by its delivery and voided by its   *)
(* cancellation or refund, which ask for no particular status.              *)
Earn(e) ==
  /\ entries[e].status = "pending" /\ Free(e) /\ Open(1)
  /\ entries' = [entries EXCEPT ![e].status = "earned"]
  /\ UNCHANGED <<settlements, lines, payments, expenses, booked, closed, month, request>>
Void(e) ==
  /\ entries[e].status # "voided" /\ Free(e) /\ Open(1)
  /\ entries' = [entries EXCEPT ![e].status = "voided"]
  /\ UNCHANGED <<settlements, lines, payments, expenses, booked, closed, month, request>>

(* finance.settle of one commission that no settlement holds: paid at once. *)
PayRead(c) ==
  /\ Open(1) /\ Open(month)
  /\ \E e \in Entries : Payable(e) /\
       Begin(c, [at |-> "write", what |-> "pay", entry |-> e, month |-> month, saw |-> {}])
  /\ UNCHANGED Books

(* finance.settle of a period: everything payable to the payee. *)
SettleRead(c) ==
  /\ {e \in Entries : Payable(e)} # {} /\ Open(1)
  /\ \E to \in settlementStatuses :
       /\ to = "paid" => Open(month)
       /\ Begin(c, [at |-> "write", what |-> "settle", sources |-> {e \in Entries : Payable(e)},
                    to |-> to, month |-> month, saw |-> {}])
  /\ UNCHANGED Books

(* finance.settle of an existing settlement: a paid one does not reopen. *)
ChangeRead(c) ==
  /\ \E s \in DOMAIN settlements, to \in settlementStatuses :
       /\ to # settlements[s].status /\ settlements[s].status # "paid"
       /\ to = "paid" => Open(month)
       /\ Begin(c, [at |-> "write", what |-> "change", settlement |-> s,
                    read |-> settlements[s], to |-> to, month |-> month, saw |-> {}])
  /\ UNCHANGED Books

(* expense.create and the reading of expense.approve. *)
SubmitExpense(x) ==
  /\ expenses[x] = "none"
  /\ expenses' = [expenses EXCEPT ![x] = "pending"]
  /\ UNCHANGED <<entries, settlements, lines, payments, booked, closed, month, request>>
ReviewRead(c) ==
  /\ \E x \in Expenses, to \in {"approved", "rejected"} :
       /\ expenses[x] = "pending"
       /\ to = "approved" => Open(1)
       /\ Begin(c, [at |-> "write", what |-> "review", expense |-> x, to |-> to,
                    month |-> month, saw |-> {}])
  /\ UNCHANGED Books

-----------------------------------------------------------------------------
(* The guard of the first UPDATE; what follows it asks for its effect.      *)
(* Bugs: the UPDATE asks for the id only; the index is missing.             *)
ChangeWins_Always(r) == TRUE

ChangeWins(r) ==
  /\ settlements[r.settlement].status = r.read.status
  /\ settlements[r.settlement].stamp = r.read.stamp

(* finance_settlement_line_ledger_unique_idx *)
LinesFit_NoIndex(r) == TRUE

LinesFit(r) == \A e \in r.sources : \A l \in lines : l.entry # e

(* A bug: the row of the expense does not ask for its status. *)
ReviewWins_Always(r) == TRUE

ReviewWins(r) == expenses[r.expense] = "pending"

Wins(r) ==
  CASE r.what = "pay" -> Payable(r.entry)
    [] r.what = "settle" -> LinesFit(r)
    [] r.what = "change" -> ChangeWins(r)
    [] r.what = "review" -> ReviewWins(r)

(* The periods of the ledger rows the transaction inserts or updates. *)
Touched(r) ==
  CASE r.what = "pay" -> {1, r.month}
    [] r.what = "settle" ->
         (IF \E e \in r.sources : entries[e].settlement = None THEN {1} ELSE {})
           \cup (IF r.to = "paid" THEN {r.month} ELSE {})
    [] r.what = "change" -> IF r.to = "paid" THEN {r.month} ELSE {}
    [] r.what = "review" -> IF r.to = "approved" THEN {1} ELSE {}

(* A bug: the database does not look at the period. *)
GuardPasses_Always(r) == TRUE

(* Trigger finance_ledger_closed_period_guard, before insert or update. *)
GuardPasses(r) == \A p \in Touched(r) : Open(p)

RowsOf(r) ==
  CASE r.what = "pay" -> {r.entry} [] r.what = "settle" -> r.sources
    [] r.what = "change" -> {r.settlement} [] r.what = "review" -> {r.expense}

Write(c) ==
  /\ request[c].at = "write"
  /\ \A row \in RowsOf(request[c]) : Free(row)
  /\ Then(c, IF Wins(request[c]) /\ GuardPasses(request[c])
             THEN [request[c] EXCEPT !.at = "commit", !.saw = closed] ELSE Done)
  /\ UNCHANGED Books

(* The settlements after request c has made or changed one. *)
NewSettlement(c, s, to, net) ==
  settlements' = [t \in DOMAIN settlements \cup {s} |->
    IF t = s THEN [status |-> to, net |-> net, stamp |-> c] ELSE settlements[t]]
NewPayment(s, net, p) ==                             \* INSERT OR IGNORE
  payments' = payments \cup {x \in {[settlement |-> s, amount |-> net, period |-> p]} :
                               \A q \in payments : q.settlement # s}

CommitPay(c) == LET r == request[c] IN
  /\ r.at = "commit" /\ r.what = "pay"
  /\ entries' = [entries EXCEPT ![r.entry] = [status |-> "paid", settlement |-> c]]
  /\ NewSettlement(c, c, "paid", 1) /\ NewPayment(c, 1, r.month)
  /\ End(c) /\ UNCHANGED <<lines, expenses, booked, closed, month>>

CommitSettle(c) == LET r == request[c] IN
  /\ r.at = "commit" /\ r.what = "settle"
  /\ NewSettlement(c, c, r.to, Cardinality(r.sources))
  /\ lines' = lines \cup {[entry |-> e, settlement |-> c] : e \in r.sources}
  /\ entries' = [e \in Entries |->
       IF e \in r.sources /\ entries[e].settlement = None
       THEN [entries[e] EXCEPT !.settlement = c] ELSE entries[e]]
  /\ IF r.to = "paid" THEN NewPayment(c, Cardinality(r.sources), r.month) ELSE UNCHANGED payments
  /\ End(c) /\ UNCHANGED <<expenses, booked, closed, month>>

(* The entries of the settlement keep their status. *)
CommitChange(c) == LET r == request[c] IN
  /\ r.at = "commit" /\ r.what = "change"
  /\ NewSettlement(c, r.settlement, r.to, r.read.net)
  /\ IF r.to = "paid" THEN NewPayment(r.settlement, r.read.net, r.month) ELSE UNCHANGED payments
  /\ End(c) /\ UNCHANGED <<entries, lines, expenses, booked, closed, month>>

CommitReview(c) == LET r == request[c] IN
  /\ r.at = "commit" /\ r.what = "review"
  /\ expenses' = [expenses EXCEPT ![r.expense] = r.to]
  /\ booked' = IF r.to = "approved" THEN booked \cup {r.expense} ELSE booked
  /\ End(c) /\ UNCHANGED <<entries, settlements, lines, payments, closed, month>>

(* accounting-period.close *)
ClosePeriod(p) ==
  /\ Open(p) /\ p <= month
  /\ closed' = closed \cup {p}
  /\ UNCHANGED <<entries, settlements, lines, payments, expenses, booked, month, request>>
NextMonth ==
  /\ month = 1 /\ month' = 2
  /\ UNCHANGED <<entries, settlements, lines, payments, expenses, booked, closed, request>>

-----------------------------------------------------------------------------
Next ==
  \/ \E e \in Entries : Earn(e) \/ Void(e)
  \/ \E x \in Expenses : SubmitExpense(x)
  \/ \E c \in Requests :
       \/ PayRead(c) \/ SettleRead(c) \/ ChangeRead(c) \/ ReviewRead(c) \/ Write(c)
       \/ CommitPay(c) \/ CommitSettle(c) \/ CommitChange(c) \/ CommitReview(c)
  \/ \E p \in Periods : ClosePeriod(p)
  \/ NextMonth

Spec == Init /\ [][Next]_vars

-----------------------------------------------------------------------------
TypeOK ==
  /\ entries \in [Entries -> [status : {"pending", "earned", "paid", "voided"},
                              settlement : Requests \cup {None}]]
  /\ DOMAIN settlements \subseteq Requests
  /\ \A s \in DOMAIN settlements : settlements[s] \in Settlement
  /\ lines \subseteq [entry : Entries, settlement : DOMAIN settlements]
  /\ payments \subseteq [settlement : DOMAIN settlements, amount : Nat, period : Periods]
  /\ expenses \in [Expenses -> {"none", "pending", "approved", "rejected"}]
  /\ booked \subseteq Expenses
  /\ closed \subseteq Periods /\ month \in Periods
  /\ request \in [Requests -> Pending]

(* A settlement is paid if and only if the ledger holds one payment of its  *)
(* net amount, however approvals and payments of it race.                   *)
PaidHasPayment ==
  \A s \in DOMAIN settlements :
    LET of == {p \in payments : p.settlement = s} IN
    IF settlements[s].status = "paid"
    THEN Cardinality(of) = 1 /\ \A p \in of : p.amount = settlements[s].net
    ELSE of = {}

(* Two settlements of overlapping periods never list the same commission.   *)
SettledOnce == \A k, l \in lines : k.entry = l.entry => k = l

(* The ledger holds the outflow of an expense exactly when it is approved,  *)
(* although an approval and a rejection may have read it as pending.        *)
ExpenseBooked == \A x \in Expenses : x \in booked <=> expenses[x] = "approved"

(* Rows of the month r, as they count for the books. *)
BooksOf(p) ==
  <<{q \in payments : q.period = p}, IF p = 1 THEN <<entries, booked>> ELSE <<>>>>

(* Closed books change only by a transaction that had written when the      *)
(* period was closed and commits after it: a check made before the closing  *)
(* is not enough to write after it.                                         *)
ClosedBooksStay ==
  \A p \in closed : BooksOf(p)' # BooksOf(p) =>
    \E c \in Requests : request[c].at = "commit" /\ p \notin request[c].saw
=============================================================================
