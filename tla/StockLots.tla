------------------------------ MODULE StockLots ------------------------------
(***************************************************************************)
(* The lots of one product at one store: what delivered orders consume,     *)
(* what is written off as waste, and stock counts.  Lots are numbered in    *)
(* FEFO order; lots that a count finds have no expiry and come last.        *)
(***************************************************************************)
EXTENDS Integers, FiniteSets, FiniteSetsExt, Sequences

CONSTANTS
  MaxRequests, \* commands in a behaviour
  MaxOpen,     \* commands under way at a time
  Orders,   \* orders of the product that are on their way, a unit each
  Counts,   \* identities of stock_counts
  Stock,    \* the lots at the start: a sequence of quantities
  MaxUnits, \* units in one waste record, and off in one count
  None

(* Bounds: MaxRequests commands, numbered as they start, MaxOpen at a time. *)
Requests == 1..MaxRequests

VARIABLES
  lots,      \* site_stock_lots: a sequence of quantities
  expired,   \* the first lots, whose expires_at has passed
  row,       \* catalog_site_stock: on_hand and reserved
  delivered, \* orders that are delivered
  consumed,  \* order_item_lot_consumptions
  counts,    \* stock_counts with the product's item: a function from ids
  adjusted,  \* catalog_stock_movements of type count_adjust
  written,   \* finance_ledger_entries for shortages of counts, by count
  wasted,    \* waste_records: by request
  request    \* what each request has read
vars == <<lots, expired, row, delivered, consumed, counts, adjusted, written, wasted, request>>

Idle == [at |-> "idle"]
Done == [at |-> "done"]

Init ==
  /\ lots = Stock
  /\ expired = 0
  /\ row = [onHand |-> FoldFunction(+, 0, Stock), reserved |-> Cardinality(Orders)]
  /\ delivered = {} /\ consumed = {}
  /\ counts = <<>>
  /\ adjusted = {} /\ written = {} /\ wasted = {}
  /\ request = [r \in Requests |-> Idle]

-----------------------------------------------------------------------------
Units(s) == MapThenSumSet(LAMBDA l : lots[l], s)

(* productLots: available, not empty and, but for expired waste, in date. *)
ProductLots(includeExpired) ==
  {l \in DOMAIN lots : lots[l] > 0 /\ (includeExpired \/ l > expired)}

(* allocateFefo: the earliest lots first; it throws when they do not suffice. *)
Takes(s, n) ==
  [l \in s |-> LET before == Units({k \in s : k < l}) IN
               IF before >= n THEN 0 ELSE IF lots[l] < n - before THEN lots[l] ELSE n - before]
Allocated(s, n) == {<<l, Takes(s, n)[l]>> : l \in {k \in s : Takes(s, n)[k] > 0}}

(* UPDATE ... SET quantity = quantity - take WHERE quantity >= take, for    *)
(* each take of a batch.                                                    *)
Deplete(takes) ==
  [l \in DOMAIN lots |->
     LET n == IF \E t \in takes : t[1] = l THEN (CHOOSE t \in takes : t[1] = l)[2] ELSE 0 IN
     IF lots[l] >= n THEN lots[l] - n ELSE lots[l]]

Then(r, what) == request' = [request EXCEPT ![r] = what]

(* A request that may start now. *)
Fresh(r) ==
  /\ request[r] = Idle
  /\ \A q \in 1..(r - 1) : request[q] # Idle
  /\ Cardinality({q \in Requests : request[q] \notin {Idle, Done}}) < MaxOpen
Begin(r, what) == Fresh(r) /\ Then(r, what)

-----------------------------------------------------------------------------
(* prepareOrderLotConsumption, before the batch of order.advance: without a *)
(* lot in date the cost stays an estimate and nothing is taken.             *)
DeliverRead(r) ==
  /\ \E o \in Orders \ delivered :
       LET valid == ProductLots(FALSE) IN
       Begin(r, [at |-> "deliver", order |-> o,
                 takes |-> IF valid = {} THEN {} ELSE Allocated(valid, 1)])
  /\ UNCHANGED <<lots, expired, row, delivered, consumed, counts, adjusted, written, wasted>>

(* The stock row follows the order's UPDATE; the lots do not ask for it.    *)
(* The consumption rows are keyed by order and lot (INSERT OR IGNORE).      *)
DeliverBatch(r) ==
  /\ request[r].at = "deliver"
  /\ LET o == request[r].order IN
     /\ delivered' = delivered \cup {o}
     /\ row' = IF o \in delivered THEN row
               ELSE [onHand |-> IF row.onHand > 0 THEN row.onHand - 1 ELSE 0,
                     reserved |-> row.reserved - 1]
     /\ consumed' = consumed \cup {[order |-> o, lot |-> t[1], units |-> t[2]] : t \in request[r].takes}
  /\ lots' = Deplete(request[r].takes)
  /\ Then(r, Done)
  /\ UNCHANGED <<expired, counts, adjusted, written, wasted>>

(* waste.record: an expired lot may only be written off as such. *)
WasteRead(r) ==
  /\ \E old \in BOOLEAN, n \in 1..MaxUnits :
       /\ n <= Units(ProductLots(old))
       /\ Begin(r, [at |-> "waste", units |-> n, takes |-> Allocated(ProductLots(old), n)])
  /\ UNCHANGED <<lots, expired, row, delivered, consumed, counts, adjusted, written, wasted>>

WasteBatch(r) ==
  /\ request[r].at = "waste"
  /\ lots' = Deplete(request[r].takes)
  /\ row' = IF row.onHand - row.reserved >= request[r].units
            THEN [row EXCEPT !.onHand = @ - request[r].units] ELSE row
  /\ wasted' = wasted \cup {r}
  /\ Then(r, Done)
  /\ UNCHANGED <<expired, delivered, consumed, counts, adjusted, written>>

Expire ==
  /\ expired < Len(Stock)
  /\ expired' = expired + 1
  /\ UNCHANGED <<lots, row, delivered, consumed, counts, adjusted, written, wasted, request>>

-----------------------------------------------------------------------------
(* stockcount.open: no count of the site is under way; nothing looks again  *)
(* when the rows are inserted.                                              *)
OpenRead(r) ==
  /\ \A c \in DOMAIN counts : counts[c].status = "approved"
  /\ Begin(r, [at |-> "open", system |-> row.onHand])
  /\ UNCHANGED <<lots, expired, row, delivered, consumed, counts, adjusted, written, wasted>>

OpenBatch(r) ==
  /\ request[r].at = "open"
  /\ \E c \in Counts \ DOMAIN counts :
       counts' = [d \in DOMAIN counts \cup {c} |->
         IF d # c THEN counts[d]
         ELSE [status |-> "open", system |-> request[r].system, variance |-> 0]]
  /\ Then(r, Done)
  /\ UNCHANGED <<lots, expired, row, delivered, consumed, adjusted, written, wasted>>

(* stockcount.submit: only the header is guarded; the items of a second     *)
(* submission are written although it is refused.                           *)
SubmitRead(r) ==
  /\ \E c \in DOMAIN counts : \E v \in -MaxUnits..MaxUnits :
       /\ counts[c].status = "open" /\ counts[c].system + v >= 0
       /\ Begin(r, [at |-> "submit", count |-> c, variance |-> v])
  /\ UNCHANGED <<lots, expired, row, delivered, consumed, counts, adjusted, written, wasted>>

SubmitBatch(r) ==
  /\ request[r].at = "submit"
  /\ counts' = [counts EXCEPT
       ![request[r].count].status = IF @ = "open" THEN "submitted" ELSE @,
       ![request[r].count].variance = request[r].variance]
  /\ Then(r, Done)
  /\ UNCHANGED <<lots, expired, row, delivered, consumed, adjusted, written, wasted>>

(* stockcount.approve: a shortage leaves the lots in FEFO order. *)
ApproveRead(r) ==
  /\ \E c \in DOMAIN counts :
       LET v == counts[c].variance
           valid == ProductLots(FALSE)
       IN /\ counts[c].status = "submitted"
          /\ v < 0 => -v <= Units(valid)
          /\ Begin(r, [at |-> "approve", count |-> c, variance |-> v,
                       takes |-> IF v < 0 THEN Allocated(valid, -v) ELSE {}])
  /\ UNCHANGED <<lots, expired, row, delivered, consumed, counts, adjusted, written, wasted>>

Adjust(r) ==
  LET c == request[r].count
      v == request[r].variance
  IN /\ counts' = [counts EXCEPT ![c].status = "approved"]
     /\ lots' = IF v > 0 THEN Append(lots, v) ELSE Deplete(request[r].takes)
     /\ row' = IF v # 0 /\ row.onHand + v >= row.reserved
               THEN [row EXCEPT !.onHand = @ + v] ELSE row
     /\ adjusted' = IF v = 0 THEN adjusted
                    ELSE adjusted \cup {[by |-> r, count |-> c, units |-> v]}
     /\ written' = IF v < 0 THEN written \cup {c} ELSE written

(* A bug: the entry of the shortage is inserted with OR IGNORE. *)
ApproveBatch_Ignore(r) ==
  /\ request[r].at = "approve"
  /\ Adjust(r)
  /\ Then(r, Done)
  /\ UNCHANGED <<expired, delivered, consumed, wasted>>

(* The key of the ledger entry is made of the count and its item: a second  *)
(* approval of a shortage violates it, and its batch is undone.             *)
ApproveBatch(r) ==
  /\ request[r].at = "approve"
  /\ IF request[r].variance < 0 /\ request[r].count \in written
     THEN UNCHANGED <<counts, lots, row, adjusted, written>>
     ELSE Adjust(r)
  /\ Then(r, Done)
  /\ UNCHANGED <<expired, delivered, consumed, wasted>>

-----------------------------------------------------------------------------
Next ==
  \/ Expire
  \/ \E r \in Requests :
       \/ DeliverRead(r) \/ DeliverBatch(r) \/ WasteRead(r) \/ WasteBatch(r)
       \/ OpenRead(r) \/ OpenBatch(r) \/ SubmitRead(r) \/ SubmitBatch(r)
       \/ ApproveRead(r) \/ ApproveBatch(r)

Spec == Init /\ [][Next]_vars

-----------------------------------------------------------------------------
TypeOK ==
  /\ \A l \in DOMAIN lots : lots[l] \in Nat
  /\ expired \in 0..Len(Stock)
  /\ row \in [onHand : Nat, reserved : Nat]
  /\ delivered \subseteq Orders /\ wasted \subseteq Requests
  /\ \A c \in DOMAIN counts : counts[c].status \in {"open", "submitted", "approved"}
  /\ written \subseteq Counts

(* Whoever approves a count, and however many do at once, a shortage it     *)
(* found is taken off the stock once and stands in the ledger.              *)
ShortageOnce ==
  \A c \in Counts :
    LET off == {a \in adjusted : a.count = c /\ a.units < 0} IN
    /\ Cardinality(off) <= 1
    /\ off # {} => c \in written
=============================================================================
