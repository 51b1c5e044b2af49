------------------------------ MODULE Transfers ------------------------------
(***************************************************************************)
(* Transfers of one product from the central kitchen to one store, and the  *)
(* debt of the store (internal_accounts) they raise and payments lower.     *)
(*                                                                          *)
(* Every command reads rows and then commits one batch.  A transfer passes  *)
(* through each status once, so the guard on its status says what the guard *)
(* on updated_at says.  The statements that follow a guarded UPDATE in the  *)
(* batch do not ask whether it changed a row; the caller looks at the count *)
(* after the commit.                                                        *)
(***************************************************************************)
EXTENDS Integers, FiniteSets, FiniteSetsExt

CONSTANTS
  MaxRequests, \* commands in a behaviour
  MaxOpen,     \* commands under way at a time
  Transfers,  \* identities of transfer_orders
  Lots,       \* the kitchen's lots, 1..n in FEFO order
  LotSize,    \* the units in each of them at the start
  Reserved,   \* catalog_site_stock.reserved of the kitchen
  MaxQty,     \* units in a transfer
  Limits,     \* credit limits an owner sets; 0: none
  None

(* Bounds: MaxRequests commands, numbered as they start, MaxOpen at a time. *)
Requests == 1..MaxRequests

VARIABLES
  transfers,   \* transfer_orders with their one item: a function from ids
  kitchen,     \* site_stock_lots of the kitchen: lot -> quantity
  onHand,      \* catalog_site_stock.on_hand: site -> quantity
  allocations, \* transfer_item_lots
  storeLots,   \* site_stock_lots of the store, one set of rows per transfer
  account,     \* internal_accounts of the store
  entries,     \* internal_account_entries
  request      \* what each request has read
vars == <<transfers, kitchen, onHand, allocations, storeLots, account, entries, request>>

Price == 1   \* transfer_price
Statuses == {"requested", "approved", "packed", "in_transit", "received",
             "partially_received", "rejected"}
TransferRow == [status : Statuses, requested : 1..MaxQty, shipped : 0..MaxQty,
                received : 0..MaxQty, rejected : 0..MaxQty]
Entry == [type : {"transfer", "payment"}, by : Requests,
          transfer : Transfers \cup {None}, amount : Int, balanceAfter : Int]

Idle == [at |-> "idle"]
Done == [at |-> "done"]

Init ==
  /\ transfers = <<>>
  /\ kitchen = [l \in Lots |-> LotSize]
  /\ onHand = [kitchen |-> LotSize * Cardinality(Lots), store |-> 0]
  /\ allocations = {} /\ storeLots = {}
  /\ account = [balance |-> 0, limit |-> 0, updatedBy |-> {}]
  /\ entries = {}
  /\ request = [r \in Requests |-> Idle]

-----------------------------------------------------------------------------
Min2(a, b) == IF a < b THEN a ELSE b
Amount(rows) == MapThenSumSet(LAMBDA x : x.amount, rows)

Sum(f) == MapThenSumSet(LAMBDA l : f[l], DOMAIN f)

(* allocateFefo: the units to take from each lot; lots are numbered in the  *)
(* order of productLots.                                                    *)
Fefo(lots, n) ==
  [l \in DOMAIN lots |->
     LET before == MapThenSumSet(LAMBDA k : lots[k], {k \in DOMAIN lots : k < l}) IN
     IF before >= n THEN 0 ELSE Min2(lots[l], n - before)]

Deplete_Unchecked(lots, takes) == [l \in DOMAIN lots |-> lots[l] - takes[l]]

(* UPDATE site_stock_lots SET quantity = quantity - take ... WHERE quantity >= take *)
Deplete(lots, takes) ==
  [l \in DOMAIN lots |-> IF lots[l] >= takes[l] THEN lots[l] - takes[l] ELSE lots[l]]

Existing(status) == {t \in DOMAIN transfers : transfers[t].status = status}

Then(r, what) == request' = [request EXCEPT ![r] = what]

(* A request that may start now. *)
Fresh(r) ==
  /\ request[r] = Idle
  /\ \A q \in 1..(r - 1) : request[q] # Idle
  /\ Cardinality({q \in Requests : request[q] \notin {Idle, Done}}) < MaxOpen
Begin(r, what) == Fresh(r) /\ Then(r, what)

(* The guarded UPDATE of the transfer. *)
Holds(r, status) == transfers[request[r].transfer].status = status
Step(r, from, row) ==
  transfers' = IF Holds(r, from) THEN [transfers EXCEPT ![request[r].transfer] = row] ELSE transfers

-----------------------------------------------------------------------------
(* transfer.request: only what valid lots can give is requested. *)
Request(r) ==
  /\ Fresh(r)
  /\ \E t \in Transfers \ DOMAIN transfers, n \in 1..MaxQty :
       /\ n <= Sum(kitchen)
       /\ transfers' = [u \in DOMAIN transfers \cup {t} |->
            IF u # t THEN transfers[u]
            ELSE [status |-> "requested", requested |-> n, shipped |-> 0,
                  received |-> 0, rejected |-> 0]]
  /\ Then(r, Done)
  /\ UNCHANGED <<kitchen, onHand, allocations, storeLots, account, entries>>

(* transfer.approve: the debt it would leave is within the limit, unless    *)
(* the owner overrides; an alert is all that a refusal leaves.              *)
ApproveRead(r) ==
  /\ \E t \in Existing("requested"), override \in BOOLEAN :
       /\ \/ account.limit = 0 \/ override
          \/ account.balance + transfers[t].requested * Price <= account.limit
       /\ Begin(r, [at |-> "approve", transfer |-> t])
  /\ UNCHANGED <<transfers, kitchen, onHand, allocations, storeLots, account, entries>>

ApproveBatch(r) ==
  /\ request[r].at = "approve"
  /\ Step(r, "requested", [transfers[request[r].transfer] EXCEPT !.status = "approved"])
  /\ Then(r, Done)
  /\ UNCHANGED <<kitchen, onHand, allocations, storeLots, account, entries>>

(* transfer.reject: before it is packed. *)
RejectRead(r) ==
  /\ \E t \in Existing("requested") \cup Existing("approved") :
       Begin(r, [at |-> "reject", transfer |-> t, status |-> transfers[t].status])
  /\ UNCHANGED <<transfers, kitchen, onHand, allocations, storeLots, account, entries>>

RejectBatch(r) ==
  /\ request[r].at = "reject"
  /\ Step(r, request[r].status, [transfers[request[r].transfer] EXCEPT !.status = "rejected"])
  /\ Then(r, Done)
  /\ UNCHANGED <<kitchen, onHand, allocations, storeLots, account, entries>>

(* transfer.pack: the lots are chosen from a read. *)
PackRead(r) ==
  /\ \E t \in Existing("approved") :
       /\ transfers[t].requested <= Sum(kitchen)
       /\ Begin(r, [at |-> "pack", transfer |-> t, takes |-> Fefo(kitchen, transfers[t].requested)])
  /\ UNCHANGED <<transfers, kitchen, onHand, allocations, storeLots, account, entries>>

PackBatch(r) ==
  /\ request[r].at = "pack"
  /\ LET t == request[r].transfer
         takes == request[r].takes
         n == transfers[t].requested
     IN /\ transfers' = [transfers EXCEPT
             ![t].status = IF @ = "approved" THEN "packed" ELSE @,
             ![t].shipped = IF @ = 0 THEN n ELSE @]
        /\ kitchen' = Deplete(kitchen, takes)
        /\ allocations' = allocations \cup
             {[by |-> r, transfer |-> t, lot |-> l, quantity |-> takes[l]] :
                l \in {k \in Lots : takes[k] > 0}}
        /\ onHand' = IF onHand.kitchen - Reserved >= n
                     THEN [onHand EXCEPT !.kitchen = @ - n] ELSE onHand
  /\ Then(r, Done)
  /\ UNCHANGED <<storeLots, account, entries>>

(* transfer.ship: the UPDATE alone decides. *)
Ship(r) ==
  /\ Fresh(r)
  /\ \E t \in Existing("packed") :
       transfers' = [transfers EXCEPT ![t].status = "in_transit"]
  /\ Then(r, Done)
  /\ UNCHANGED <<kitchen, onHand, allocations, storeLots, account, entries>>

-----------------------------------------------------------------------------
(* transfer.receive: what arrived of what was shipped (the rest is missing  *)
(* or damaged, with a discrepancy); the new balance is computed here.       *)
ReceiveRead(r) ==
  /\ \E t \in Existing("in_transit") : \E n \in 0..transfers[t].shipped :
       Begin(r, [at |-> "receive", transfer |-> t, received |-> n,
                 balanceAfter |-> account.balance + n * Price])
  /\ UNCHANGED <<transfers, kitchen, onHand, allocations, storeLots, account, entries>>

Received(r) ==
  LET row == transfers[request[r].transfer] IN
  [row EXCEPT !.status = IF request[r].received = row.shipped THEN "received" ELSE "partially_received",
              !.received = request[r].received,
              !.rejected = row.shipped - request[r].received]

BalanceSet(r, balance) ==
  account' = [account EXCEPT !.balance = balance, !.updatedBy = @ \cup {r}]

Credit(r) ==
  /\ Step(r, "in_transit", Received(r))
  /\ storeLots' = storeLots \cup
       {x \in {[transfer |-> request[r].transfer, quantity |-> request[r].received]} : x.quantity > 0}
  /\ onHand' = [onHand EXCEPT !.store = @ + request[r].received]
  /\ entries' = entries \cup
       {[type |-> "transfer", by |-> r, transfer |-> request[r].transfer,
         amount |-> request[r].received * Price, balanceAfter |-> request[r].balanceAfter]}
  /\ BalanceSet(r, request[r].balanceAfter)

(* A bug: the batch of a second receipt does not fail on its keys. *)
ReceiveBatch_AnyKey(r) ==
  /\ request[r].at = "receive"
  /\ Credit(r)
  /\ Then(r, Done)
  /\ UNCHANGED <<kitchen, allocations>>

(* The ids of the lots and of the entry are made of the transfer's: the     *)
(* second receipt of a transfer violates a key and its batch is undone.     *)
ReceiveBatch(r) ==
  /\ request[r].at = "receive"
  /\ IF \E e \in entries : e.transfer = request[r].transfer
     THEN UNCHANGED <<transfers, storeLots, onHand, entries, account>>
     ELSE Credit(r)
  /\ Then(r, Done)
  /\ UNCHANGED <<kitchen, allocations>>

(* internal.payment: part of the balance or all of it; only the UPDATE is   *)
(* guarded (balance and updated_at), the entry is not.                      *)
PaymentRead(r) ==
  /\ \E n \in 1..account.balance :
       Begin(r, [at |-> "payment", amount |-> n, seen |-> account])
  /\ UNCHANGED <<transfers, kitchen, onHand, allocations, storeLots, account, entries>>

PaymentBatch(r) ==
  /\ request[r].at = "payment"
  /\ LET balance == request[r].seen.balance - request[r].amount IN
     /\ IF /\ account.balance = request[r].seen.balance
           /\ account.updatedBy = request[r].seen.updatedBy
        THEN BalanceSet(r, balance) ELSE UNCHANGED account
     /\ entries' = entries \cup
          {[type |-> "payment", by |-> r, transfer |-> None,
            amount |-> -request[r].amount, balanceAfter |-> balance]}
  /\ Then(r, Done)
  /\ UNCHANGED <<transfers, kitchen, onHand, allocations, storeLots>>

(* internal.credit-limit.set *)
SetLimit(r) ==
  /\ Fresh(r)
  /\ \E n \in Limits \ {account.limit} :
       account' = [account EXCEPT !.limit = n, !.updatedBy = @ \cup {r}]
  /\ Then(r, Done)
  /\ UNCHANGED <<transfers, kitchen, onHand, allocations, storeLots, entries>>

-----------------------------------------------------------------------------
Next == \E r \in Requests :
  \/ Request(r) \/ ApproveRead(r) \/ ApproveBatch(r) \/ RejectRead(r) \/ RejectBatch(r)
  \/ PackRead(r) \/ PackBatch(r) \/ Ship(r) \/ ReceiveRead(r) \/ ReceiveBatch(r)
  \/ PaymentRead(r) \/ PaymentBatch(r) \/ SetLimit(r)

Spec == Init /\ [][Next]_vars

-----------------------------------------------------------------------------
TypeOK ==
  /\ DOMAIN transfers \subseteq Transfers
  /\ \A t \in DOMAIN transfers : transfers[t] \in TransferRow
  /\ kitchen \in [Lots -> 0..LotSize]
  /\ onHand \in [{"kitchen", "store"} -> Nat]
  /\ allocations \subseteq [by : Requests, transfer : Transfers, lot : Lots, quantity : 1..MaxQty]
  /\ storeLots \subseteq [transfer : Transfers, quantity : 0..MaxQty]
  /\ account \in [balance : Nat, limit : Limits \cup {0}, updatedBy : SUBSET Requests]
  /\ entries \subseteq Entry

(* However often a transfer is received at the same time, the store gets    *)
(* its goods once and owes for them once: stock, lots and debt entries are  *)
(* those of the transfers that are received.                                *)
ReceivedOnce ==
  LET received == Existing("received") \cup Existing("partially_received")
      Units == MapThenSumSet(LAMBDA t : transfers[t].received, received)
      debts == {e \in entries : e.type = "transfer"}
  IN /\ onHand.store = Units
     /\ MapThenSumSet(LAMBDA x : x.quantity, storeLots) = Units
     /\ Amount(debts) = Units * Price
     /\ \A t \in Transfers : Cardinality({e \in debts : e.transfer = t}) = IF t \in received THEN 1 ELSE 0

=============================================================================
