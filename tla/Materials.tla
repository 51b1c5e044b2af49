------------------------------ MODULE Materials ------------------------------
(***************************************************************************)
(* The central kitchen's raw materials: purchase orders and their receipts, *)
(* recipes, production batches and what they use up, adjustments.  Lots are *)
(* numbered as they come in, which is FEFO order when later lots expire     *)
(* later.  Each batch of statements is one step; only its first UPDATE and  *)
(* the UPDATEs of items and lots are guarded.                               *)
(***************************************************************************)
EXTENDS Integers, FiniteSets, FiniteSetsExt, Sequences

CONSTANTS
  MaxRequests, \* commands in a behaviour
  MaxOpen,     \* commands under way at a time
  Skus,      \* material SKUs
  Batches,   \* identities of production_batches
  MaxQty,    \* units per item of the purchase order, and units of a batch
  None

(* Bounds: MaxRequests commands, numbered as they start, MaxOpen at a time. *)
Requests == 1..MaxRequests

VARIABLES
  purchase,  \* the purchase order: status and its items
  lots,      \* material_stock_lots, a sequence
  inventory, \* operation_inventory.on_hand, per material
  payable,   \* supplier_payable entries in finance_ledger_entries: their sum
  recipes,   \* product_recipes of the product: a sequence of versions
  batches,   \* production_batches: a function from ids
  usage,     \* production_material_usage
  finished,  \* site_stock_lots made by batches
  request    \* what each request has read
vars == <<purchase, lots, inventory, payable, recipes, batches, usage, finished, request>>

Idle == [at |-> "idle"]
Done == [at |-> "done"]
NoPurchase == [status |-> "none", ordered |-> [k \in Skus |-> 0], received |-> [k \in Skus |-> 0],
               updatedBy |-> None]

Init ==
  /\ purchase = NoPurchase
  /\ lots = <<>>
  /\ inventory = [k \in Skus |-> 0]
  /\ payable = 0
  /\ recipes = <<>>
  /\ batches = <<>>
  /\ usage = {} /\ finished = {}
  /\ request = [r \in Requests |-> Idle]

-----------------------------------------------------------------------------
Then(r, what) == request' = [request EXCEPT ![r] = what]

(* A request that may start now. *)
Fresh(r) ==
  /\ request[r] = Idle
  /\ \A q \in 1..(r - 1) : request[q] # Idle
  /\ Cardinality({q \in Requests : request[q] \notin {Idle, Done}}) < MaxOpen
Begin(r, what) == Fresh(r) /\ Then(r, what)

(* materialLots and allocateFefo *)
LotsOf(k) == {l \in DOMAIN lots : lots[l].sku = k /\ lots[l].quantity > 0}
UnitsOf(s) == MapThenSumSet(LAMBDA l : lots[l].quantity, s)
Take(k, l, n) ==
  LET before == UnitsOf({m \in LotsOf(k) : m < l}) IN
  IF before >= n THEN 0 ELSE IF lots[l].quantity < n - before THEN lots[l].quantity ELSE n - before
Allocated(k, n) == {[sku |-> k, lot |-> l, units |-> Take(k, l, n)] : l \in {m \in LotsOf(k) : Take(k, m, n) > 0}}

Deplete(takes) ==
  [l \in DOMAIN lots |->
     IF \E t \in takes : t.lot = l /\ lots[l].quantity >= t.units
     THEN [lots[l] EXCEPT !.quantity = @ - (CHOOSE t \in takes : t.lot = l).units] ELSE lots[l]]

TakenOf(takes, k) == MapThenSumSet(LAMBDA t : t.units, {t \in takes : t.sku = k})

-----------------------------------------------------------------------------
(* purchase.create *)
Purchase(r) ==
  /\ Fresh(r)
  /\ purchase = NoPurchase
  /\ \E q \in [Skus -> 1..MaxQty] :
       purchase' = [status |-> "ordered", ordered |-> q, received |-> [k \in Skus |-> 0], updatedBy |-> r]
  /\ Then(r, Done)
  /\ UNCHANGED <<lots, inventory, payable, recipes, batches, usage, finished>>

(* A bug: what has come in before is forgotten. *)
Outstanding_Whole(k) == purchase.ordered[k]
Outstanding(k) == purchase.ordered[k] - purchase.received[k]

(* allReceived: nothing is outstanding after this receipt. *)
Complete(q) == \A k \in Skus : q[k] = Outstanding(k)

(* purchase.receive reads the order, then its items: some of what is        *)
(* outstanding comes in, of one item or more.                               *)
ReceiveRead(r) ==
  /\ purchase.status \in {"ordered", "partially_received"}
  /\ Begin(r, [at |-> "items", seen |-> purchase])
  /\ UNCHANGED <<purchase, lots, inventory, payable, recipes, batches, usage, finished>>

ReceiveItems(r) ==
  /\ request[r].at = "items"
  /\ \/ \E q \in [Skus -> 0..MaxQty] :
          /\ \A k \in Skus : q[k] <= Outstanding(k)
          /\ \E k \in Skus : q[k] > 0
          /\ Then(r, [at |-> "receive", units |-> q,
                      seen |-> [request[r].seen EXCEPT !.received = purchase.received],
                      status |-> IF Complete(q) THEN "received" ELSE "partially_received"])
     \/ (\A k \in Skus : Outstanding(k) = 0) /\ Then(r, Done) \* nothing_to_receive
  /\ UNCHANGED <<purchase, lots, inventory, payable, recipes, batches, usage, finished>>

(* UPDATE purchase_order_items ... WHERE quantity_received = ? *)
ItemWins_Always(r, k) == TRUE
ItemWins(r, k) == purchase.received[k] = request[r].seen.received[k]

(* UPDATE purchase_orders ... WHERE status = ? AND updated_at = ? *)
OrderWins(r) ==
  /\ purchase.status = request[r].seen.status
  /\ purchase.updatedBy = request[r].seen.updatedBy

(* The batch goes on whether the order's UPDATE wins or not: it is refused  *)
(* after the commit.  Lots, inventory and the payable come in regardless.   *)
ReceiveBatch(r) ==
  /\ request[r].at = "receive"
  /\ LET q == request[r].units
         seen == request[r].seen
         some == {k \in Skus : q[k] > 0}
     IN /\ purchase' = [purchase EXCEPT
             !.status = IF OrderWins(r) THEN request[r].status ELSE @,
             !.updatedBy = IF OrderWins(r) THEN r ELSE @,
             !.received = [k \in Skus |-> IF k \in some /\ ItemWins(r, k)
                                          THEN seen.received[k] + q[k] ELSE @[k]]]
        /\ \E order \in [1..Cardinality(some) -> some] :
             /\ \A k \in some : \E n \in DOMAIN order : order[n] = k
             /\ lots' = lots \o [n \in DOMAIN order |-> [sku |-> order[n], quantity |-> q[order[n]]]]
        /\ inventory' = [k \in Skus |-> inventory[k] + q[k]]
        /\ payable' = payable + MapThenSumSet(LAMBDA k : q[k], some)
  /\ Then(r, Done)
  /\ UNCHANGED <<recipes, batches, usage, finished>>

-----------------------------------------------------------------------------
(* recipe.upsert: a new version replaces the open one. *)
Recipe(r) ==
  /\ Fresh(r)
  /\ \E s \in SUBSET Skus \ {{}} : recipes' = Append(recipes, s)
  /\ Then(r, Done)
  /\ UNCHANGED <<purchase, lots, inventory, payable, batches, usage, finished>>

(* production.plan needs an open recipe. *)
Plan(r) ==
  /\ Fresh(r)
  /\ recipes # <<>>
  /\ \E b \in Batches \ DOMAIN batches, n \in 1..MaxQty :
       batches' = [c \in DOMAIN batches \cup {b} |->
         IF c # b THEN batches[c] ELSE [status |-> "planned", planned |-> n, produced |-> 0]]
  /\ Then(r, Done)
  /\ UNCHANGED <<purchase, lots, inventory, payable, recipes, usage, finished>>

(* production.start: its UPDATE decides. *)
Start(r) ==
  /\ Fresh(r)
  /\ \E b \in DOMAIN batches :
       /\ batches[b].status = "planned"
       /\ batches' = [batches EXCEPT ![b].status = "in_progress"]
  /\ Then(r, Done)
  /\ UNCHANGED <<purchase, lots, inventory, payable, recipes, usage, finished>>

(* production.complete: what is good, at most what was planned, and the     *)
(* materials for it by the recipe in force.                                 *)
CompleteRead(r) ==
  /\ recipes # <<>>
  /\ LET needed == recipes[Len(recipes)] IN
     \E b \in DOMAIN batches : \E n \in 1..batches[b].planned :
       /\ batches[b].status = "in_progress"
       /\ \A k \in needed : n <= UnitsOf(LotsOf(k))
       /\ Begin(r, [at |-> "complete", batch |-> b, produced |-> n,
                    takes |-> UNION {Allocated(k, n) : k \in needed}])
  /\ UNCHANGED <<purchase, lots, inventory, payable, recipes, batches, usage, finished>>

(* A bug: the batch's own UPDATE is not guarded. *)
CompleteWins_Always(r) == TRUE

CompleteWins(r) == batches[request[r].batch].status = "in_progress"

CompleteBatch(r) ==
  /\ request[r].at = "complete"
  /\ LET b == request[r].batch
         takes == request[r].takes
     IN /\ batches' = IF CompleteWins(r)
                      THEN [batches EXCEPT ![b] = [@ EXCEPT !.status = "completed", !.produced = request[r].produced]]
                      ELSE batches
        /\ lots' = Deplete(takes)
        /\ inventory' = [k \in Skus |->
             LET n == TakenOf(takes, k) IN IF inventory[k] >= n THEN inventory[k] - n ELSE inventory[k]]
        /\ usage' = usage \cup {[by |-> r, batch |-> b, take |-> t] : t \in takes}
        /\ finished' = finished \cup {[by |-> r, batch |-> b, units |-> request[r].produced]}
  /\ Then(r, Done)
  /\ UNCHANGED <<purchase, payable, recipes>>

(* inventory.adjust: of the row that was read, or not at all. *)
AdjustRead(r) ==
  /\ \E k \in Skus, d \in {-1, 1} :
       /\ inventory[k] + d >= 0
       /\ Begin(r, [at |-> "adjust", sku |-> k, onHand |-> inventory[k], delta |-> d])
  /\ UNCHANGED <<purchase, lots, inventory, payable, recipes, batches, usage, finished>>

AdjustBatch(r) ==
  /\ request[r].at = "adjust"
  /\ inventory' = IF inventory[request[r].sku] = request[r].onHand
                  THEN [inventory EXCEPT ![request[r].sku] = @ + request[r].delta] ELSE inventory
  /\ Then(r, Done)
  /\ UNCHANGED <<purchase, lots, payable, recipes, batches, usage, finished>>

(* waste.record of a material *)
WasteRead(r) ==
  /\ \E k \in Skus :
       /\ LotsOf(k) # {}
       /\ Begin(r, [at |-> "waste", sku |-> k, takes |-> Allocated(k, 1)])
  /\ UNCHANGED <<purchase, lots, inventory, payable, recipes, batches, usage, finished>>

WasteBatch(r) ==
  /\ request[r].at = "waste"
  /\ lots' = Deplete(request[r].takes)
  /\ inventory' = [inventory EXCEPT ![request[r].sku] = IF @ >= 1 THEN @ - 1 ELSE @]
  /\ Then(r, Done)
  /\ UNCHANGED <<purchase, payable, recipes, batches, usage, finished>>

-----------------------------------------------------------------------------
Next == \E r \in Requests :
  \/ Purchase(r) \/ ReceiveRead(r) \/ ReceiveItems(r) \/ ReceiveBatch(r) \/ Recipe(r) \/ Plan(r)
  \/ Start(r) \/ CompleteRead(r) \/ CompleteBatch(r) \/ AdjustRead(r) \/ AdjustBatch(r)
  \/ WasteRead(r) \/ WasteBatch(r)

Spec == Init /\ [][Next]_vars

-----------------------------------------------------------------------------
TypeOK ==
  /\ purchase.status \in {"none", "ordered", "partially_received", "received"}
  /\ \A k \in Skus : purchase.ordered[k] \in 0..MaxQty /\ purchase.received[k] \in Nat
  /\ \A l \in DOMAIN lots : lots[l] \in [sku : Skus, quantity : 0..MaxQty]
  /\ inventory \in [Skus -> Nat] /\ payable \in Nat
  /\ \A b \in DOMAIN batches : batches[b].status \in {"planned", "in_progress", "completed"}

(* Whoever receives at the same time, and whether he is told that he lost:   *)
(* no item gets more than was ordered, an order of which something came      *)
(* shows it, and what counts as received is owed to the supplier.  (An order *)
(* may be closed with an item missing: of two receipts that lose, one may    *)
(* leave its items to a third that closes the order.)                        *)
ReceivedWithinOrder ==
  /\ \A k \in Skus : purchase.received[k] <= purchase.ordered[k]
  /\ purchase.status = "ordered" => \A k \in Skus : purchase.received[k] = 0
  /\ MapThenSumSet(LAMBDA k : purchase.received[k], Skus) <= payable

(* No receipt takes back what another has counted, and none opens an order   *)
(* that is closed.                                                          *)
ReceiptsStay ==
  /\ purchase.status # "none" => \A k \in Skus : purchase'.received[k] >= purchase.received[k]
  /\ purchase.status = "received" => purchase'.status = "received"

(* The yield a batch reports stands: nobody who completed it at the same    *)
(* time writes another over it.                                             *)
YieldIsFinal ==
  \A b \in DOMAIN batches : batches[b].status = "completed" => batches'[b] = batches[b]
=============================================================================
