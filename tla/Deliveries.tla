----------------------------- MODULE Deliveries -----------------------------
(***************************************************************************)
(* Home delivery at one site: the fee a customer is quoted and the order that *)
(* locks the quote, routes, the proofs of delivery with their image files,    *)
(* and the clean-up of both.  Requests are numbered as they start, and so are *)
(* the quotes, orders, proofs and files they make.  A request that is refused *)
(* changes nothing and is left out; one that dies keeps what it has done.     *)
(***************************************************************************)
EXTENDS Integers, FiniteSets

CONSTANTS
  MaxRequests, MaxOpen, \* bounds: requests in a behaviour, under way at a time
  MaxTime,      \* bound of the clock, in minutes of a day
  Carts,        \* [value, distance]: items and address of a checkout
  RuleIds, Bodies, \* fee rules: ids by priority, what a rule may say
  Default, Threshold, \* delivery.default_fee_vnd, delivery.free_shipping_threshold_vnd
  Life, Retention, \* of a quote, of a photo
  RouteMax,     \* delivery.route_max_items; a cart is one item
  Shippers, None

Requests == 1..MaxRequests

VARIABLES
  rules,   \* delivery_fee_rules
  quotes,  \* delivery_quotes of provider 'checkout'; a deleted row is "removed"
  orders,  \* operation_orders to be delivered
  proofs,  \* delivery_proofs
  files,   \* images of the "pod" directory
  request, \* what each request has read
  now
vars == <<rules, quotes, orders, proofs, files, request, now>>

Time == 0..MaxTime
Body == [type : {"distance", "order_value", "time_window"}, min : Nat, max : Nat \cup {None},
         fee : Nat, freeOver : Nat \cup {None}]
RuleRow == [body : Body, from : Time, to : Time \cup {None}]
QuoteRow == [cart : Carts, fee : Nat, expires : Nat,
             status : {"checkout", "locked", "removed"}, order : Requests \cup {None}]
Statuses == {"new", "ready", "assigned", "picked_up", "delivering", "delivered", "delivery_failed"}
Trip == {"assigned", "picked_up", "delivering"}
OrderRow == [cart : Carts, fee : Nat, quote : Requests, status : Statuses,
             shipper : Shippers \cup {None}, otp : BOOLEAN, endedBy : Shippers \cup {None}]
Purposes == {"delivered", "delivery_failed"}
ProofRow == [id : Requests, order : Requests, type : {"photo", "otp"}, purpose : Purposes,
             by : Shippers, url : BOOLEAN, at : Time]

Idle == [at |-> "idle"]
Done == [at |-> "done"]

(* The day begins with nothing, or with the order of an earlier checkout,      *)
(* quote and order number 1, that order.assign has given to a shipper.         *)
Init ==
  /\ rules = [r \in RuleIds |-> None] /\ proofs = {} /\ files = {} /\ now = 0
  /\ \/ quotes = <<>> /\ orders = <<>> /\ request = [c \in Requests |-> Idle]
     \/ \E cart \in Carts, s \in Shippers :
          /\ quotes = [q \in {1} |-> [cart |-> cart, fee |-> Default, expires |-> Life,
                                     status |-> "locked", order |-> 1]]
          /\ orders = [o \in {1} |-> [cart |-> cart, fee |-> Default, quote |-> 1, status |-> "assigned",
                                     shipper |-> s, otp |-> TRUE, endedBy |-> None]]
          /\ request = [c \in Requests |-> IF c = 1 THEN Done ELSE Idle]

-----------------------------------------------------------------------------
Then(c, what) == request' = [request EXCEPT ![c] = what]
Begin(c, what) ==
  /\ request[c] = Idle
  /\ \A d \in 1..(c - 1) : request[d] # Idle
  /\ Cardinality({d \in Requests : request[d] \notin {Idle, Done}}) < MaxOpen
  /\ Then(c, what)
Insert(rows, id, row) == [i \in DOMAIN rows \cup {id} |-> IF i = id THEN row ELSE rows[i]]

(* delivery-fee-rule.upsert and .archive: one batch each. *)
UpsertRule(c) ==
  /\ Begin(c, Done)
  /\ \E r \in RuleIds, b \in Bodies :
       rules' = [rules EXCEPT ![r] = [body |-> b, from |-> now, to |-> None]]
  /\ UNCHANGED <<quotes, orders, proofs, files, now>>

ArchiveRule(c) ==
  /\ Begin(c, Done)
  /\ \E r \in RuleIds :
       /\ rules[r] # None /\ (rules[r].to # None => rules[r].to > now)
       /\ rules' = [rules EXCEPT ![r].to = now]
  /\ UNCHANGED <<quotes, orders, proofs, files, now>>

(* resolveDeliveryFee: the matching rule of the highest priority. *)
Matches(b, cart) ==
  LET value == CASE b.type = "distance" -> cart.distance
                 [] b.type = "order_value" -> cart.value
                 [] b.type = "time_window" -> now
  IN value >= b.min /\ (b.max # None => value <= b.max)
resolveDeliveryFee(cart) ==
  LET found == {r \in RuleIds : /\ rules[r] # None /\ rules[r].from <= now
                                /\ (rules[r].to # None => rules[r].to > now)
                                /\ Matches(rules[r].body, cart)}
      body == rules[CHOOSE r \in found : \A s \in found : s <= r].body
  IN IF found = {} THEN IF cart.value >= Threshold THEN 0 ELSE Default
     ELSE IF body.freeOver # None /\ cart.value >= body.freeOver THEN 0 ELSE body.fee

(* The quote is computed, a courier may be asked, then the row is inserted. *)
QuoteRead(c) ==
  /\ \E cart \in Carts : Begin(c, [at |-> "quote", cart |-> cart, fee |-> resolveDeliveryFee(cart)])
  /\ UNCHANGED <<rules, quotes, orders, proofs, files, now>>
QuoteInsert(c) ==
  /\ request[c].at = "quote" /\ Then(c, Done)
  /\ quotes' = Insert(quotes, c, [cart |-> request[c].cart, fee |-> request[c].fee, order |-> None,
                                  expires |-> now + Life, status |-> "checkout"])
  /\ UNCHANGED <<rules, orders, proofs, files, now>>

-----------------------------------------------------------------------------
(* order.create: the quote must be live and of the very same cart.  The batch *)
(* locks it, but does not look whether another order or the clean-up was faster. *)
Quoted_AnyCart(q, cart) == quotes[q].status = "checkout" /\ quotes[q].expires > now
Quoted(q, cart) == quotes[q].status = "checkout" /\ quotes[q].expires > now /\ quotes[q].cart = cart
CreateRead(c) ==
  /\ \E q \in DOMAIN quotes, cart \in Carts :
       Quoted(q, cart) /\ Begin(c, [at |-> "create", quote |-> q, cart |-> cart,
                                    fee |-> quotes[q].fee, started |-> now])
  /\ UNCHANGED <<rules, quotes, orders, proofs, files, now>>
CreateBatch(c) ==
  LET r == request[c] IN
  /\ r.at = "create" /\ Then(c, Done)
  /\ quotes' = IF quotes[r.quote].status = "checkout" /\ quotes[r.quote].expires > r.started
                 THEN [quotes EXCEPT ![r.quote].status = "locked", ![r.quote].order = c] ELSE quotes
  /\ orders' = Insert(orders, c, [cart |-> r.cart, fee |-> r.fee, quote |-> r.quote, status |-> "new",
                                  shipper |-> None, otp |-> FALSE, endedBy |-> None])
  /\ UNCHANGED <<rules, proofs, files, now>>

(* order.advance up to "ready" and on the road: the guard of the UPDATE decides. *)
Move(o) ==
  <<orders[o].status, orders'[o].status>> \in
    {<<"new", "ready">>, <<"assigned", "picked_up">>, <<"picked_up", "delivering">>}
Advance(o) ==
  /\ \E s \in Statuses : orders' = [orders EXCEPT ![o].status = s] /\ Move(o)
  /\ UNCHANGED <<rules, quotes, proofs, files, request, now>>

(* delivery.route.confirm: a conflict is noticed after the commit. *)
RouteRead(c) ==
  /\ \E s \in Shippers, set \in SUBSET {o \in DOMAIN orders : orders[o].status = "ready"} :
       /\ Cardinality(set) \in 2..RouteMax
       /\ Begin(c, [at |-> "route", orders |-> set, shipper |-> s])
  /\ UNCHANGED <<rules, quotes, orders, proofs, files, now>>
RouteBatch(c) ==
  /\ request[c].at = "route" /\ Then(c, Done)
  /\ orders' = [o \in DOMAIN orders |->
       IF o \in request[c].orders /\ orders[o].status = "ready"
         THEN [orders[o] EXCEPT !.status = "assigned", !.shipper = request[c].shipper, !.otp = TRUE]
         ELSE orders[o]]
  /\ UNCHANGED <<rules, quotes, proofs, files, now>>

-----------------------------------------------------------------------------
(* order.advance to an end, by the order's shipper or, with None, the store.  *)
(* A shipper proves a delivery by the customer's code or by a photo, a failure *)
(* by a photo; the order's code goes with its end.                            *)
Photos_Any(o, by, purpose) == {p \in proofs : p.order = o /\ p.type = "photo" /\ p.by = by}
Photos(o, by, purpose) ==
  {p \in proofs : p.order = o /\ p.type = "photo" /\ p.purpose = purpose /\ p.by = by}
EndRead(c) ==
  /\ \E o \in DOMAIN orders, s \in Purposes, otp \in BOOLEAN :
     \E by \in {None, orders[o].shipper} :
       /\ orders[o].status \in (IF s = "delivered" THEN {"delivering"} ELSE Trip)
       /\ otp => by # None /\ s = "delivered" /\ orders[o].otp
       /\ by # None /\ ~otp => Photos(o, by, s) # {}
       /\ Begin(c, [at |-> "end", order |-> o, from |-> orders[o].status, to |-> s,
                    by |-> by, otp |-> otp])
  /\ UNCHANGED <<rules, quotes, orders, proofs, files, now>>
EndBatch(c) ==
  LET r == request[c] won == orders[r.order].status = r.from IN
  /\ r.at = "end" /\ Then(c, Done)
  /\ orders' = IF won THEN [orders EXCEPT ![r.order].status = r.to, ![r.order].otp = FALSE,
                                          ![r.order].endedBy = r.by] ELSE orders
  /\ proofs' = IF won /\ r.otp
                 THEN proofs \cup {[id |-> c, order |-> r.order, type |-> "otp", purpose |-> "delivered",
                                    by |-> r.by, url |-> FALSE, at |-> now]} ELSE proofs
  /\ UNCHANGED <<rules, quotes, files, now>>

(* A photo: the order is looked up, the file written, then its row inserted;  *)
(* the file goes again when the insert fails.                                 *)
UploadRead(c) ==
  /\ \E o \in DOMAIN orders, s \in Purposes :
       /\ orders[o].status \in Trip
       /\ Begin(c, [at |-> "save", order |-> o, purpose |-> s, by |-> orders[o].shipper])
  /\ UNCHANGED <<rules, quotes, orders, proofs, files, now>>
UploadSave(c) ==
  /\ request[c].at = "save" /\ Then(c, [request[c] EXCEPT !.at = "insert"])
  /\ files' = files \cup {c}
  /\ UNCHANGED <<rules, quotes, orders, proofs, now>>
UploadInsert(c) ==
  LET r == request[c] IN
  /\ r.at = "insert" /\ Then(c, Done)
  /\ \/ /\ proofs' = proofs \cup {[id |-> c, order |-> r.order, type |-> "photo", purpose |-> r.purpose,
                                   by |-> r.by, url |-> TRUE, at |-> now]}
        /\ UNCHANGED files
     \/ files' = files \ {c} /\ UNCHANGED proofs
  /\ UNCHANGED <<rules, quotes, orders, now>>

(* cleanupDeliveryData: files first, their rows next, old quotes last. *)
Expired_All == {p \in proofs : p.type = "photo" /\ p.url}
Expired == {p \in proofs : p.type = "photo" /\ p.url /\ p.at < now - Retention}
CleanRead(c) ==
  /\ Begin(c, [at |-> "unlink", photos |-> {p.id : p \in Expired}, started |-> now])
  /\ UNCHANGED <<rules, quotes, orders, proofs, files, now>>
CleanFile(c) ==
  /\ request[c].at = "unlink" /\ \E f \in request[c].photos \cap files : files' = files \ {f}
  /\ UNCHANGED <<rules, quotes, orders, proofs, request, now>>
CleanRows(c) ==
  /\ request[c].at = "unlink" /\ request[c].photos \cap files = {}
  /\ Then(c, [request[c] EXCEPT !.at = "quotes"])
  /\ proofs' = {IF p.id \in request[c].photos THEN [p EXCEPT !.url = FALSE] ELSE p : p \in proofs}
  /\ UNCHANGED <<rules, quotes, orders, files, now>>
CleanQuotes(c) ==
  /\ request[c].at = "quotes" /\ Then(c, Done)
  /\ quotes' = [q \in DOMAIN quotes |->
       IF quotes[q].status = "checkout" /\ quotes[q].expires < request[c].started
         THEN [quotes[q] EXCEPT !.status = "removed"] ELSE quotes[q]]
  /\ UNCHANGED <<rules, orders, proofs, files, now>>

(* The process dies between a file and its row, or between two statements of  *)
(* the clean-up.  Elsewhere a request leaves nothing behind.                  *)
Die(c) ==
  /\ request[c].at \in {"insert", "unlink", "quotes"} /\ Then(c, Done)
  /\ UNCHANGED <<rules, quotes, orders, proofs, files, now>>
Tick == now < MaxTime /\ now' = now + 1 /\ UNCHANGED <<rules, quotes, orders, proofs, files, request>>

Next ==
  \/ \E c \in Requests :
       \/ UpsertRule(c) \/ ArchiveRule(c) \/ QuoteRead(c) \/ QuoteInsert(c)
       \/ CreateRead(c) \/ CreateBatch(c) \/ RouteRead(c) \/ RouteBatch(c)
       \/ EndRead(c) \/ EndBatch(c) \/ UploadRead(c) \/ UploadSave(c) \/ UploadInsert(c)
       \/ CleanRead(c) \/ CleanFile(c) \/ CleanRows(c) \/ CleanQuotes(c) \/ Die(c)
  \/ \E o \in DOMAIN orders : Advance(o)
  \/ Tick

Spec == Init /\ [][Next]_vars

-----------------------------------------------------------------------------
TypeOK ==
  /\ rules \in [RuleIds -> RuleRow \cup {None}]
  /\ DOMAIN quotes \subseteq Requests /\ \A q \in DOMAIN quotes : quotes[q] \in QuoteRow
  /\ DOMAIN orders \subseteq Requests /\ \A o \in DOMAIN orders : orders[o] \in OrderRow
  /\ proofs \subseteq ProofRow /\ files \subseteq Requests /\ now \in Time

(* An order costs the delivery fee its own cart was quoted, whatever became of *)
(* the rules meanwhile; a locked quote names an order that was placed with it.  *)
FeeIsQuoted ==
  /\ \A o \in DOMAIN orders :
       LET q == quotes[orders[o].quote] IN orders[o].fee = q.fee /\ orders[o].cart = q.cart
  /\ \A q \in DOMAIN quotes : quotes[q].status = "locked" => orders[quotes[q].order].quote = q

(* What a shipper ended has the proof of that very end: the customer's code or *)
(* a photo of his own, and the code is spent.                                 *)
EndHasProof ==
  \A o \in DOMAIN orders :
    LET by == orders[o].endedBy IN
    by # None =>
      /\ ~orders[o].otp
      /\ \E p \in proofs : p.order = o /\ p.by = by /\ p.purpose = orders[o].status

(* A proof names a file that exists, until the photo is old enough to go. *)
PhotoIsKept ==
  \A p \in proofs : p.type = "photo" /\ p.id \notin files => p.at < now - Retention

=============================================================================
