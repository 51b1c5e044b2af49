----------------------------- MODULE Storefront -----------------------------
(***************************************************************************)
(* The customer's page (app/order/controller.tsx): the checkout with its    *)
(* client reference, the order request whose answer may be lost, and the    *)
(* two polls (payment every 3 s, tracking every 5 s) that write the same    *)
(* order on the page.  A render and the effects it starts or stops are one  *)
(* step; localStorage holds the cart and the active order after every       *)
(* render, so a reload keeps exactly those two.  The server is what the     *)
(* page sees of it: an order per client reference, which moves on its own.  *)
(***************************************************************************)
EXTENDS Naturals, FiniteSets

CONSTANTS
  MaxReferences,  \* bound: client references, that is checkouts that reach the payment step
  MaxCarts,       \* bound: carts filled from empty
  MaxVisits,      \* bound: loads of the page
  MaxFlight,      \* bound: requests of the page in flight at a time
  None            \* absence (a model value)

VARIABLES
  page,    \* the state of useOrderController
  posts,   \* order.create requests in flight
  polls,   \* payment and tracking requests in flight
  orders   \* the server's order of each client reference, or None

vars == <<page, posts, polls, orders>>

References == 1..MaxReferences

PageStatuses == {"confirmed", "preparing", "delivering", "completed", "cancelled"}

Ended == {"completed", "cancelled"}

PaymentEnded == {"paid", "expired", "refunded"}

\* order status -> what the tracking effect shows for it
Shown(status) ==
  CASE status = "cancelled" -> "cancelled"
    [] status = "delivered" -> "completed"
    [] status = "delivering" -> "delivering"
    [] status \in {"accepted", "delivery_failed"} -> "preparing"
    [] OTHER -> "confirmed"

\* the steps of an order and of its payment the page may come to see
Moves == {<<"new", "accepted">>, <<"new", "cancelled">>, <<"accepted", "delivering">>,
          <<"accepted", "cancelled">>, <<"delivering", "delivered">>, <<"delivering", "delivery_failed">>}

PaymentMoves == {<<"pending", "paid">>, <<"pending", "expired">>, <<"paid", "refunded">>}

OrderRow == [cart: 1..MaxCarts, visit: 1..MaxVisits, bank: BOOLEAN,
             status: {"new", "accepted", "delivering", "delivered", "delivery_failed", "cancelled"},
             payment: {"pending", "paid", "expired", "refunded"}]

Active == [reference: References, bank: BOOLEAN, status: PageStatuses,
           payment: {"pending", "paid", "expired", "refunded"}]

Blank(cart, active, visit) ==
  [cart |-> cart, step |-> "cart", reference |-> 0, placing |-> FALSE,
   active |-> active, visit |-> visit]

Init ==
  /\ page = Blank(0, None, 1)
  /\ posts = {}
  /\ polls = {}
  /\ orders = [r \in References |-> None]

-----------------------------------------------------------------------------
(***************************************************************************)
(* The cart and the steps of the checkout.  A delivery fee that is missing  *)
(* or expired only refuses a step: the customer asks for another.           *)
(***************************************************************************)
Carts == {page.cart} \cup {p.cart : p \in posts} \cup {orders[r].cart : r \in {s \in References : orders[s] # None}}

LastCart == CHOOSE c \in Carts : \A d \in Carts : d <= c

\* updateCart: a first item fills the cart, the last one removed empties it
AddItem ==
  /\ page.cart = 0
  /\ LastCart < MaxCarts
  /\ page' = [page EXCEPT !.cart = LastCart + 1]
  /\ UNCHANGED <<posts, polls, orders>>

RemoveItems ==
  /\ page.cart # 0
  /\ page' = [page EXCEPT !.cart = 0]
  /\ UNCHANGED <<posts, polls, orders>>

Issued == {page.reference} \cup {p.reference : p \in posts} \cup {r \in References : orders[r] # None}

Unused == {r \in References : \A i \in Issued : i < r}

\* a new DR-... reference; 0 past the bound
Fresh == IF Unused = {} THEN 0 ELSE CHOOSE r \in Unused : \A s \in Unused : r <= s

\* setCheckoutClientReference(current => current || `DR-...`)
Reference_Fresh(current) == Fresh

Reference(current) == IF current # 0 THEN current ELSE Fresh

continueCheckout ==
  \/ /\ page.step = "cart" /\ page.cart # 0
     /\ page' = [page EXCEPT !.step = "details"]
     /\ UNCHANGED <<posts, polls, orders>>
  \/ /\ page.step = "details"
     /\ page.reference # 0 \/ Unused # {}
     /\ page' = [page EXCEPT !.step = "payment", !.reference = Reference(@)]
     /\ UNCHANGED <<posts, polls, orders>>

Back ==
  /\ page.step # "cart"
  /\ page' = [page EXCEPT !.step = IF @ = "payment" THEN "details" ELSE "cart"]
  /\ UNCHANGED <<posts, polls, orders>>

-----------------------------------------------------------------------------
(***************************************************************************)
(* placeOrder: the reference is also the idempotency key, but each click    *)
(* stamps its own times into the body, so a second click never replays the  *)
(* first one's answer.                                                      *)
(***************************************************************************)
placeOrder ==
  /\ page.step = "payment" /\ ~page.placing /\ page.reference # 0
  /\ Cardinality(posts) + Cardinality(polls) < MaxFlight
  /\ page.cart # 0    \* an empty cart is refused by the server
  /\ page' = [page EXCEPT !.placing = TRUE]
  /\ \E bank \in BOOLEAN :
       posts' = posts \cup {[reference |-> page.reference, cart |-> page.cart, visit |-> page.visit,
                             bank |-> bank, answer |-> "none", waiting |-> TRUE]}
  /\ UNCHANGED <<polls, orders>>

\* the server: the key of an order that exists is refused, as is its client reference
Taken(reference) == orders[reference] # None

Create(post) ==
  /\ post.answer = "none"
  /\ \/ /\ ~Taken(post.reference)
        /\ orders' = [orders EXCEPT ![post.reference] =
             [cart |-> post.cart, visit |-> post.visit, bank |-> post.bank, status |-> "new", payment |-> "pending"]]
        /\ posts' = (posts \ {post}) \cup {[post EXCEPT !.answer = "created"]}
     \/ /\ posts' = (posts \ {post}) \cup {[post EXCEPT !.answer = "refused"]}
        /\ UNCHANGED orders
  /\ UNCHANGED <<page, polls>>

\* the answer reaches the page that asked for it
Answer(post) ==
  /\ post.answer # "none" /\ post.waiting
  /\ posts' = posts \ {post}
  /\ page' =
       IF post.answer = "created"
         THEN [Blank(0, [reference |-> post.reference, bank |-> post.bank, payment |-> "pending",
                         status |-> IF post.bank THEN "confirmed" ELSE "preparing"], page.visit)
                 EXCEPT !.step = page.step]
         ELSE [page EXCEPT !.placing = FALSE]
  /\ UNCHANGED <<polls, orders>>

\* the connection breaks: the page may click again while the request goes on
Lose(post) ==
  /\ post.waiting
  /\ posts' = (posts \ {post}) \cup {p \in {[post EXCEPT !.waiting = FALSE]} : post.answer = "none"}
  /\ page' = [page EXCEPT !.placing = FALSE]
  /\ UNCHANGED <<polls, orders>>

Reload ==
  /\ page.visit < MaxVisits
  /\ page' = Blank(page.cart, page.active, page.visit + 1)
  /\ posts' = {[p EXCEPT !.waiting = FALSE] : p \in {q \in posts : q.answer = "none"}}
  /\ polls' = {}
  /\ UNCHANGED orders

-----------------------------------------------------------------------------
(***************************************************************************)
(* The polls of the order on the page.                                      *)
(***************************************************************************)
\* the dependency of each effect: a change of it drops the answers still out
Dependency(kind) ==
  IF page.active = None THEN None
  ELSE <<page.active.reference, IF kind = "payment" THEN page.active.payment ELSE page.active.status>>

Polled(kind) ==
  /\ page.active # None
  /\ IF kind = "payment" THEN page.active.bank /\ page.active.payment \notin PaymentEnded
                         ELSE page.active.status \notin Ended

Ask(kind) ==
  /\ Polled(kind)
  /\ Cardinality(posts) + Cardinality(polls) < MaxFlight
  /\ polls' = polls \cup {[kind |-> kind, on |-> Dependency(kind), seen |-> None]}
  /\ UNCHANGED <<page, posts, orders>>

Read(poll) ==
  /\ poll.seen = None
  /\ polls' = (polls \ {poll}) \cup {[poll EXCEPT !.seen = [status |-> orders[poll.on[1]].status,
                                                           payment |-> orders[poll.on[1]].payment]]}
  /\ UNCHANGED <<page, posts, orders>>

\* `cancelled` of the effect that asked
Dropped(poll) == Dependency(poll.kind) # poll.on

Update(active, poll) ==
  IF poll.kind = "payment"
    THEN [active EXCEPT !.payment = poll.seen.payment,
            !.status = IF poll.seen.payment = "paid" /\ @ = "confirmed" THEN "preparing" ELSE @]
    ELSE [active EXCEPT !.payment = poll.seen.payment, !.status = Shown(poll.seen.status)]

Arrive(poll) ==
  /\ poll.seen # None
  /\ polls' = polls \ {poll}
  /\ page' = IF Dropped(poll) \/ page.active = None \/ page.active.reference # poll.on[1] THEN page
             ELSE [page EXCEPT !.active = Update(@, poll)]
  /\ UNCHANGED <<posts, orders>>

\* a failed poll is forgotten, the next tick asks again
Miss(poll) ==
  /\ polls' = polls \ {poll}
  /\ UNCHANGED <<page, posts, orders>>

\* the order the page follows moves; what the others do, the page never asks
MoveOrder(r) ==
  /\ orders[r] # None /\ page.active # None /\ page.active.reference = r
  /\ \/ \E m \in Moves : m[1] = orders[r].status /\ orders' = [orders EXCEPT ![r].status = m[2]]
     \/ \E m \in PaymentMoves :
          /\ orders[r].bank /\ m[1] = orders[r].payment
          /\ orders' = [orders EXCEPT ![r].payment = m[2]]
  /\ UNCHANGED <<page, posts, polls>>

Next ==
  \/ AddItem \/ RemoveItems
  \/ continueCheckout \/ Back \/ placeOrder \/ Reload
  \/ \E post \in posts : Create(post) \/ Answer(post) \/ Lose(post)
  \/ \E kind \in {"payment", "tracking"} : Ask(kind)
  \/ \E poll \in polls : Read(poll) \/ Arrive(poll) \/ Miss(poll)
  \/ \E r \in References : MoveOrder(r)

Spec == Init /\ [][Next]_vars

TypeOK ==
  /\ page.cart \in 0..MaxCarts /\ page.visit \in 1..MaxVisits
  /\ page.step \in {"cart", "details", "payment"}
  /\ page.reference \in 0..MaxReferences
  /\ page.active \in Active \cup {None}
  /\ orders \in [References -> OrderRow \cup {None}]
  /\ Cardinality(posts) + Cardinality(polls) <= MaxFlight

-----------------------------------------------------------------------------
\* One cart checked out on one load of the page makes at most one order,
\* whatever the customer clicks again after an answer was lost.
OneOrderPerCheckout ==
  \A r, s \in References :
    (r # s /\ orders[r] # None /\ orders[s] # None)
      => <<orders[r].cart, orders[r].visit>> # <<orders[s].cart, orders[s].visit>>

\* The page never takes back the end of an order: an answer read before the
\* end and delivered after it changes nothing.
EndedStays ==
  (page.active # None /\ page.active.status \in Ended)
    => \/ page'.active.reference # page.active.reference
       \/ page'.active.status = page.active.status

=============================================================================
