----------------------------- MODULE Customers ------------------------------
(***************************************************************************)
(* Customers: registration, the profile an order finds or makes, the         *)
(* promotion, points and account link written after the order's batch, the   *)
(* notices of the health job, reviews and the address book.  A request is a   *)
(* sequence of statements; the process may die between two of them.           *)
(***************************************************************************)
EXTENDS Integers, FiniteSets

CONSTANTS
  MaxRequests, MaxOpen, \* requests in a behaviour, under way at a time
  Phones,     \* an account and a profile are each known by a phone number
  UsageLimit, \* promotions.usage_limit; one use per customer
  Moves,      \* the statuses an order comes to, of Notices
  None

(* Bounds: MaxRequests, MaxOpen, Moves.  A request that orders is the order. *)
Requests == 1..MaxRequests

VARIABLES
  accounts, \* users: the phones registered
  profiles, \* customers: a function from the phones that have one
  promotion,\* used_count, and the redemptions <<customer, order>>
  earned,   \* loyalty_transactions: the orders that earned, and whose
  placed,   \* operation_orders: the customer and the status of each
  told,     \* notifications and product_reviews: <<order, category>>
  request   \* what each request has read
vars == <<accounts, profiles, promotion, earned, placed, told, request>>

(* "derived": an order made the row, its id computed from the phone. *)
Profile == [id : {"derived", "fresh"}, user : Phones \cup {None}, points : 0..MaxRequests]
Statuses == {"new", "delivering", "delivered", "cancelled"}
Notices == Statuses \ {"new"}
Placed == [customer : Phones, status : Statuses]
Functions(D, R) == UNION {[S -> R] : S \in SUBSET D}

Idle == [at |-> "idle"]
Done == [at |-> "done"]
Pending ==
  {Idle, Done} \cup
  [at : {"place", "redeem", "link", "earn", "credit"}, customer : Phones,
   user : Phones \cup {None}, promo : BOOLEAN, known : BOOLEAN] \cup
  [at : {"register", "adopt"}, phone : Phones] \cup
  [at : {"notify", "review"}, order : Requests, status : Statuses]

Init ==
  /\ accounts = {} /\ profiles = <<>> /\ earned = {} /\ placed = <<>> /\ told = {}
  /\ promotion = [used |-> 0, by |-> {}]
  /\ request = [c \in Requests |-> Idle]

-----------------------------------------------------------------------------
Then(c, what) == request' = [request EXCEPT ![c] = what]
Step(c, to) == Then(c, [request[c] EXCEPT !.at = to])
Begin(c, what) ==
  /\ request[c] = Idle
  /\ \A d \in 1..(c - 1) : request[d] # Idle
  /\ Cardinality({d \in Requests : request[d] \notin {Idle, Done}}) < MaxOpen
  /\ Then(c, what)

(* The profile the account holds, or the one of the number given. *)
Owned(u) == {q \in DOMAIN profiles : profiles[q].user = u}
CustomersFor(u, p) == IF u # None /\ Owned(u) # {} THEN Owned(u) ELSE {p}

(* evaluatePromotion: the limits, from what is read now. *)
MayUse(q) ==
  /\ promotion.used < UsageLimit
  /\ \A pair \in promotion.by : pair[1] # q

OrderRead(c) ==
  \E u \in accounts \cup {None}, p \in Phones, promo \in BOOLEAN :
    \E q \in CustomersFor(u, p) :
      /\ promo => MayUse(q)
      /\ Begin(c, [at |-> "place", customer |-> q, user |-> u, promo |-> promo,
                   known |-> q \in DOMAIN profiles])
      /\ UNCHANGED <<accounts, profiles, promotion, earned, placed, told>>

(* The batch of the order writes the profile.  A row for the number made    *)
(* since by a registration has another id: the unique index on the number    *)
(* refuses the whole batch. *)
Collides(w) ==
  ~w.known /\ w.customer \in DOMAIN profiles /\ profiles[w.customer].id = "fresh"

WithProfile(q, how, u) ==
  [x \in DOMAIN profiles \cup {q} |->
     IF x \in DOMAIN profiles THEN profiles[x] ELSE [id |-> how, user |-> u, points |-> 0]]

OrderCreate(c) ==
  LET w == request[c] IN
  /\ w.at = "place"
  /\ IF Collides(w)
       THEN Then(c, Done) /\ UNCHANGED <<profiles, placed>>
       ELSE /\ profiles' = WithProfile(w.customer, "derived", None)
            /\ placed' = [o \in DOMAIN placed \cup {c} |->
                 IF o = c THEN [customer |-> w.customer, status |-> "new"] ELSE placed[o]]
            /\ Step(c, IF w.promo THEN "redeem" ELSE "link")
  /\ UNCHANGED <<accounts, promotion, earned, told>>

(* redeemPromotion: one batch. *)
Redeem(c) ==
  /\ request[c].at = "redeem"
  /\ promotion' = [used |-> promotion.used + 1,
                   by |-> promotion.by \cup {<<request[c].customer, c>>}]
  /\ Step(c, "link")
  /\ UNCHANGED <<accounts, profiles, earned, placed, told>>

(* A profile of another account keeps it. *)
Linkable_Any(q) == q \in DOMAIN profiles
Linkable(q) == q \in DOMAIN profiles /\ profiles[q].user = None

Linked(q, u) == IF Linkable(q) THEN [profiles EXCEPT ![q].user = u] ELSE profiles

Link(c) ==
  LET w == request[c] IN
  /\ w.at = "link"
  /\ profiles' = IF w.user = None THEN profiles ELSE Linked(w.customer, w.user)
  /\ Step(c, "earn")
  /\ UNCHANGED <<accounts, promotion, earned, placed, told>>

(* awardLoyaltyPoints: the ledger row, then the balance, each on its own. *)
Earn(c) ==
  /\ request[c].at = "earn"
  /\ earned' = earned \cup {<<request[c].customer, c>>}
  /\ Step(c, "credit")
  /\ UNCHANGED <<accounts, profiles, promotion, placed, told>>

Credit(c) ==
  /\ request[c].at = "credit"
  /\ profiles' = [profiles EXCEPT ![request[c].customer].points = @ + 1]
  /\ Then(c, Done)
  /\ UNCHANGED <<accounts, promotion, earned, placed, told>>

(* POST /api/customers/session, action register: the account (unique by its  *)
(* number), then the profile of the number, linked or made. *)
RegisterRead(c) ==
  \E p \in Phones \ accounts :
    /\ Begin(c, [at |-> "register", phone |-> p])
    /\ UNCHANGED <<accounts, profiles, promotion, earned, placed, told>>

Register(c) ==
  LET p == request[c].phone IN
  /\ request[c].at = "register"
  /\ accounts' = accounts \cup {p}
  /\ IF p \in accounts THEN Then(c, Done) ELSE Step(c, "adopt")
  /\ UNCHANGED <<profiles, promotion, earned, placed, told>>

Adopt(c) ==
  LET p == request[c].phone IN
  /\ request[c].at = "adopt"
  /\ profiles' = IF Linkable(p) THEN Linked(p, p) ELSE WithProfile(p, "fresh", p)
  /\ Then(c, Done)
  /\ UNCHANGED <<accounts, promotion, earned, placed, told>>

MoveOrder ==
  /\ \E o \in DOMAIN placed, s \in Moves :
       /\ placed[o].status \in {"new", "delivering"} /\ placed[o].status # s
       /\ placed' = [placed EXCEPT ![o].status = s]
  /\ UNCHANGED <<accounts, profiles, promotion, earned, told, request>>

(* syncOrderNotifications reads the orders, then writes notices one by one,  *)
(* each at most once; submitReview reads the order, then writes likewise. *)
NotifyRead(c) ==
  \E o \in DOMAIN placed :
    /\ placed[o].status \in Notices
    /\ Begin(c, [at |-> "notify", order |-> o, status |-> placed[o].status])
    /\ UNCHANGED <<accounts, profiles, promotion, earned, placed, told>>

ReviewRead(c) ==
  \E o \in DOMAIN placed :
    /\ placed[o].status = "delivered"
    /\ Begin(c, [at |-> "review", order |-> o, status |-> placed[o].status])
    /\ UNCHANGED <<accounts, profiles, promotion, earned, placed, told>>

Tell(c) ==
  LET w == request[c] IN
  /\ w.at \in {"notify", "review"}
  /\ told' = told \cup {<<w.order, IF w.at = "review" THEN "review" ELSE w.status>>}
  /\ Then(c, Done)
  /\ UNCHANGED <<accounts, profiles, promotion, earned, placed>>

Crash(c) ==
  /\ request[c].at \in {"redeem", "link", "earn", "credit", "adopt"}
  /\ Then(c, Done)
  /\ UNCHANGED <<accounts, profiles, promotion, earned, placed, told>>

Next ==
  \/ MoveOrder
  \/ \E c \in Requests :
       \/ OrderRead(c) \/ OrderCreate(c) \/ Redeem(c) \/ Link(c) \/ Earn(c) \/ Credit(c)
       \/ RegisterRead(c) \/ Register(c) \/ Adopt(c)
       \/ NotifyRead(c) \/ ReviewRead(c) \/ Tell(c) \/ Crash(c)

Spec == Init /\ [][Next]_vars

-----------------------------------------------------------------------------
TypeOK ==
  /\ accounts \subseteq Phones
  /\ profiles \in Functions(Phones, Profile)
  /\ promotion.used \in 0..MaxRequests /\ promotion.by \subseteq Phones \X Requests
  /\ earned \subseteq Phones \X Requests
  /\ placed \in Functions(Requests, Placed)
  /\ told \subseteq Requests \X (Notices \cup {"review"})
  /\ request \in [Requests -> Pending]

(* A profile that belongs to an account stays with it, whoever orders with   *)
(* its number and whoever registers meanwhile.                               *)
ProfileKeepsAccount ==
  \A q \in DOMAIN profiles : profiles[q].user # None => profiles'[q].user = profiles[q].user

=============================================================================
