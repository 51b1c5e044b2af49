------------------------------ MODULE Catalog -------------------------------
(***************************************************************************)
(* One product of the catalogue and its prices: the edits of the catalogue,   *)
(* the price overrides and their windows, the price history, and the price an  *)
(* order resolves.  Each write is one transaction decided on what was read.    *)
(***************************************************************************)
EXTENDS Integers, FiniteSets

CONSTANTS
  MaxRequests, MaxOpen, \* requests in a behaviour, under way at a time
  Prices, MaxTime,
  OfferedScopes, \* the scopes prices are set for, of Scopes
  None

(* Bounds: MaxRequests, MaxOpen, MaxTime, OfferedScopes. *)
Requests == 1..MaxRequests
Times == 0..MaxTime

VARIABLES
  product,   \* catalog_products; the stamp is the request that wrote it last
  option,    \* catalog_product_options: one topping
  overrides, \* catalog_price_overrides
  history,   \* catalog_price_history
  sold,      \* the prices orders were given
  now,
  request    \* what each request has read
vars == <<product, option, overrides, history, sold, now, request>>

Scopes == {"site", "site_kind", "channel"}
Product == [active : BOOLEAN, price : Prices, stamp : Requests \cup {None}]
Override == [scope : Scopes, price : Prices, from : Times, to : Times \cup {None}, by : Requests]
Change == [scope : Scopes \cup {"base"}, old : Prices, new : Prices, by : Requests]

Idle == [at |-> "idle"]
Done == [at |-> "done"]
Pending ==
  {Idle, Done} \cup
  [at : {"edit"}, price : Prices, named : BOOLEAN, stamp : Requests \cup {None}] \cup
  [at : {"set"}, scope : Scopes \cup {"base"}, old : Prices, new : Prices,
   from : Times, to : Times \cup {None}] \cup
  [at : {"option", "resolve"}]

Init ==
  /\ product = [active |-> TRUE, price |-> CHOOSE p \in Prices : TRUE, stamp |-> None]
  /\ option = None /\ overrides = {} /\ history = {} /\ sold = {} /\ now = 0
  /\ request = [c \in Requests |-> Idle]

-----------------------------------------------------------------------------
Then(c, what) == request' = [request EXCEPT ![c] = what]
Begin(c, what) ==
  /\ request[c] = Idle
  /\ \A d \in 1..(c - 1) : request[d] # Idle
  /\ Cardinality({d \in Requests : request[d] \notin {Idle, Done}}) < MaxOpen
  /\ Then(c, what)

(* resolvePrice: of the rows in force the one that began last, the later made *)
(* of two; site before kind before channel before the product's own price.    *)
InForce(scope, t) ==
  {r \in overrides : r.scope = scope /\ r.from <= t /\ (r.to = None \/ r.to > t)}
Latest(rows) ==
  CHOOSE r \in rows : \A q \in rows : q.from < r.from \/ (q.from = r.from /\ q.by <= r.by)
Priced(scopes, t) ==
  LET at(s) == s \in scopes /\ InForce(s, t) # {} IN
  IF at("site") THEN Latest(InForce("site", t)).price
  ELSE IF at("site_kind") THEN Latest(InForce("site_kind", t)).price
  ELSE IF at("channel") THEN Latest(InForce("channel", t)).price
  ELSE IF product.active THEN product.price ELSE None

(* catalog.product.update: a field not given is written back as it was read. *)
EditRead(c) ==
  /\ \E p \in Prices, named \in BOOLEAN :
       /\ ~named => p = product.price
       /\ Begin(c, [at |-> "edit", price |-> p, named |-> named, stamp |-> product.stamp])
  /\ UNCHANGED <<product, option, overrides, history, sold, now>>

EditWins_Always(c) == TRUE
EditWins(c) == product.stamp = request[c].stamp

Edit(c) ==
  /\ request[c].at = "edit"
  /\ product' = IF EditWins(c) THEN [product EXCEPT !.price = request[c].price, !.stamp = c]
                ELSE product
  /\ Then(c, Done)
  /\ UNCHANGED <<option, overrides, history, sold, now>>

(* catalog.product.archive: one guarded statement. *)
Archive(c) ==
  /\ product.active
  /\ product' = [product EXCEPT !.active = FALSE, !.stamp = c]
  /\ Begin(c, Done)
  /\ UNCHANGED <<option, overrides, history, sold, now>>

(* catalog.price.set: the old price is resolved first, and must exist; that  *)
(* of a site is also looked for under the site's kind. *)
ReadScopes(scope) == IF scope = "site" THEN {"site", "site_kind"} ELSE {scope}

SetRead(c) ==
  /\ \E scope \in OfferedScopes \cup {"base"}, p \in Prices, from \in Times, to \in Times \cup {None} :
       LET old == Priced(ReadScopes(scope), from) IN
       /\ from >= now /\ (to # None => to > from) /\ old # None
       /\ scope = "base" => from = now /\ to = None
       /\ Begin(c, [at |-> "set", scope |-> scope, old |-> old, new |-> p, from |-> from, to |-> to])
  /\ UNCHANGED <<product, option, overrides, history, sold, now>>

(* The base price only of an active product; the history row in any case. *)
SetPrice(c) ==
  LET w == request[c] IN
  /\ w.at = "set"
  /\ IF w.scope = "base"
       THEN /\ product' = IF product.active THEN [product EXCEPT !.price = w.new, !.stamp = c]
                          ELSE product
            /\ overrides' = overrides
       ELSE /\ overrides' = overrides \cup
                 {[scope |-> w.scope, price |-> w.new, from |-> w.from, to |-> w.to, by |-> c]}
            /\ product' = product
  /\ history' = history \cup {[scope |-> w.scope, old |-> w.old, new |-> w.new, by |-> c]}
  /\ Then(c, Done)
  /\ UNCHANGED <<option, sold, now>>

(* catalog.option.upsert looks at the product first; archiving is one statement. *)
OptionRead(c) ==
  /\ product.active /\ Begin(c, [at |-> "option"])
  /\ UNCHANGED <<product, option, overrides, history, sold, now>>

PutOption(c) ==
  /\ request[c].at = "option" /\ option' = "active" /\ Then(c, Done)
  /\ UNCHANGED <<product, overrides, history, sold, now>>

ArchiveOption(c) ==
  /\ option = "active" /\ option' = "archived" /\ Begin(c, Done)
  /\ UNCHANGED <<product, overrides, history, sold, now>>

(* loadCatalogForContext: the active products, then the price of each; one    *)
(* archived in between has none and fails the whole load. *)
LoadRead(c) ==
  /\ product.active /\ Begin(c, [at |-> "resolve"])
  /\ UNCHANGED <<product, option, overrides, history, sold, now>>

Resolve(c) ==
  /\ request[c].at = "resolve"
  /\ sold' = sold \cup ({Priced(Scopes, now)} \ {None})
  /\ Then(c, Done)
  /\ UNCHANGED <<product, option, overrides, history, now>>

Tick ==
  /\ now < MaxTime /\ now' = now + 1
  /\ UNCHANGED <<product, option, overrides, history, sold, request>>

Next ==
  \/ Tick
  \/ \E c \in Requests :
       \/ EditRead(c) \/ Edit(c) \/ Archive(c) \/ SetRead(c) \/ SetPrice(c)
       \/ OptionRead(c) \/ PutOption(c) \/ ArchiveOption(c) \/ LoadRead(c) \/ Resolve(c)

Spec == Init /\ [][Next]_vars

-----------------------------------------------------------------------------
TypeOK ==
  /\ product \in Product /\ option \in {None, "active", "archived"}
  /\ overrides \subseteq Override /\ history \subseteq Change
  /\ sold \subseteq Prices /\ now \in Times
  /\ request \in [Requests -> Pending]

(* An edit of the product that names no price never brings back a price that  *)
(* another request has changed since the edit read it.                        *)
EditsKeepPrice ==
  \A c \in Requests :
    request[c].at = "edit" /\ request'[c] = Done /\ ~request[c].named
      => product'.price = product.price

=============================================================================
