----------------------------- MODULE StoreChoice ----------------------------
(***************************************************************************)
(* The store that serves the customer, on the order page: the list of stores   *)
(* for a position, the store chosen from it by the page or by the customer,     *)
(* the menu of that store and the delivery quote for it.  Each is fetched by an *)
(* effect that runs again when what it reads changed, so answers overlap.  The  *)
(* cart is one that does not change, delivered, and on screen or not.           *)
(***************************************************************************)
EXTENDS Integers, FiniteSets

CONSTANTS
  Position,  \* where each site stands, in the order of their names; None: not surveyed
  Addresses, \* what can be entered: [at, names], names the score of each site in the text
  Spots,     \* positions the device may report
  MaxActs, MaxChanges, MaxFlights, \* bounds: of the customer's acts, of changes of a site, of requests at a time
  None

VARIABLES
  sites,   \* the server's: "open", "shut" for now, "gone" from the list
  changes,
  signed,  \* customerSession
  acts,    \* acts of the customer so far
  place,   \* location: its address and position, servicePointId, servicePointPinned
  saved,   \* savedLocations
  stores,  \* storePoints
  menu,    \* the site whose products are shown, in a set; None: asked for no site
  basket,  \* showCart
  quote,   \* what the shown delivery fee was quoted for
  armed, quoting, \* the timers of the store and of the quote
  flights
vars == <<sites, changes, signed, acts, place, saved, stores, menu, basket, quote, armed, quoting, flights>>
page == <<place, saved, stores, menu, basket, quote, armed, quoting, flights>>

Sites == DOMAIN Position
Nowhere == [address |-> None, at |-> None, site |-> None, pinned |-> FALSE]

Distance(at, s) == IF at < Position[s] THEN Position[s] - at ELSE at - Position[s]

(* listPublicSites: the nearest first; without positions by name. *)
Before(at, s, t) ==
  LET Far(x) == at = None \/ Position[x] = None IN
  IF Far(s) \/ Far(t) THEN IF Far(s) = Far(t) THEN s < t ELSE Far(t)
  ELSE Distance(at, s) < Distance(at, t) \/ (Distance(at, s) = Distance(at, t) /\ s < t)

\* The one list there is, in a set.
listPublicSites(at) ==
  LET listed == {s \in Sites : sites[s] # "gone"}
      row(s) == [id |-> s, open |-> sites[s] = "open"]
  IN  {[i \in DOMAIN order |-> row(order[i])] :
         order \in {l \in [1..Cardinality(listed) -> listed] :
                     \A i, j \in DOMAIN l : i < j => Before(at, l[i], l[j])}}

-----------------------------------------------------------------------------
(* The store for a customer; each rule gives the index it finds, or none. *)
First(I, cost) == {i \in I : \A j \in I : cost[i] < cost[j] \/ (cost[i] = cost[j] /\ i <= j)}

nearestStoreForCoordinates(list, at) ==
  LET known == {i \in DOMAIN list : at # None /\ Position[list[i].id] # None}
      open == {i \in known : list[i].open}
      pool == IF open # {} THEN open ELSE known
  IN  First(pool, [i \in pool |-> Distance(at, list[i].id)])

storeMatchingAddressText(list, address) ==
  LET named == {i \in DOMAIN list : address # None /\ Addresses[address].names[list[i].id] >= 2}
      score(i) == Addresses[address].names[list[i].id] + (IF list[i].open THEN 1 ELSE 0)
  IN  First(named, [i \in named |-> -score(i)])

defaultStoreForCustomer(list, at, address) ==
  LET near == nearestStoreForCoordinates(list, at)
      text == storeMatchingAddressText(list, address)
      open == {i \in DOMAIN list : list[i].open}
      any == IF open # {} THEN open ELSE DOMAIN list
      found == IF near # {} THEN near ELSE IF text # {} THEN text ELSE First(any, [i \in any |-> 0])
  IN  list[CHOOSE i \in found : TRUE].id

Ids(list) == {list[i].id : i \in DOMAIN list}

Target_Default == defaultStoreForCustomer(stores, place.at, place.address)

Target == IF place.pinned /\ place.site \in Ids(stores) THEN place.site
          ELSE defaultStoreForCustomer(stores, place.at, place.address)

-----------------------------------------------------------------------------
(* One render: which effects run again, and what they drop. *)
Flight(kind, p) == [kind |-> kind, of |-> p, live |-> TRUE, answer |-> None]
QuoteKey(p) == [p EXCEPT !.pinned = FALSE]
Quotable(p, shown) == shown /\ p.site # None /\ p.at # None

Rearmed_Store == place'.site # place.site

Rearmed == place' # place

Cancelled_Never(kinds) == {}

Cancelled(kinds) == {f \in flights : f.kind \in kinds}

Render(kept, arm, shown) ==
  LET moved == place'.at # place.at
      switched == place'.site # place.site
      requoted == QuoteKey(place') # QuoteKey(place) \/ basket' # basket
      old == Cancelled((IF moved THEN {"sites"} ELSE {}) \cup (IF switched THEN {"menu"} ELSE {}) \cup
                       (IF requoted THEN {"quote"} ELSE {}))
  IN  /\ flights' = {IF f \in old THEN [f EXCEPT !.live = FALSE] ELSE f : f \in kept} \cup
                    (IF moved THEN {Flight("sites", place')} ELSE {}) \cup
                    (IF switched THEN {Flight("menu", place')} ELSE {})
      /\ Cardinality(flights') <= MaxFlights
      /\ armed' = IF Rearmed THEN stores' # <<>> ELSE arm
      /\ quoting' = IF requoted THEN Quotable(place', basket') ELSE quoting
      /\ quote' = IF requoted /\ ~Quotable(place', basket') THEN None ELSE shown

Init ==
  /\ sites = [s \in Sites |-> "open"] /\ changes = 0 /\ signed \in BOOLEAN /\ acts = 0
  /\ place = Nowhere /\ saved \in {{}, {a \in DOMAIN Addresses : Addresses[a].at # None}} /\ stores = <<>> /\ menu = {} /\ basket = FALSE
  /\ quote = None /\ armed = FALSE /\ quoting = FALSE
  /\ flights = {Flight("sites", Nowhere), Flight("menu", Nowhere)}

-----------------------------------------------------------------------------
(* The customer. *)
Act == acts < MaxActs /\ acts' = acts + 1 /\ UNCHANGED <<sites, changes, signed>>

chooseServicePoint(s) ==
  /\ s \in Ids(stores)
  /\ place' = [place EXCEPT !.site = s, !.pinned = TRUE]
  /\ Act /\ UNCHANGED <<saved, stores, menu, basket>> /\ Render(flights, armed, quote)

At(address) == [Nowhere EXCEPT !.address = address, !.at = Addresses[address].at]

PickAddress(address) ==
  /\ address \in saved /\ place' = At(address)
  /\ Act /\ UNCHANGED <<saved, stores, menu, basket>> /\ Render(flights, armed, quote)

(* A guest's address goes into the list at once, a customer's when the server has *)
(* it; one that is removed likewise.                                             *)
Busy == \E f \in flights : f.kind \in {"save", "remove"}

addSavedLocation(address) ==
  /\ Addresses[address].at # None
  /\ ~Busy
  /\ IF signed
       THEN UNCHANGED <<place, saved>> /\ UNCHANGED <<stores, menu, basket>> /\
            Render(flights \cup {Flight("save", At(address))}, armed, quote)
       ELSE place' = At(address) /\ saved' = saved \cup {address} /\ UNCHANGED <<stores, menu, basket>> /\
            Render(flights, armed, quote)
  /\ Act

removeSavedLocation(address) ==
  /\ address \in saved /\ ~Busy
  /\ Act /\ UNCHANGED <<place, stores, menu, basket>>
  /\ IF signed THEN UNCHANGED saved /\ Render(flights \cup {Flight("remove", At(address))}, armed, quote)
     ELSE saved' = saved \ {address} /\ Render(flights, armed, quote)

(* A group's address takes the place of the text alone. *)
startSavedGroupProfile(address) ==
  /\ place' = [place EXCEPT !.address = address]
  /\ Act /\ UNCHANGED <<saved, stores, menu, basket>> /\ Render(flights, armed, quote)

(* The callback closes over the location of the render that asked. *)
locate ==
  /\ \A f \in flights : f.kind # "gps"
  /\ Act /\ UNCHANGED <<place, saved, stores, menu, basket>>
  /\ Render(flights \cup {Flight("gps", place)}, armed, quote)

Cart ==
  /\ basket' = ~basket
  /\ Act /\ UNCHANGED <<place, saved, stores, menu>> /\ Render(flights, armed, quote)

(* What localStorage held; the addresses of a customer come from the server. *)
Reload ==
  LET kept == IF ~signed /\ place.address \in saved THEN At(place.address) ELSE Nowhere
      site == IF place.pinned /\ place.site # None THEN place.site ELSE None
  IN  /\ place' = [kept EXCEPT !.site = site, !.pinned = site # None]
      /\ stores' = <<>> /\ menu' = {} /\ basket' = FALSE /\ quote' = None
      /\ armed' = FALSE /\ quoting' = FALSE
      /\ flights' = {Flight("sites", place'), Flight("menu", place')}
      /\ Act /\ UNCHANGED saved

-----------------------------------------------------------------------------
(* Timers. *)
ChooseStore ==
  /\ armed /\ place' = [place EXCEPT !.site = Target]
  /\ UNCHANGED <<sites, changes, signed, acts, saved, stores, menu, basket>>
  /\ Render(flights, FALSE, quote)

AskQuote ==
  /\ quoting /\ quoting' = FALSE
  /\ flights' = flights \cup {Flight("quote", place)} /\ Cardinality(flights') <= MaxFlights
  /\ UNCHANGED <<sites, changes, signed, acts, place, saved, stores, menu, basket, quote, armed>>

-----------------------------------------------------------------------------
(* The server and the device. *)
Manage(s, status) ==
  /\ changes < MaxChanges /\ changes' = changes + 1
  /\ status # sites[s] /\ sites' = [sites EXCEPT ![s] = status]
  /\ UNCHANGED <<signed, acts, page>>

(* The list is read while the request is served; of the other answers only that *)
(* they come, and whether they refuse, tells anything apart.                     *)
Serve(f) ==
  /\ f \in flights /\ f.kind = "sites" /\ f.answer = None
  /\ \E list \in listPublicSites(f.of.at) :
       flights' = (flights \ {f}) \cup {[f EXCEPT !.answer = list]}
  /\ UNCHANGED <<sites, changes, signed, acts, place, saved, stores, menu, basket, quote, armed, quoting>>

Back(f) == f \in flights /\ UNCHANGED <<sites, changes, signed>>

(* What was cancelled, and what failed save for menu and quote, leaves the page alone. *)
Drop(f) ==
  /\ Back(f) /\ (f.live => f.kind \in {"sites", "save", "remove", "gps"})
  /\ flights' = flights \ {f}
  /\ UNCHANGED <<acts, place, saved, stores, menu, basket, quote, armed, quoting>>

TakeList(f) ==
  /\ Back(f) /\ f.live /\ f.answer # None
  /\ stores' = f.answer /\ UNCHANGED <<acts, place, saved, menu, basket>>
  /\ Render(flights \ {f}, f.answer # <<>>, quote)

TakeMenu(f) ==
  /\ Back(f) /\ f.live /\ f.kind = "menu" /\ menu' \in {{}, {f.of.site}}
  /\ UNCHANGED <<acts, place, saved, stores, basket>> /\ Render(flights \ {f}, armed, quote)

(* A site that is not open or not surveyed gives no quote. *)
TakeQuote(f) ==
  /\ Back(f) /\ f.live /\ f.kind = "quote"
  /\ UNCHANGED <<acts, place, saved, stores, menu, basket>>
  /\ \E shown \in {None} \cup (IF Position[f.of.site] = None THEN {} ELSE {QuoteKey(f.of)}) :
       Render(flights \ {f}, armed, shown)

(* The answers the customer waits for: the address saved, the position found. *)
TakeAddress(f) ==
  /\ Back(f) /\ f.kind = "save" /\ place' = f.of /\ saved' = saved \cup {f.of.address}
  /\ acts' = acts + 1 /\ UNCHANGED <<stores, menu, basket>> /\ Render(flights \ {f}, armed, quote)

TakeRemoval(f) ==
  /\ Back(f) /\ f.kind = "remove" /\ saved' = saved \ {f.of.address}
  /\ UNCHANGED <<acts, place, stores, menu, basket>> /\ Render(flights \ {f}, armed, quote)

TakePosition(f) ==
  /\ Back(f) /\ f.kind = "gps" /\ \E spot \in Spots : place' = [f.of EXCEPT !.at = spot]
  /\ acts' = acts + 1 /\ UNCHANGED <<saved, stores, menu, basket>> /\ Render(flights \ {f}, armed, quote)

Next ==
  \/ \E s \in Sites : chooseServicePoint(s) \/ \E status \in {"open", "shut", "gone"} : Manage(s, status)
  \/ \E a \in DOMAIN Addresses : \/ PickAddress(a) \/ addSavedLocation(a) \/ removeSavedLocation(a)
                                 \/ startSavedGroupProfile(a)
  \/ locate \/ Cart \/ Reload \/ ChooseStore \/ AskQuote
  \/ \E f \in flights : Serve(f) \/ Drop(f) \/ TakeList(f) \/ TakeMenu(f) \/ TakeQuote(f)
                         \/ TakeAddress(f) \/ TakeRemoval(f) \/ TakePosition(f)

Spec == Init /\ [][Next]_vars

-----------------------------------------------------------------------------
\* Rows and page hold known sites, addresses and positions only.
TypeOK ==
  /\ sites \in [Sites -> {"open", "shut", "gone"}] /\ acts \in Nat /\ saved \subseteq DOMAIN Addresses
  /\ place.address \in DOMAIN Addresses \cup {None} /\ place.site \in Sites \cup {None}
  /\ place.pinned => place.site # None
  /\ Ids(stores) \subseteq Sites /\ armed => stores # <<>>
  /\ \A f \in flights : f.kind \in {"sites", "menu", "quote", "save", "remove", "gps"}

Awaited(kind) == \E f \in flights : f.kind = kind /\ f.live

(* Once nothing is awaited the menu is the one of the store that serves, and the *)
(* fee the one of this store, place and address: however the answers overlapped  *)
(* (the `cancelled` flags and the AbortController of the effects).               *)
ShownIsChosen ==
  /\ Awaited("menu") \/ menu \subseteq {place.site}
  /\ Awaited("quote") \/ quoting \/ quote \in {None, QuoteKey(place)}

(* Once the page has chosen for a customer with a position, no store it lists is *)
(* open and nearer: whether the list, the position or the choice came last.      *)
NearestServes ==
  ~armed /\ ~place.pinned /\ stores # <<>> =>
    \E s \in DOMAIN stores :
      /\ stores[s].id = place.site
      /\ \A t \in DOMAIN stores :
           place.at # None /\ Position[stores[t].id] # None /\ stores[t].open =>
             /\ Position[place.site] # None /\ stores[s].open
             /\ Distance(place.at, place.site) <= Distance(place.at, stores[t].id)

(* A store the customer chose stays while it is listed, whatever the page fetches: *)
(* only an act of the customer changes it, an address or a position among them.    *)
StoreIsKept ==
  place.pinned /\ place.site \in Ids(stores) /\ acts' = acts => place'.site = place.site
=============================================================================
