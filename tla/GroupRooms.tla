----------------------------- MODULE GroupRooms -----------------------------
(***************************************************************************)
(* One room of a group order: guests put a dish each, the host turns the     *)
(* room into an order and earns a commission on the dishes of the others.    *)
(* A request is a sequence of statements, each a transaction; the process    *)
(* may die between two of them.  Every dish costs the same.                  *)
(***************************************************************************)
EXTENDS Integers, FiniteSets

CONSTANTS
  MaxRequests, \* requests in a behaviour
  MaxOpen,     \* requests under way at a time
  Guests,      \* names, the host's among them: one row per room and name
  MinPeople,   \* order.group_min_people
  None

(* Bounds: MaxRequests, MaxOpen. *)
Requests == 1..MaxRequests

VARIABLES
  room,    \* group_rooms
  items,   \* group_room_items: a function from the names; who entered it
  orders,  \* orders made of the room
  reward,  \* order_referrals of the host: the base of his commission
  request  \* what each request has read
vars == <<room, items, orders, reward, request>>

(* "waiting": the cutoff begins when the host shares the room. *)
Room == [status : {"open", "locked", "expired"}, waiting : BOOLEAN,
         late : BOOLEAN, order : Requests \cup {None}]
Item == [host : BOOLEAN]
Lines == UNION {[S -> Item] : S \in SUBSET Guests}

Idle == [at |-> "idle"]
Done == [at |-> "done"]
Refused == [at |-> "refused"]
Pending ==
  {Idle, Done, Refused} \cup
  [at : {"check", "insert"}, name : Guests, host : BOOLEAN] \cup
  [at : {"create", "link", "reward"}, lines : Lines]

Init ==
  /\ room \in {[status |-> "open", waiting |-> w, late |-> FALSE, order |-> None] : w \in BOOLEAN}
  /\ items = <<>> /\ orders = {} /\ reward = {}
  /\ request = [c \in Requests |-> Idle]

-----------------------------------------------------------------------------
Then(c, what) == request' = [request EXCEPT ![c] = what]
Begin(c, what) ==
  /\ request[c] = Idle
  /\ \A d \in 1..(c - 1) : request[d] # Idle
  /\ Cardinality({d \in Requests : request[d] \notin {Idle, Done, Refused}}) < MaxOpen
  /\ Then(c, what)

Taking == room.status = "open" /\ ~room.late

(* PATCH add-item: the host is known by his token, not by his word. *)
AddItemRead(c) ==
  /\ Taking
  /\ \E g \in Guests, h \in BOOLEAN : Begin(c, [at |-> "check", name |-> g, host |-> h])
  /\ UNCHANGED <<room, items, orders, reward>>

(* INSERT ... SELECT ... WHERE EXISTS: the room is looked at without a lock, *)
(* the row becomes visible later.                                           *)
AddItemCheck(c) ==
  /\ request[c].at = "check"
  /\ Then(c, IF Taking THEN [request[c] EXCEPT !.at = "insert"] ELSE Refused)
  /\ UNCHANGED <<room, items, orders, reward>>

(* The same name again, whoever types it, replaces the dish. *)
AddItemInsert(c) ==
  /\ request[c].at = "insert"
  /\ items' = [g \in DOMAIN items \cup {request[c].name} |->
       IF g = request[c].name THEN [host |-> request[c].host] ELSE items[g]]
  /\ Then(c, Done)
  /\ UNCHANGED <<room, orders, reward>>

(* PATCH start: the host shares the room and its time begins again. *)
Start ==
  /\ room.status = "open" /\ room.waiting
  /\ room' = [room EXCEPT !.waiting = FALSE, !.late = FALSE]
  /\ UNCHANGED <<items, orders, reward, request>>
TimeUp ==
  /\ ~room.late
  /\ room' = [room EXCEPT !.late = TRUE]
  /\ UNCHANGED <<items, orders, reward, request>>

(* sweepExpiredGroupRooms *)
Sweep ==
  /\ room.status = "open" /\ room.order = None /\ room.late
  /\ room' = [room EXCEPT !.status = "expired"]
  /\ UNCHANGED <<items, orders, reward, request>>

-----------------------------------------------------------------------------
(* PATCH finalize and finalizeGroupRoom: the room, then its dishes. *)
FinalizeRead(c) ==
  /\ Taking /\ room.order = None /\ DOMAIN items # {}
  /\ Begin(c, [at |-> "create", lines |-> items])
  /\ UNCHANGED <<room, items, orders, reward>>

(* A bug: the reference of the order is not the code of the room. *)
FreshReference_Any == TRUE

(* operation_orders_client_ref_unique_idx on group-room:<code> *)
FreshReference == orders = {}

(* order.create refuses a reference it knows, and for reasons of its own. *)
FinalizeCreate(c) ==
  /\ request[c].at = "create"
  /\ \/ /\ FreshReference
        /\ orders' = orders \cup {[id |-> c, lines |-> request[c].lines]}
        /\ Then(c, [request[c] EXCEPT !.at = "link"])
     \/ /\ Then(c, Refused)
        /\ UNCHANGED orders
  /\ UNCHANGED <<room, items, reward>>

(* UPDATE group_rooms ... WHERE order_id IS NULL, whatever the status. *)
FinalizeLink(c) ==
  /\ request[c].at = "link"
  /\ IF room.order = None
     THEN /\ room' = [room EXCEPT !.status = "locked", !.order = c]
          /\ Then(c, [request[c] EXCEPT !.at = "reward"])
     ELSE Then(c, Refused) /\ UNCHANGED room
  /\ UNCHANGED <<items, orders, reward>>

(* A bug: the host's own dish counts. *)
hostCommissionBase_All(lines) == Cardinality(DOMAIN lines)

hostCommissionBase(lines) == Cardinality({g \in DOMAIN lines : ~lines[g].host})

participantCount(lines) == Cardinality(DOMAIN lines)

(* recordHostCommission, of the dishes that were read before the order. *)
FinalizeReward(c) ==
  /\ request[c].at = "reward"
  /\ LET lines == request[c].lines IN
     reward' = IF participantCount(lines) >= MinPeople /\ hostCommissionBase(lines) > 0
               THEN reward \cup {[order |-> c, base |-> hostCommissionBase(lines)]} ELSE reward
  /\ Then(c, Done)
  /\ UNCHANGED <<room, items, orders>>

(* The process dies. *)
Crash(c) ==
  /\ request[c] \notin {Idle, Done, Refused}
  /\ Then(c, Done)
  /\ UNCHANGED <<room, items, orders, reward>>

-----------------------------------------------------------------------------
Next ==
  \/ \E c \in Requests :
       \/ AddItemRead(c) \/ AddItemCheck(c) \/ AddItemInsert(c)
       \/ FinalizeRead(c) \/ FinalizeCreate(c) \/ FinalizeLink(c) \/ FinalizeReward(c)
       \/ Crash(c)
  \/ Start \/ TimeUp \/ Sweep

Spec == Init /\ [][Next]_vars

-----------------------------------------------------------------------------
TypeOK ==
  /\ room \in Room
  /\ items \in Lines
  /\ \A o \in orders : o.id \in Requests /\ o.lines \in Lines
  /\ reward \subseteq [order : Requests, base : 0..Cardinality(Guests)]
  /\ request \in [Requests -> Pending]

(* A room becomes one order, although hosts press the button twice and      *)
(* requests die half-way, and it is the order the room is linked to.        *)
OneOrderPerRoom ==
  /\ Cardinality(orders) <= 1
  /\ room.order # None => \E o \in orders : o.id = room.order

(* The host earns on the dishes of the others in the very order the room    *)
(* was linked to, and only when enough people took part.                    *)
RewardMatchesOrder ==
  \A w \in reward : \E o \in orders :
    /\ o.id = w.order /\ room.order = w.order
    /\ Cardinality(DOMAIN o.lines) >= MinPeople
    /\ w.base = Cardinality({g \in DOMAIN o.lines : ~o.lines[g].host})

=============================================================================
