-------------------------------- MODULE Inbox --------------------------------
(***************************************************************************)
(* What customers ask of people: applications and support messages, the alert *)
(* that shows each to the staff, and the account an approved affiliate gets.   *)
(* The shortage alert of a product is raised and resolved in the same table.  *)
(***************************************************************************)
EXTENDS Integers, FiniteSets

CONSTANTS
  MaxSends, MaxSales,   \* forms and messages sent, units sold
  MaxRequests, MaxOpen, \* requests of the staff in a behaviour, under way at a time
  Phones,               \* of the applicants
  None

(* Bounds: MaxSends, MaxSales, MaxRequests, MaxOpen.  A stamp is the request that *)
(* wrote it: two requests do not write in the same millisecond.                  *)
Requests == 1..MaxRequests
Sends == 1..MaxSends
Shortage == 0 \* id of the product's alert; alert-request-<id> for a row of inbound_requests
Alerts == Sends \cup {Shortage}

VARIABLES
  inbox,   \* inbound_requests, by id
  alerts,  \* operation_alerts: status and stamp
  members, \* affiliate_members of the applications: status, phone, user_id
  users,   \* phones that have an account
  events,  \* operation_event_log: who resolved which alert
  page,    \* the order page: calls by id, chatMode, what it reported as sent
  stock,   \* catalog_site_stock.on_hand and what was sold in seven days
  request  \* what each request has read
vars == <<inbox, alerts, members, users, events, page, stock, request>>

RequestTypes == {"affiliate_application", "partner_application", "support_request", "support_message"}

Idle == [at |-> "idle"]
Done == [at |-> "done"]
Pending ==
  {Idle, Done} \cup [at : {"resolve"}, alert : Alerts] \cup [at : {"refresh"}, short : BOOLEAN] \cup
  [at : {"approve", "find"}, member : Sends] \cup
  [at : {"link", "create"}, member : Sends]

Init ==
  /\ inbox = <<>> /\ alerts = <<>> /\ members = <<>> /\ users = {} /\ events = {}
  /\ page = [calls |-> <<>>, chatMode |-> "assistant", sent |-> {}]
  /\ stock = [onHand |-> 1, sold |-> 0]
  /\ request = [c \in Requests |-> Idle]

With(f, k, row) == [x \in DOMAIN f \cup {k} |-> IF x = k THEN row ELSE f[x]]
tables == <<inbox, alerts, members, users, events>>

-----------------------------------------------------------------------------
(* The page: a form may be sent again and again, nothing marks one as the     *)
(* repetition of another.                                                     *)
Call(id, type, at) == page' = [page EXCEPT !.calls = With(@, id, [type |-> type, at |-> at])]

Send(type) ==
  LET id == Cardinality(DOMAIN page.calls) + 1 IN
  /\ id \in Sends
  /\ type = "support_message" => page.chatMode = "human"
  /\ type = "support_request" => page.chatMode = "assistant"
  /\ Call(id, type, "asked")
  /\ UNCHANGED <<tables, stock, request>>

Asked(id) == id \in DOMAIN page.calls /\ page.calls[id].at = "asked"

(* POST: the row, its alert and the pending member in one transaction. *)
Post(id) ==
  /\ Asked(id)
  /\ LET type == page.calls[id].type IN
     /\ inbox' = With(inbox, id, [type |-> type, status |-> "new"])
     /\ alerts' = With(alerts, id, [status |-> "open", stamp |-> None])
     /\ IF type = "affiliate_application"
          THEN \E p \in Phones :
                 members' = With(members, id, [status |-> "pending", phone |-> p, user |-> None])
          ELSE UNCHANGED members
     /\ Call(id, type, "stored")
  /\ UNCHANGED <<users, events, stock, request>>

(* The answer says no (too many requests, a field refused), or does not arrive. *)
Fail(id) ==
  /\ id \in DOMAIN page.calls /\ page.calls[id].at \in {"asked", "stored"}
  /\ Call(id, page.calls[id].type, "failed")
  /\ UNCHANGED <<tables, stock, request>>

Confirmed_Anyway(id) == page.calls[id].at \in {"stored", "failed"}

Confirmed(id) == page.calls[id].at = "stored"

(* The page says so, and hands the chat over to a person. *)
Take(id) ==
  /\ id \in DOMAIN page.calls /\ Confirmed(id)
  /\ page' = [calls |-> [page.calls EXCEPT ![id].at = "taken"], sent |-> page.sent \cup {id},
              chatMode |-> IF page.calls[id].type = "support_request" THEN "human" ELSE page.chatMode]
  /\ UNCHANGED <<tables, stock, request>>

-----------------------------------------------------------------------------
Then(c, what) == request' = [request EXCEPT ![c] = what]
Begin(c, what) ==
  /\ request[c] = Idle
  /\ \A d \in 1..(c - 1) : request[d] # Idle
  /\ Cardinality({d \in Requests : request[d] \notin {Idle, Done}}) < MaxOpen
  /\ Then(c, what)

(* alert.resolve *)
ResolveRead(c) ==
  /\ \E a \in DOMAIN alerts : alerts[a].status # "resolved" /\ Begin(c, [at |-> "resolve", alert |-> a])
  /\ UNCHANGED <<tables, page, stock>>

ResolvedCondition_AnyStamp(c, a) == TRUE

(* EXISTS (... status = 'resolved' AND updated_at = ?), after the UPDATE. *)
ResolvedCondition(c, a) == alerts[a].status # "resolved"

ResolveBatch(c) ==
  LET a == request[c].alert won == ResolvedCondition(c, a) IN
  /\ request[c].at = "resolve"
  /\ alerts' = IF alerts[a].status # "resolved"
               THEN [alerts EXCEPT ![a] = [status |-> "resolved", stamp |-> c]] ELSE alerts
  /\ inbox' = IF won /\ a \in DOMAIN inbox THEN [inbox EXCEPT ![a].status = "resolved"] ELSE inbox
  /\ events' = IF won THEN events \cup {[alert |-> a, by |-> c]} ELSE events
  /\ Then(c, Done)
  /\ UNCHANGED <<members, users, page, stock>>

(* affiliate.approve; an active member is approved again with another code. *)
ApproveRead(c) ==
  /\ \E m \in DOMAIN members : Begin(c, [at |-> "approve", member |-> m])
  /\ UNCHANGED <<tables, page, stock>>

ApproveBatch(c) ==
  LET m == request[c].member IN
  /\ request[c].at = "approve"
  /\ members' = [members EXCEPT ![m].status = "active"]
  /\ inbox' = [inbox EXCEPT ![m].status = "approved"]
  /\ alerts' = [alerts EXCEPT ![m] = [status |-> "resolved", stamp |-> c]]
  /\ Then(c, [request[c] EXCEPT !.at = "find"])
  /\ UNCHANGED <<users, events, page, stock>>

(* The account comes after the commit. *)
FindUser(c) ==
  /\ request[c].at = "find"
  /\ Then(c, [request[c] EXCEPT !.at = IF members[request[c].member].phone \in users THEN "link" ELSE "create"])
  /\ UNCHANGED <<tables, page, stock>>

(* createUser: the index on the phone refuses a second account, and the command *)
(* ends with the member active.                                                *)
CreateUser(c) ==
  LET p == members[request[c].member].phone IN
  /\ request[c].at = "create"
  /\ users' = users \cup {p}
  /\ Then(c, IF p \in users THEN Done ELSE [request[c] EXCEPT !.at = "link"])
  /\ UNCHANGED <<inbox, alerts, members, events, page, stock>>

Link(c) ==
  LET m == request[c].member IN
  /\ request[c].at = "link"
  /\ members' = [members EXCEPT ![m].user = members[m].phone]
  /\ Then(c, Done)
  /\ UNCHANGED <<inbox, alerts, users, events, page, stock>>

(* The process dies after the commit. *)
Die(c) ==
  /\ request[c].at \in {"find", "create", "link"} /\ Then(c, Done)
  /\ UNCHANGED <<tables, page, stock>>

-----------------------------------------------------------------------------
(* replenishmentSuggestions: three days at the pace of the last seven. *)
suggestedQuantity == ((3 * stock.sold + 6) \div 7) - stock.onHand

Trade ==
  /\ stock' \in {[onHand |-> stock.onHand - 1, sold |-> stock.sold + 1],
                 [onHand |-> stock.onHand + 1, sold |-> stock.sold]}
  /\ stock'.onHand \in 0..1 /\ stock'.sold <= MaxSales
  /\ UNCHANGED <<tables, page, request>>

(* refreshSupplyChainAlerts; lots that expire and accounts over their limit  *)
(* are raised alike.  INSERT OR IGNORE: an alert that was resolved stays so.  *)
RefreshRead(c) ==
  /\ Begin(c, [at |-> "refresh", short |-> suggestedQuantity > 0])
  /\ UNCHANGED <<tables, page, stock>>

Raised == IF Shortage \in DOMAIN alerts THEN alerts
          ELSE With(alerts, Shortage, [status |-> "open", stamp |-> None])

RefreshBatch(c) ==
  /\ request[c].at = "refresh" /\ Then(c, Done)
  /\ alerts' = IF request[c].short THEN Raised ELSE alerts
  /\ UNCHANGED <<inbox, members, users, events, page, stock>>

Next ==
  \/ \E type \in RequestTypes : Send(type)
  \/ \E id \in Sends : Post(id) \/ Fail(id) \/ Take(id)
  \/ Trade
  \/ \E c \in Requests :
       \/ ResolveRead(c) \/ ResolveBatch(c) \/ ApproveRead(c) \/ ApproveBatch(c) \/ FindUser(c)
       \/ CreateUser(c) \/ Link(c) \/ Die(c) \/ RefreshRead(c) \/ RefreshBatch(c)

Spec == Init /\ [][Next]_vars

-----------------------------------------------------------------------------
\* Every row is one of the schema, and every alert of a request has its request.
TypeOK ==
  /\ DOMAIN inbox \subseteq Sends /\ DOMAIN members \subseteq DOMAIN inbox
  /\ \A i \in DOMAIN inbox : inbox[i].status \in {"new", "resolved", "approved"}
  /\ DOMAIN alerts \subseteq DOMAIN inbox \cup {Shortage}
  /\ \A a \in DOMAIN alerts : alerts[a] \in [status : {"open", "resolved"}, stamp : Requests \cup {None}]
  /\ \A m \in DOMAIN members :
       members[m] \in [status : {"pending", "active"}, phone : Phones, user : Phones \cup {None}]
  /\ users \subseteq Phones /\ request \in [Requests -> Pending]

(* A request leaves the staff's list when it is closed and not before: request *)
(* and alert are closed together, by whoever closes which of the two.          *)
ClosedTogether ==
  \A i \in DOMAIN inbox : inbox[i].status # "new" <=> alerts[i].status = "resolved"

(* Of the members of staff who resolve an alert at once one is told so and     *)
(* logged, the other is refused, whatever the kind of the alert.               *)
ResolvedByOne ==
  \A e, f \in events : e.alert = f.alert => e = f

(* What the page reported as sent the staff has, and a chat was handed over    *)
(* only if a person was asked for.                                            *)
SentIsStored ==
  /\ page.sent \subseteq DOMAIN inbox
  /\ page.chatMode = "human" => \E i \in page.sent : inbox[i].type = "support_request"

(* An approved application is not filed as a resolved request by somebody who  *)
(* had the alert still open.                                                  *)
ApprovedStays ==
  \A i \in DOMAIN inbox : inbox[i].status = "approved" => inbox'[i].status = "approved"
=============================================================================
