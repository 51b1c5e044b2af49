---------------------------- MODULE PersonalData -----------------------------
(***************************************************************************)
(* Where a customer's personal data is: the profile, the account, the orders  *)
(* and their delivery details, the addresses; and what erases and reads it.   *)
(* An order is read, then one batch; so is an erasure; a list is read, logged *)
(* and only then answered.                                                    *)
(***************************************************************************)
EXTENDS Integers, FiniteSets

CONSTANTS
  MaxRequests, MaxOpen, \* bounds: requests in a behaviour, under way at a time
  Phones, \* a guest's profile has the id derived from the phone
  None

(* An order is named by the request that places it. *)
Requests == 1..MaxRequests

VARIABLES
  customers, \* the rows, a function from the phones whose id exists
  accounts,  \* the accounts in use, of users
  addresses, \* customer_addresses: the customers that have one
  orders,    \* operation_orders with their order_fulfillment_details
  logged,    \* pii_access_log: the requests that have a row
  request
vars == <<customers, accounts, addresses, orders, logged, request>>

(* "named": the row has the customer's name; "phone": and the number. *)
CustomerRow == [status : {"active", "deleted"}, user : Phones \cup {None},
                named : BOOLEAN, phone : BOOLEAN]
OrderRow == [customer : Phones, named : BOOLEAN, details : BOOLEAN]

Idle == [at |-> "idle"]
Done == [at |-> "done"]
Then(c, what) == request' = [request EXCEPT ![c] = what]
Begin(c, what) ==
  /\ request[c] = Idle /\ \A d \in 1..(c - 1) : request[d] # Idle
  /\ Cardinality({d \in Requests : request[d].at \notin {"idle", "done", "answered"}}) < MaxOpen
  /\ Then(c, what)
With(f, x, y) == [z \in DOMAIN f \cup {x} |-> IF z = x THEN y ELSE f[z]]

Init ==
  /\ customers = <<>> /\ accounts = {} /\ addresses = {} /\ orders = <<>> /\ logged = {}
  /\ request = [c \in Requests |-> Idle]

-----------------------------------------------------------------------------
(* A profile and its account, both with a way back to the customer.  *)
Register(c) ==
  /\ \E p \in DOMAIN customers :
       /\ customers[p].user = None /\ customers[p].status = "active" /\ p \notin accounts
       /\ customers' = [customers EXCEPT ![p].user = p] /\ accounts' = accounts \cup {p}
  /\ Begin(c, Done) /\ UNCHANGED <<addresses, orders, logged>>
SaveAddress(c) ==
  /\ \E p \in DOMAIN customers \ addresses :
       customers[p].user \in accounts /\ addresses' = addresses \cup {p}
  /\ Begin(c, Done) /\ UNCHANGED <<customers, accounts, orders, logged>>

(* order.create: the profile of the account signed in, or the active one of    *)
(* the number given, or none yet.                                             *)
OrderRead(c) ==
  /\ \E p \in Phones, signedIn \in BOOLEAN :
       /\ signedIn => p \in accounts
       /\ Begin(c, [at |-> "order", phone |-> p, signedIn |-> signedIn,
                    known |-> signedIn \/ (p \in DOMAIN customers /\ customers[p].status = "active"
                                           /\ customers[p].phone)])
  /\ UNCHANGED <<customers, accounts, addresses, orders, logged>>

(* The row the batch leaves: a known one is updated by its id whatever its     *)
(* status has become, an unknown one inserted, ON CONFLICT(id) updated too.    *)
Profile(c) ==
  LET p == request[c].phone IN
  IF p \notin DOMAIN customers
    THEN [status |-> "active", user |-> None, named |-> TRUE, phone |-> TRUE]
    ELSE [customers[p] EXCEPT !.named = TRUE, !.phone = @ \/ ~request[c].signedIn]
OrderBatch(c) ==
  LET p == request[c].phone IN
  /\ request[c].at = "order" /\ Then(c, Done)
  /\ customers' = With(customers, p, Profile(c))
  /\ orders' = With(orders, c, [customer |-> p, named |-> TRUE, details |-> TRUE])
  /\ UNCHANGED <<accounts, addresses, logged>>

-----------------------------------------------------------------------------
(* anonymizeCustomer: the account the profile had when it was read, then one   *)
(* batch over every table, by the id of the customer.                         *)
EraseRead(c) ==
  /\ \E p \in DOMAIN customers : Begin(c, [at |-> "erase", phone |-> p, user |-> customers[p].user])
  /\ UNCHANGED <<customers, accounts, addresses, orders, logged>>

Erased_RowOnly(order) == [order EXCEPT !.named = FALSE]
Erased(order) == [order EXCEPT !.named = FALSE, !.details = FALSE]
EraseBatch(c) ==
  LET p == request[c].phone IN
  /\ request[c].at = "erase" /\ Then(c, Done)
  /\ customers' = [customers EXCEPT ![p].status = "deleted", ![p].named = FALSE, ![p].phone = FALSE]
  /\ orders' = [o \in DOMAIN orders |->
                 IF orders[o].customer = p THEN Erased(orders[o]) ELSE orders[o]]
  /\ addresses' = addresses \ {p} /\ accounts' = accounts \ {request[c].user}
  /\ UNCHANGED logged

-----------------------------------------------------------------------------
(* A list or an order that shows personal data: read, logged, answered.  The   *)
(* process may die in between, and the log may refuse the row.                *)
ListRead(c) ==
  /\ \E shown \in SUBSET DOMAIN orders : Begin(c, [at |-> "list", shown |-> shown])
  /\ UNCHANGED <<customers, accounts, addresses, orders, logged>>
LogFirst_Answer(c) == TRUE
LogFirst(c) == c \in logged
ListLog(c) ==
  /\ request[c].at = "list" /\ Then(c, [request[c] EXCEPT !.at = "log"])
  /\ logged' \in {logged, logged \cup {c}}
  /\ UNCHANGED <<customers, accounts, addresses, orders>>
ListAnswer(c) ==
  /\ request[c].at = "log"
  /\ Then(c, IF LogFirst(c) THEN [request[c] EXCEPT !.at = "answered"] ELSE Done)
  /\ UNCHANGED <<customers, accounts, addresses, orders, logged>>

Die(c) ==
  /\ request[c].at \notin {"idle", "done", "answered"} /\ Then(c, Done)
  /\ UNCHANGED <<customers, accounts, addresses, orders, logged>>

Next == \E c \in Requests :
  \/ Register(c) \/ SaveAddress(c) \/ OrderRead(c) \/ OrderBatch(c)
  \/ EraseRead(c) \/ EraseBatch(c)
  \/ ListRead(c) \/ ListLog(c) \/ ListAnswer(c) \/ Die(c)

Spec == Init /\ [][Next]_vars

-----------------------------------------------------------------------------
TypeOK ==
  /\ DOMAIN customers \subseteq Phones /\ \A p \in DOMAIN customers : customers[p] \in CustomerRow
  /\ accounts \subseteq Phones /\ addresses \subseteq Phones /\ logged \subseteq Requests
  /\ DOMAIN orders \subseteq Requests /\ \A o \in DOMAIN orders : orders[o] \in OrderRow

(* Personal data comes back to a profile that was erased only with a later     *)
(* order of the same person, which then has the same data; and what is left    *)
(* of an erased one is either all there or all gone, in an order as in its     *)
(* details.                                                                   *)
ErasedStaysErased ==
  /\ \A p \in DOMAIN customers : customers[p].status = "deleted" /\ (customers[p].named \/ customers[p].phone) =>
       \E o \in DOMAIN orders : orders[o].customer = p /\ orders[o].named
  /\ \A o \in DOMAIN orders : orders[o].named = orders[o].details

(* Whoever has received a list with personal data is in the log. *)
AnsweredIsLogged == \A c \in Requests : request[c].at = "answered" => c \in logged

=============================================================================
