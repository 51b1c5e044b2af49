----------------------------- MODULE Affiliates -----------------------------
(***************************************************************************)
(* Affiliates, their codes, and the clicks that attribute an order to a      *)
(* code.  Codes are typed by the approver or by the customer.                *)
(***************************************************************************)
EXTENDS Integers, FiniteSets, Sequences

CONSTANTS
  MaxRequests, \* commands in a behaviour
  MaxOpen,     \* commands under way at a time
  Affiliates,  \* affiliate_members
  Codes,       \* codes an approver may give
  MaxClicks,   \* clicks of the one visitor modelled
  None

(* Bounds: MaxRequests, MaxOpen, MaxClicks. *)
Requests == 1..MaxRequests

VARIABLES
  members, \* affiliate_members.status
  codes,   \* affiliate_codes: a function from the codes that exist
  clicks,  \* affiliate_clicks of the visitor, in order of landed_at
  orders,  \* the orders of the visitor and the code they were credited to
  request  \* what each request has read
vars == <<members, codes, clicks, orders, request>>

MemberStatuses == {"pending", "active", "paused"}
Idle == [at |-> "idle"]
Done == [at |-> "done"]
Pending ==
  {Idle, Done} \cup
  [at : {"approve"}, member : Affiliates, code : Codes] \cup
  [at : {"pause"}, member : Affiliates] \cup
  [at : {"order"}, code : Codes] \cup [at : {"convert"}, code : Codes]

Init ==
  /\ members = [a \in Affiliates |-> "pending"]
  /\ codes = <<>> /\ clicks = <<>> /\ orders = {}
  /\ request = [c \in Requests |-> Idle]

-----------------------------------------------------------------------------
Then(c, what) == request' = [request EXCEPT ![c] = what]
Begin(c, what) ==
  /\ request[c] = Idle
  /\ \A d \in 1..(c - 1) : request[d] # Idle
  /\ Cardinality({d \in Requests : request[d] \notin {Idle, Done}}) < MaxOpen
  /\ Then(c, what)

Active(k) == k \in DOMAIN codes /\ codes[k].status = "active"

(* affiliate.approve: not of a paused member, not with somebody's code.     *)
ApproveRead(c) ==
  /\ \E a \in Affiliates, k \in Codes :
       /\ members[a] # "paused"
       /\ k \in DOMAIN codes => codes[k].owner = a
       /\ ~(members[a] = "active" /\ Active(k))
       /\ Begin(c, [at |-> "approve", member |-> a, code |-> k])
  /\ UNCHANGED <<members, codes, clicks, orders>>

(* A bug: the upsert overwrites the owner. *)
Upsert_AnyOwner(k, a) ==
  [x \in DOMAIN codes \cup {k} |-> IF x = k THEN [owner |-> a, status |-> "active"] ELSE codes[x]]

(* ON CONFLICT(code) DO UPDATE ... WHERE affiliate_id = excluded.affiliate_id *)
Upsert(k, a) ==
  [x \in DOMAIN codes \cup {k} |->
     IF x = k /\ (k \notin DOMAIN codes \/ codes[k].owner = a)
     THEN [owner |-> a, status |-> "active"] ELSE codes[x]]

(* The UPDATE of the member asks for its id only. *)
ApproveBatch(c) ==
  /\ request[c].at = "approve"
  /\ members' = [members EXCEPT ![request[c].member] = "active"]
  /\ codes' = Upsert(request[c].code, request[c].member)
  /\ Then(c, Done)
  /\ UNCHANGED <<clicks, orders>>

PauseRead(c) ==
  /\ \E a \in Affiliates : members[a] # "paused" /\ Begin(c, [at |-> "pause", member |-> a])
  /\ UNCHANGED <<members, codes, clicks, orders>>
(* A bug: the codes of the member stay active. *)
PausedCodes_None(a) == codes

PausedCodes(a) ==
  [k \in DOMAIN codes |-> IF codes[k].owner = a THEN [codes[k] EXCEPT !.status = "paused"] ELSE codes[k]]

PauseBatch(c) ==
  LET a == request[c].member IN
  /\ request[c].at = "pause"
  /\ members' = [members EXCEPT ![a] = "paused"]
  /\ codes' = PausedCodes(a)
  /\ Then(c, Done)
  /\ UNCHANGED <<clicks, orders>>

-----------------------------------------------------------------------------
(* recordAffiliateClick: silent about codes that are not active. *)
Click ==
  /\ Len(clicks) < MaxClicks
  /\ \E k \in Codes :
       Active(k) /\ clicks' = Append(clicks, [code |-> k, expired |-> FALSE, order |-> None])
  /\ UNCHANGED <<members, codes, orders, request>>

(* The attribution window passes, for the oldest clicks first. *)
Expire ==
  /\ \E i \in DOMAIN clicks :
       /\ ~clicks[i].expired /\ \A j \in 1..(i - 1) : clicks[j].expired
       /\ clicks' = [clicks EXCEPT ![i].expired = TRUE]
  /\ UNCHANGED <<members, codes, orders, request>>

(* cleanupAffiliateClicks: the expired rows, which are the oldest. *)
Cleanup ==
  /\ \E n \in DOMAIN clicks :
       /\ \A i \in DOMAIN clicks : clicks[i].expired <=> i <= n
       /\ clicks' = SubSeq(clicks, n + 1, Len(clicks))
  /\ UNCHANGED <<members, codes, orders, request>>

Latest(S) == {i \in S : \A j \in S : j <= i}

(* attributedCodeFor: the latest click that is open and not converted.      *)
Attributing == Latest({i \in DOMAIN clicks : ~clicks[i].expired /\ clicks[i].order = None})

(* An order without a typed code, or with one; affiliateForDatabase refuses *)
(* a code that is not active when the order is created.                     *)
OrderRead(c) ==
  /\ \E k \in {clicks[i].code : i \in Attributing} \cup Codes :
       Begin(c, [at |-> "order", code |-> k])
  /\ UNCHANGED <<members, codes, clicks, orders>>

OrderCreate(c) ==
  /\ request[c].at = "order"
  /\ LET k == request[c].code IN
     IF Active(k) /\ members[codes[k].owner] = "active"
     THEN /\ orders' = orders \cup {[order |-> c, code |-> k, owner |-> codes[k].owner]}
          /\ Then(c, [at |-> "convert", code |-> k])
     ELSE /\ Then(c, Done)
          /\ UNCHANGED orders
  /\ UNCHANGED <<members, codes, clicks>>

(* A bug: the click that is marked may be of another code. *)
Converted_AnyCode(k) == Latest({i \in DOMAIN clicks : clicks[i].order = None})

(* markClickConverted: the latest click of the code, expired or not. *)
Converted(k) == Latest({i \in DOMAIN clicks : clicks[i].code = k /\ clicks[i].order = None})

(* The subselect and the UPDATE are one step: two conversions that overlap may pick
   one click in the code, and the later one keeps it. *)
Convert(c) ==
  /\ request[c].at = "convert"
  /\ clicks' = [i \in DOMAIN clicks |->
       IF i \in Converted(request[c].code) THEN [clicks[i] EXCEPT !.order = c] ELSE clicks[i]]
  /\ Then(c, Done)
  /\ UNCHANGED <<members, codes, orders>>

-----------------------------------------------------------------------------
Next ==
  \/ \E c \in Requests :
       \/ ApproveRead(c) \/ ApproveBatch(c) \/ PauseRead(c) \/ PauseBatch(c)
       \/ OrderRead(c) \/ OrderCreate(c) \/ Convert(c)
  \/ Click \/ Expire \/ Cleanup

Spec == Init /\ [][Next]_vars

-----------------------------------------------------------------------------
TypeOK ==
  /\ members \in [Affiliates -> MemberStatuses]
  /\ DOMAIN codes \subseteq Codes
  /\ \A k \in DOMAIN codes : codes[k] \in [owner : Affiliates, status : {"active", "paused"}]
  /\ \A i \in DOMAIN clicks :
       clicks[i] \in [code : Codes, expired : BOOLEAN, order : Requests \cup {None}]
  /\ orders \subseteq [order : Requests, code : Codes, owner : Affiliates]
  /\ request \in [Requests -> Pending]

(* A code never passes to another affiliate, although two approvals may     *)
(* have seen it free: nobody earns on the links somebody else has shared.   *)
CodeKeepsOwner ==
  \A k \in DOMAIN codes : k \in DOMAIN codes' /\ codes'[k].owner = codes[k].owner

(* The codes of a paused affiliate are paused, however approvals, pauses    *)
(* and orders interleave, and no code is active without its owner.          *)
PausedCodesRest ==
  \A k \in DOMAIN codes : codes[k].status = "active" => members[codes[k].owner] = "active"

(* A click is used up by an order that was credited to the click's code.    *)
ClickMatchesOrder ==
  \A i \in DOMAIN clicks : clicks[i].order # None =>
    \E o \in orders : o.order = clicks[i].order /\ o.code = clicks[i].code
=============================================================================
