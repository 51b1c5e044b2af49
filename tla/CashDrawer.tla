----------------------------- MODULE CashDrawer -----------------------------
(***************************************************************************)
(* The cash of one site: work shifts, the movements of the till, the COD a  *)
(* shipper holds until it is remitted.  Sites do not share rows: every      *)
(* query names the site.  Requests are numbered as they start; one that is   *)
(* refused changes nothing and is left out.                                 *)
(*                                                                          *)
(* A batch is a step, but the EXISTS of an INSERT ... SELECT reads another  *)
(* row without locking it: it is a step of its own, before the commit.      *)
(***************************************************************************)
EXTENDS Integers, FiniteSets, FiniteSetsExt

CONSTANTS
  MaxRequests, \* commands in a behaviour
  MaxOpen,     \* commands under way at a time
  Shifts,   \* identities of shifts
  Orders,   \* cash orders of the site
  Staff,    \* users of the store; Owner may close any shift
  Owner,
  Shippers, \* users that hold COD
  Opening,  \* amounts in the till at the start
  Amounts,  \* totals of orders and amounts of vouchers
  Tolerance,\* finance.shift_variance_explanation_vnd
  None

(* Bounds: MaxRequests commands, MaxOpen at a time. *)
Requests == 1..MaxRequests

VARIABLES
  shifts,    \* work_shifts: a function from the rows' ids
  movements, \* cash_movements: a set of rows
  alerts,    \* shifts with a cash-variance alert
  request    \* what each request has read, see Pending
vars == <<shifts, movements, alerts, request>>

Users == Staff \cup {Owner}
Vouchers == {"drop", "float_in", "payout", "correction"}
MovementTypes == Vouchers \cup {"sale", "refund"}

ShiftRow == [status : {"open", "closed"}, user : Users, opening : Opening,
             expected : Int, counted : Int, closedBy : Requests \cup {None}]
MovementRow == [by : Requests, shift : Shifts \cup {None}, type : MovementTypes,
                amount : Int, order : Orders \cup {None},
                actor : Users \cup Shippers \cup {None}, remittedBy : Requests \cup {None},
                remittedShift : Shifts \cup {None}]

Idle == [at |-> "idle"]
Done == [at |-> "done"]
Pending ==
  {Idle, Done} \cup
  [at : {"open"}, user : Users, opening : Opening] \cup
  [at : {"close"}, shift : Shifts, expected : Int, counted : Int] \cup
  [at : {"insert"}, row : MovementRow] \cup
  [at : {"post"}, row : MovementRow] \cup
  [at : {"remit"}, shift : Shifts, holder : Shippers, held : SUBSET MovementRow]

(* The day begins without a shift, or with one that was left open. *)
Init ==
  /\ \/ shifts = <<>>
     \/ \E t \in Shifts, u \in Staff, cash \in Opening :
          shifts = [s \in {t} |-> [status |-> "open", user |-> u, closedBy |-> None,
                                  opening |-> cash, expected |-> 0, counted |-> 0]]
  /\ movements = {}
  /\ alerts = {}
  /\ request = [c \in Requests |-> Idle]

-----------------------------------------------------------------------------
Sum(rows) == MapThenSumSet(LAMBDA r : r.amount, rows)
OfType(rows, t) == {r \in rows : r.type = t}

OpenShifts == {s \in DOMAIN shifts : shifts[s].status = "open"}

(* actor_user_id is kept for sales and remittances, where something asks for it. *)
Row(c, s, type, amount, order, actor) ==
  [by |-> c, shift |-> s, type |-> type, amount |-> amount, order |-> order,
   actor |-> actor, remittedBy |-> None, remittedShift |-> None]

Held(holder) ==
  {r \in movements : /\ r.actor = holder /\ r.type = "sale"
                     /\ r.shift = None /\ r.remittedBy = None}

Unsold == {o \in Orders : \A r \in OfType(movements, "sale") : r.order # o}

(* What the till should hold, from the movements recorded so far. *)
Expected(s) ==
  LET In(t) == Sum(OfType({r \in movements : r.shift = s}, t)) IN
  shifts[s].opening + In("sale") - In("refund") - In("drop")
    + In("float_in") - In("payout") + In("correction")

Then(c, what) == request' = [request EXCEPT ![c] = what]

(* A request that may start now. *)
Fresh(c) ==
  /\ request[c] = Idle
  /\ \A d \in 1..(c - 1) : request[d] # Idle
  /\ Cardinality({d \in Requests : request[d] \notin {Idle, Done}}) < MaxOpen
Begin(c, what) == Fresh(c) /\ Then(c, what)

-----------------------------------------------------------------------------
(* shift.open: no shift is open; work_shifts_one_open_per_site_idx looks    *)
(* again when the row is inserted, and the batch of the loser fails.        *)
OpenRead(c) ==
  /\ OpenShifts = {}
  /\ \E u \in Users, cash \in Opening :
       Begin(c, [at |-> "open", user |-> u, opening |-> cash])
  /\ UNCHANGED <<shifts, movements, alerts>>

(* A bug: the index is gone. *)
OpenInsert_NoIndex(c) ==
  /\ request[c].at = "open"
  /\ \E s \in Shifts \ DOMAIN shifts :
       shifts' = [t \in DOMAIN shifts \cup {s} |->
         IF t # s THEN shifts[t]
         ELSE [status |-> "open", user |-> request[c].user, closedBy |-> None,
               opening |-> request[c].opening, expected |-> 0, counted |-> 0]]
  /\ Then(c, Done)
  /\ UNCHANGED <<movements, alerts>>

OpenInsert(c) ==
  /\ request[c].at = "open"
  /\ IF OpenShifts # {}
     THEN UNCHANGED shifts
     ELSE \E s \in Shifts \ DOMAIN shifts :
            shifts' = [t \in DOMAIN shifts \cup {s} |->
              IF t # s THEN shifts[t]
              ELSE [status |-> "open", user |-> request[c].user, closedBy |-> None,
                    opening |-> request[c].opening, expected |-> 0, counted |-> 0]]
  /\ Then(c, Done)
  /\ UNCHANGED <<movements, alerts>>

(* shift.close reads the shift and sums its movements; the clerk's count is *)
(* off by nothing, a little, or more than the tolerance (then with a note). *)
CloseRead(c) ==
  /\ \E s \in OpenShifts, u \in Users, off \in {0, Tolerance, -Tolerance - 1} :
       /\ u \in {shifts[s].user, Owner}
       /\ Expected(s) + off >= 0
       /\ Begin(c, [at |-> "close", shift |-> s, expected |-> Expected(s),
                    counted |-> Expected(s) + off])
  /\ UNCHANGED <<shifts, movements, alerts>>

Abs(n) == IF n < 0 THEN -n ELSE n

Closed(c) ==
  [shifts EXCEPT ![request[c].shift] =
     [@ EXCEPT !.status = "closed", !.expected = request[c].expected,
               !.counted = request[c].counted, !.closedBy = c]]

(* A bug: the UPDATE does not ask for an open shift. *)
CloseWins_Always(c) == TRUE

CloseWins(c) == shifts[request[c].shift].status = "open"

(* The alert asks for the row this very request has closed. *)
CloseBatch(c) ==
  /\ request[c].at = "close"
  /\ shifts' = IF CloseWins(c) THEN Closed(c) ELSE shifts
  /\ alerts' = IF /\ Abs(request[c].counted - request[c].expected) > Tolerance
                  /\ shifts'[request[c].shift].closedBy = c
               THEN alerts \cup {request[c].shift} ELSE alerts
  /\ Then(c, Done)
  /\ UNCHANGED movements

-----------------------------------------------------------------------------
(* cash.movement.create: a voucher of the open shift. *)
VoucherRead(c) ==
  /\ \E s \in OpenShifts, t \in Vouchers, n \in Amounts :
       \E amount \in IF t = "correction" THEN {n, -n} ELSE {n} :
         Begin(c, [at |-> "insert", row |-> Row(c, s, t, amount, None, None)])
  /\ UNCHANGED <<shifts, movements, alerts>>

(* INSERT ... SELECT ... WHERE EXISTS (... status = 'open'). *)
VoucherInsert(c) ==
  /\ request[c].at = "insert"
  /\ Then(c, IF request[c].row.shift \in OpenShifts
             THEN [at |-> "post", row |-> request[c].row] ELSE Done)
  /\ UNCHANGED <<shifts, movements, alerts>>

(* order.advance to delivered, of an order paid in cash: at the counter the *)
(* sale goes to the open shift and its opener; on delivery the shipper      *)
(* holds the money and the sale has no shift.                               *)
SaleRead(c) ==
  /\ \E o \in Unsold, n \in Amounts :
       \/ \E s \in OpenShifts :
            Begin(c, [at |-> "post", row |-> Row(c, s, "sale", n, o, shifts[s].user)])
       \/ \E h \in Shippers :
            Begin(c, [at |-> "post", row |-> Row(c, None, "sale", n, o, h)])
  /\ UNCHANGED <<shifts, movements, alerts>>

(* payment.refund of a cash attempt: part or all of what is left of it, out *)
(* of the till of the open shift.                                           *)
RefundRead(c) ==
  /\ \E s \in OpenShifts, sale \in OfType(movements, "sale"), n \in Amounts :
       /\ n <= sale.amount - Sum({r \in OfType(movements, "refund") : r.order = sale.order})
       /\ Begin(c, [at |-> "post", row |-> Row(c, s, "refund", n, sale.order, None)])
  /\ UNCHANGED <<shifts, movements, alerts>>

(* cash_movements_order_sale_unique_idx, under INSERT OR IGNORE: an order   *)
(* is sold once.  Nothing looks at the shift again.                         *)
Post(c) ==
  /\ request[c].at = "post"
  /\ LET row == request[c].row IN
     movements' = IF row.type = "sale" /\ \E r \in movements : r.type = "sale" /\ r.order = row.order
                  THEN movements ELSE movements \cup {row}
  /\ Then(c, Done)
  /\ UNCHANGED <<shifts, alerts>>

-----------------------------------------------------------------------------
(* cash.remit: the shipper hands over everything he holds, into the shift.  *)
RemitRead(c) ==
  /\ \E s \in OpenShifts, h \in Shippers :
       /\ Held(h) # {}
       /\ Begin(c, [at |-> "remit", shift |-> s, holder |-> h, held |-> Held(h)])
  /\ UNCHANGED <<shifts, movements, alerts>>

Remitted(c) ==
  {[r EXCEPT !.remittedBy = c, !.remittedShift = request[c].shift] :
     r \in Held(request[c].holder)}

FloatIn(c) ==
  Row(c, request[c].shift, "float_in", Sum(request[c].held), None, request[c].holder)

(* A bug: the money comes in although another request has taken the sales. *)
RemitBatch_Unguarded(c) ==
  /\ request[c].at = "remit"
  /\ movements' = (movements \ Held(request[c].holder)) \cup Remitted(c) \cup {FloatIn(c)}
  /\ Then(c, Done)
  /\ UNCHANGED <<shifts, alerts>>

(* The UPDATE marks what he holds now, the INSERT brings in the amount that *)
(* was read, if the UPDATE has marked anything.                             *)
RemitBatch(c) ==
  /\ request[c].at = "remit"
  /\ movements' = IF Held(request[c].holder) = {} THEN movements
                  ELSE (movements \ Held(request[c].holder)) \cup Remitted(c) \cup {FloatIn(c)}
  /\ Then(c, Done)
  /\ UNCHANGED <<shifts, alerts>>

-----------------------------------------------------------------------------
Next == \E c \in Requests :
  \/ OpenRead(c) \/ OpenInsert(c) \/ CloseRead(c) \/ CloseBatch(c)
  \/ VoucherRead(c) \/ VoucherInsert(c) \/ SaleRead(c) \/ RefundRead(c) \/ Post(c)
  \/ RemitRead(c) \/ RemitBatch(c)

Spec == Init /\ [][Next]_vars

-----------------------------------------------------------------------------
TypeOK ==
  /\ DOMAIN shifts \subseteq Shifts
  /\ \A s \in DOMAIN shifts : shifts[s] \in ShiftRow
  /\ movements \subseteq MovementRow
  /\ alerts \subseteq DOMAIN shifts
  /\ request \in [Requests -> Pending]

(* Every sale that is marked as remitted came into the shift it names with  *)
(* one float_in, and no float_in of a shipper stands without a sale: however *)
(* two remittances and new deliveries interleave.                           *)
RemittanceIsBacked ==
  /\ \A r \in movements : r.remittedBy # None =>
       \E f \in OfType(movements, "float_in") :
         f.by = r.remittedBy /\ f.shift = r.remittedShift /\ f.actor = r.actor
  /\ \A f \in OfType(movements, "float_in") : f.actor \in Shippers =>
       \E r \in movements : r.remittedBy = f.by

(* The figures of a closed shift are final: of two clerks who close it, one *)
(* decides, and only a variance he explained raises the alert.              *)
ClosedIsFinal ==
  \A s \in DOMAIN shifts : shifts[s].status = "closed" =>
    /\ shifts'[s] = shifts[s]
    /\ s \in alerts' <=> s \in alerts

(* One shift is open at a time, although shift.open looks before it inserts. *)
OneOpenShift == Cardinality(OpenShifts) <= 1

=============================================================================
