---------------------------- MODULE OrderLogic ----------------------------
(***************************************************************************)
(* The pure rules of an order's life: the step that follows each status,   *)
(* the kitchen and delivery columns that go with a status, and who may ask *)
(* for which transition (lib/order-logic.ts, lib/command-guards.ts).       *)
(***************************************************************************)
EXTENDS Naturals

Methods == {"bank_transfer", "cash"}

FulfillmentTypes == {"delivery", "pickup", "dine-in"}

CounterTypes == {"pickup", "dine-in"}

OrderStatuses ==
  {"new", "accepted", "preparing", "ready", "assigned", "picked_up",
   "delivering", "delivered", "delivery_failed", "cancelled"}

KitchenStatuses ==
  {"scheduled", "payment-pending", "queued", "preparing", "ready", "handed-over",
   "completed", "cancelled"}

DeliveryStatuses ==
  {"not-required", "unassigned", "assigned", "picked-up", "in-transit", "delivered",
   "cancelled", "failed"}

\* Statuses order.advance refuses to leave ("order_closed").
ClosedStatuses == {"delivered", "cancelled", "delivery_failed"}

InDelivery == {"assigned", "picked_up", "delivering"}

-----------------------------------------------------------------------------
(* The status flows, as the set of their consecutive pairs.                *)

CounterSteps ==
  {<<"new", "accepted">>, <<"accepted", "preparing">>, <<"preparing", "ready">>,
   <<"ready", "delivered">>}

DeliverySteps ==
  {<<"new", "accepted">>, <<"accepted", "preparing">>, <<"preparing", "ready">>,
   <<"ready", "assigned">>, <<"assigned", "picked_up">>,
   <<"picked_up", "delivering">>, <<"delivering", "delivered">>}

Steps(ftype) == IF ftype \in CounterTypes THEN CounterSteps ELSE DeliverySteps

\* nextOrderState(from, ftype) = to.  A status outside the flow, and the last
\* one, are their own successor.
Sequential(from, to, ftype) ==
  \/ <<from, to>> \in Steps(ftype)
  \/ from = to /\ ~ \E s \in OrderStatuses : <<from, s>> \in Steps(ftype)

kitchenForOrder(status, current) ==
  CASE status = "accepted"  -> "queued"
    [] status = "preparing" -> "preparing"
    [] status = "ready"     -> "ready"
    [] status \in InDelivery -> "handed-over"
    [] status = "delivered" -> "completed"
    [] status = "cancelled" -> "cancelled"
    [] OTHER                -> current

deliveryForOrder(status, current, ftype) ==
  CASE ftype \in CounterTypes         -> "not-required"
    [] status = "assigned"            -> "assigned"
    [] status = "picked_up"           -> "picked-up"
    [] status = "delivering"          -> "in-transit"
    [] status = "delivered"           -> "delivered"
    [] status = "cancelled"           -> "cancelled"
    [] status = "delivery_failed"     -> "failed"
    [] OTHER                          -> current

-----------------------------------------------------------------------------
(* Who may ask for what.                                                   *)

\* Portal roles that hold the capability "order.advance".
AdvanceRoles ==
  {"owner", "store-owner", "store-staff", "distribution", "store", "manager",
   "shipper", "kitchen", "region-manager", "super-admin"}

\* The statuses of the orders a role may see, hence act on (portal policies).
VisibleStatuses(role) ==
  CASE role = "kitchen" -> {"accepted", "preparing", "ready"}
    [] role = "shipper" -> InDelivery \cup {"delivered"}
    [] role = "distribution" -> {"new", "accepted", "preparing", "ready", "delivered"}
    [] role \in {"store", "store-staff"} ->
         {"new", "accepted", "preparing", "ready", "assigned", "picked_up"}
    [] role \in {"store-owner", "manager"} ->
         OrderStatuses \ {"delivery_failed", "cancelled"}
    [] OTHER -> OrderStatuses

CancelRoles == {"manager", "region-manager", "super-admin", "store-owner", "owner"}

StoreRoles ==
  {"store", "kitchen", "distribution", "manager", "store-staff", "store-owner"}

ShipperSteps ==
  {<<"assigned", "picked_up">>, <<"picked_up", "delivering">>,
   <<"delivering", "delivered">>}

\* Payment states in which an order may not be cancelled: money came in.
MoneyIn == {"paid", "partially_paid", "overpaid"}

MayFail(role, from) == role \in {"shipper", "store-owner"} /\ from \in InDelivery

MayCancel(role, from, pay) ==
  role \in CancelRoles /\ from \in {"new", "accepted"} /\ pay \notin MoneyIn

MayStep(role, from, to, ftype) ==
  \/ role = "shipper" /\ <<from, to>> \in ShipperSteps
  \/ /\ role \in StoreRoles
     /\ \/ /\ from \in {"new", "accepted", "preparing"}
           /\ Sequential(from, to, ftype)
        \/ /\ <<from, to>> = <<"ready", "delivered">>
           /\ ftype = "pickup" /\ role # "kitchen"
  \/ role \notin StoreRoles \cup {"shipper"} /\ Sequential(from, to, ftype)

assertOrderTransition(role, from, to, ftype, pay) ==
  CASE to = "delivery_failed" -> MayFail(role, from)
    [] to = "cancelled"       -> MayCancel(role, from, pay)
    [] OTHER                  -> MayStep(role, from, to, ftype)
=============================================================================
