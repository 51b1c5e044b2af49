--------------------------- MODULE OrderLifecycle ---------------------------
(***************************************************************************)
(* What the order core promises to those who watch an order and know       *)
(* nothing of requests, batches or tables: an order moves along its flow   *)
(* one step at a time, a bank order starts to be made only once it has     *)
(* been funded, it can be cancelled until preparation starts, and nothing  *)
(* brings back an order that was delivered, cancelled or not deliverable.  *)
(***************************************************************************)
EXTENDS OrderLogic

CONSTANT Orders

VARIABLES
  status,   \* order_status, or "none"
  ftype,    \* how the order is handed over
  bank,     \* whether it is paid by bank transfer
  funded    \* whether a payment attempt of it has been paid in full

vars == <<status, ftype, bank, funded>>

Init ==
  /\ status = [o \in Orders |-> "none"]
  /\ ftype \in [Orders -> FulfillmentTypes]
  /\ bank \in [Orders -> BOOLEAN]
  /\ funded = [o \in Orders |-> FALSE]

Place(o) ==
  /\ status[o] = "none"
  /\ status' = [status EXCEPT ![o] = "new"]
  /\ \E f \in FulfillmentTypes : ftype' = [ftype EXCEPT ![o] = f]
  /\ \E b \in BOOLEAN : bank' = [bank EXCEPT ![o] = b]
  /\ UNCHANGED funded

Fund(o) ==
  /\ status[o] # "none"
  /\ funded' = [funded EXCEPT ![o] = TRUE]
  /\ UNCHANGED <<status, ftype, bank>>

\* A step of the flow.  Cash is funded by the step that delivers it.
Step(o, to) ==
  /\ <<status[o], to>> \in Steps(ftype[o])
  /\ bank[o] => funded[o]
  /\ status' = [status EXCEPT ![o] = to]
  /\ \/ UNCHANGED funded
     \/ to = "delivered" /\ ~ bank[o] /\ funded' = [funded EXCEPT ![o] = TRUE]
  /\ UNCHANGED <<ftype, bank>>

Fail(o) ==
  /\ status[o] \in InDelivery
  /\ bank[o] => funded[o]
  /\ status' = [status EXCEPT ![o] = "delivery_failed"]
  /\ UNCHANGED <<ftype, bank, funded>>

Cancel(o) ==
  /\ status[o] \in {"new", "accepted"}
  /\ status' = [status EXCEPT ![o] = "cancelled"]
  /\ UNCHANGED <<ftype, bank, funded>>

Next ==
  \E o \in Orders :
    \/ Place(o) \/ Fund(o) \/ Fail(o) \/ Cancel(o)
    \/ \E to \in OrderStatuses : Step(o, to)

Spec == Init /\ [][Next]_vars

-----------------------------------------------------------------------------
TypeOK ==
  /\ status \in [Orders -> OrderStatuses \cup {"none"}]
  /\ ftype \in [Orders -> FulfillmentTypes]
  /\ bank \in [Orders -> BOOLEAN]
  /\ funded \in [Orders -> BOOLEAN]

\* A bank order is past "new", other than cancelled, only if it was funded.
NoUnfundedWork ==
  \A o \in Orders :
    bank[o] /\ status[o] \notin {"none", "new", "cancelled"} => funded[o]

\* A step that leaves every order that has ended where it is.
EndsStay == \A o \in Orders : status[o] \in ClosedStatuses => status'[o] = status[o]

\* The end of an order is final.
ClosedIsFinal == [][EndsStay]_vars
=============================================================================
