---------------------------- MODULE PortalScope -----------------------------
(***************************************************************************)
(* What a role of the portal sees and may work on.  The rule stands twice in   *)
(* the code: as SQL for the lists, and in TypeScript for what a command has    *)
(* read.  Both are translated, each from its own lines.                        *)
(***************************************************************************)
EXTENDS TLC

CONSTANTS
  OwnSites, OtherSites, \* the sites of the session's scope, the rest
  OwnMembers, OtherMembers, \* memberIds of the shipper policy, other shippers
  None \* no shipper yet; a field that was not read

Statuses == {"new", "accepted", "preparing", "ready", "assigned", "picked_up",
             "delivering", "delivered", "cancelled"}
Channels == {"website", "partner", "office", "group-order"}
OperationOrder == [orderStatus : Statuses, channel : Channels, siteId : OwnSites \cup OtherSites,
                   assignedShipperId : OwnMembers \cup OtherMembers \cup {None}]

orderFlow == Statuses \ {"cancelled"}
deliveryFlow == {"ready", "assigned", "picked_up", "delivering", "delivered"}
kitchenFlow == {"accepted", "preparing", "ready"}
counterFlow == {"new", "assigned", "picked_up"} \cup kitchenFlow

(* "all" also admits what was not read. *)
All(S) == S \cup {None}
Flow(s) == [orderStatuses |-> s, orderChannels |-> All(Channels)]

rolePolicies ==
  [r \in {"owner", "accountant", "region-manager", "finance", "control", "super-admin"} |->
     Flow(All(Statuses))] @@
  [r \in {"store-owner", "manager"} |-> Flow(orderFlow)] @@
  [r \in {"store-staff", "store"} |-> Flow(counterFlow)] @@
  ("dispatch" :> Flow(deliveryFlow)) @@
  ("shipper" :> Flow(deliveryFlow \ {"ready"})) @@
  ("kitchen" :> Flow(kitchenFlow)) @@
  ("distribution" :> [orderStatuses |-> {"new", "delivered"} \cup kitchenFlow,
                      orderChannels |-> {"partner", "office", "group-order"}]) @@
  ("founder" :> [orderStatuses |-> {}, orderChannels |-> {}])
Roles == DOMAIN rolePolicies

scopedStoreRoles_Owners == {"store", "manager", "distribution", "store-owner"}
scopedStoreRoles == {"store", "manager", "distribution", "store-owner", "store-staff"}

(* The WHERE clauses of a list: an IN over nothing is false, as is one of NULL. *)
addOrderScope(role, o) ==
  /\ o.orderStatus \in rolePolicies[role].orderStatuses
  /\ o.channel \in rolePolicies[role].orderChannels
  /\ role = "shipper" => o.assignedShipperId \in OwnMembers
  /\ role \in scopedStoreRoles => o.siteId \in OwnSites
  /\ role # "founder"

(* What a command asks of the order it has read. *)
orderIsInPortalScope(role, o) ==
  /\ o.orderStatus \in rolePolicies[role].orderStatuses
  /\ o.channel \in rolePolicies[role].orderChannels
  /\ CASE role = "shipper" -> o.assignedShipperId # None /\ o.assignedShipperId \in OwnMembers
       [] role \in {"store", "manager", "distribution", "store-owner", "store-staff"} ->
            o.siteId \in OwnSites
       [] role = "founder" -> FALSE
       [] OTHER -> TRUE

(* order.item.start and .done read the site of the order and nothing more. *)
itemIsInPortalScope(role, o) ==
  orderIsInPortalScope(role, [orderStatus |-> None, channel |-> None, siteId |-> o.siteId,
                              assignedShipperId |-> None])

-----------------------------------------------------------------------------
(***************************************************************************)
(* The same for what is not an order: sites and what stands in them, members,  *)
(* partners and alerts.  siteIds come from the account's role assignments; a   *)
(* founder has none.                                                           *)
(***************************************************************************)
Partners == {"own partner", "other partner"}
Entity ==
  [kind : {"site", "inventory"}, siteId : OwnSites \cup OtherSites] \cup
  [kind : {"member"}, id : OwnMembers \cup OtherMembers, role : {"shipper", "kitchen"},
   siteId : OwnSites \cup OtherSites \cup {None}] \cup
  [kind : {"partner"}, id : Partners] \cup
  [kind : {"alert"}, assignedRole : Roles]

siteIds(role) == IF role = "founder" THEN {} ELSE OwnSites
memberIds(role) == IF role = "shipper" THEN OwnMembers ELSE {}
partnerIds(role) == IF role \in {"distribution", "founder"} THEN {"own partner"} ELSE {}

sitesScoped == {"store-owner", "store-staff", "distribution", "store", "manager", "shipper", "kitchen"}
Visibility(scoped, none, role) ==
  IF role \in scoped THEN "scoped" ELSE IF role \in none THEN "none" ELSE "all"
locationVisibility(role) == Visibility(sitesScoped, {"founder"}, role)
inventoryVisibility(role) ==
  Visibility(sitesScoped \ {"shipper"}, {"accountant", "dispatch", "founder", "shipper", "finance"}, role)
memberVisibility(role) == Visibility(sitesScoped, {"accountant", "founder", "finance"}, role)
partnerVisibility(role) ==
  Visibility({"store-owner", "distribution", "founder"},
             {"store-staff", "store", "dispatch", "manager", "shipper", "kitchen"}, role)

allAlerts == {"owner", "accountant", "region-manager", "control", "super-admin"}
alertRoles ==
  ("store-owner" :> {"store-owner", "store-staff", "kitchen", "shipper", "manager", "store", "dispatch"}) @@
  ("store-staff" :> {"store-staff", "store"}) @@ ("dispatch" :> {"dispatch", "shipper"}) @@
  ("manager" :> {"manager", "store", "kitchen", "dispatch"}) @@ ("finance" :> {"finance", "super-admin"}) @@
  [r \in Roles |-> IF r \in allAlerts THEN Roles ELSE {r}]

(* addSiteScope, addInventoryScope, addPartnerScope: "all" adds no clause, "none" *)
(* adds 1 = 0.                                                                *)
InClause(visibility, value, values) ==
  \/ visibility = "all"
  \/ visibility = "scoped" /\ value \in values

addMemberScope(role, e) ==
  CASE memberVisibility(role) = "none" -> FALSE
    [] memberVisibility(role) = "all" -> role = "dispatch" => e.role = "shipper"
    [] memberIds(role) # {} -> e.id \in memberIds(role)
    [] OTHER -> e.siteId \in siteIds(role)

addEntityScope(role, e) ==
  CASE e.kind = "site" -> InClause(locationVisibility(role), e.siteId, siteIds(role))
    [] e.kind = "inventory" -> InClause(inventoryVisibility(role), e.siteId, siteIds(role))
    [] e.kind = "partner" -> InClause(partnerVisibility(role), e.id, partnerIds(role))
    [] e.kind = "alert" -> role \in allAlerts \/ e.assignedRole \in alertRoles[role] \cup {role}
    [] OTHER -> addMemberScope(role, e)

siteIsInPortalScope(role, e) == locationVisibility(role) = "all" \/ e.siteId \in siteIds(role)

inventoryIsInPortalScope(role, e) ==
  /\ inventoryVisibility(role) # "none"
  /\ inventoryVisibility(role) = "all" \/ e.siteId \in siteIds(role)

memberIsInPortalScope(role, e) ==
  IF memberVisibility(role) = "all" THEN role # "dispatch" \/ e.role = "shipper"
  ELSE /\ memberVisibility(role) # "none"
       /\ IF memberIds(role) # {} THEN e.id \in memberIds(role)
          ELSE e.siteId # None /\ e.siteId \in siteIds(role)

partnerIsInPortalScope(role, e) ==
  /\ partnerVisibility(role) # "none"
  /\ partnerVisibility(role) = "all" \/ e.id \in partnerIds(role)

alertIsInPortalScope(role, e) ==
  role \in allAlerts \/ e.assignedRole \in alertRoles[role] \/ e.assignedRole = role

entityIsInPortalScope(role, e) ==
  CASE e.kind = "site" -> siteIsInPortalScope(role, e)
    [] e.kind = "inventory" -> inventoryIsInPortalScope(role, e)
    [] e.kind = "partner" -> partnerIsInPortalScope(role, e)
    [] e.kind = "alert" -> alertIsInPortalScope(role, e)
    [] OTHER -> memberIsInPortalScope(role, e)

-----------------------------------------------------------------------------
(***************************************************************************)
(* What a role reads of the rows it sees: personal fields and money.  The lists *)
(* of orders and staff mask their rows themselves, the page's snapshot masks   *)
(* what it collected; the books are refused by the one and emptied by the other. *)
(***************************************************************************)
canReadCustomerPii == Roles \ {"accountant", "founder", "kitchen", "finance", "control"}
financeRead == {"owner", "store-owner", "accountant", "kitchen", "finance", "control", "super-admin"}

OrderPii == {"customerName", "customerPhone", "customerEmail", "deliveryAddress", "position", "otp", "note"}

maskOrder(role) == IF role \in canReadCustomerPii THEN OrderPii ELSE {}
listScopedStaff(role) == IF role \in canReadCustomerPii THEN {"member phone"} ELSE {}
listScopedFinanceLedger(role) == IF role \in financeRead THEN {"ledger"} ELSE {}

(* The snapshot of a role: it reads the books only if allowed ... *)
financeRecords(role) ==
  IF role \in financeRead
  THEN {"allocations", "ledger", "expenses", "internalAccounts"} \cup
       (IF locationVisibility(role) = "all" THEN {"settlements"} ELSE {})
  ELSE {}

(* ... and shows what was read, an order in short. *)
presentSnapshot_Whole(role, records) ==
  {"customerName", "deliveryAddress", "note", "member phone", "site phone"} \cup records

presentSnapshot(role, records) ==
  (IF role \in canReadCustomerPii
   THEN {"customerName", "deliveryAddress", "note", "member phone", "site phone"} ELSE {}) \cup
  (IF role \in financeRead THEN records ELSE {})

-----------------------------------------------------------------------------
(***************************************************************************)
(* The buttons of the portal page.  A canonical role wears the face of an older *)
(* role; face and status decide which move the page offers.                   *)
(***************************************************************************)
canonicalRoleFace ==
  [r \in {"owner"} |-> "super-admin"] @@ ("kitchen" :> "kitchen") @@ ("store-owner" :> "manager") @@
  ("store-staff" :> "store") @@ ("shipper" :> "shipper") @@ ("accountant" :> "finance")

roleOrderScopes ==
  [f \in {"super-admin", "manager"} |-> orderFlow] @@ ("kitchen" :> kitchenFlow) @@
  ("store" :> counterFlow) @@ ("finance" :> {"delivered", "cancelled"}) @@
  ("shipper" :> {"assigned", "picked_up", "delivering", "delivered", "delivery_failed"})

(* The status a face may move an order on to. *)
nextOrderAction(face, status) ==
  CASE face = "shipper" /\ status = "assigned" -> {"picked_up"}
    [] face = "shipper" /\ status = "picked_up" -> {"delivering"}
    [] face = "shipper" /\ status = "delivering" -> {"delivered"}
    [] face \in {"store", "kitchen", "manager", "super-admin"} /\ status = "new" -> {"accepted"}
    [] face \in {"store", "kitchen", "manager", "super-admin"} /\ status = "accepted" -> {"preparing"}
    [] face \in {"store", "kitchen", "manager", "super-admin"} /\ status = "preparing" -> {"ready"}
    [] OTHER -> {}

offered(role, status) ==
  LET face == canonicalRoleFace[role] IN
  IF status \in roleOrderScopes[face] THEN nextOrderAction(face, status) ELSE {}

=============================================================================
