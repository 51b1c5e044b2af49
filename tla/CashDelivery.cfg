SPECIFICATION Spec
CONSTANTS
  Orders = {o1}
  Handlers = {h1, h2}
  Transfers = {}
  References = {f1}
  Shippers = {s1}
  MaxAttempts = 1
  MaxQty = 2
  OnHand = 2
  MaxStamp = 6
  OfferedMethods = {"cash"}
  OfferedTypes = {"delivery"}
  Scheduling = {FALSE}
  Kinds = {"create", "amend", "advance", "assign", "refund", "sweep", "close"}
SYMMETRY Symmetry
INVARIANTS
  CashSaleIsTotal
  CarrierIsBusy
PROPERTIES
  ImplementsLifecycle
CHECK_DEADLOCK FALSE
