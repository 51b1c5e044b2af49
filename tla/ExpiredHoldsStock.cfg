SPECIFICATION Spec
CONSTANTS
  Orders = {o1}
  Handlers = {h1, h2}
  Transfers = {}
  References = {}
  Shippers = {s1}
  MaxAttempts = 1
  MaxQty = 2
  OnHand = 2
  MaxStamp = 6
  OfferedMethods = {"bank_transfer"}
  OfferedTypes = {"pickup"}
  Scheduling = {FALSE}
  Kinds = {"create", "sweep"}
SYMMETRY Symmetry
INVARIANTS
  CancelledReleasesStock
CHECK_DEADLOCK FALSE
