SPECIFICATION Spec
CONSTANTS
  Orders = {o1}
  Handlers = {h1, h2}
  Transfers = {t1, t2}
  References = {f1}
  Shippers = {s1}
  MaxAttempts = 1
  MaxQty = 2
  OnHand = 2
  MaxStamp = 6
  OfferedMethods = {"bank_transfer"}
  OfferedTypes = {"pickup"}
  Scheduling = {FALSE}
  Kinds = {"create", "advance", "webhook", "sweep", "refund", "close", "abort"}
SYMMETRY Symmetry
INVARIANTS
  TypeOK
  KitchenGate
  PaidMeansFunded
  ActiveCounted
  EffectsFollowOrder
  CancelledByRequestReleasesStock
CHECK_DEADLOCK FALSE
