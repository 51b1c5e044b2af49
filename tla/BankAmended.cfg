SPECIFICATION Spec
CONSTANTS
  Orders = {o1}
  Handlers = {h1, h2}
  Transfers = {t1}
  References = {f1}
  Shippers = {s1}
  MaxAttempts = 2
  MaxQty = 2
  OnHand = 2
  MaxStamp = 6
  OfferedMethods = {"bank_transfer"}
  OfferedTypes = {"pickup"}
  Scheduling = {FALSE}
  Kinds = {"create", "amend", "advance", "webhook", "sweep"}
SYMMETRY Symmetry
INVARIANTS
  NoDoubleCredit
  ActiveNotOverCounted
PROPERTIES
  ClosedAttemptsTakeNothing
CHECK_DEADLOCK FALSE
