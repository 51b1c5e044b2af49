SPECIFICATION FairSpec
CONSTANTS
  Orders = {o1}
  Handlers = {h1, h2}
  Transfers = {t1}
  References = {f1}
  Shippers = {s1}
  MaxAttempts = 1
  MaxQty = 1
  OnHand = 1
  MaxStamp = 6
  OfferedMethods = {"bank_transfer"}
  OfferedTypes = {"pickup"}
  Scheduling = {FALSE}
  Kinds = {"create", "advance", "webhook", "sweep", "refund", "stock", "close"}
INVARIANTS
  StockRowValid
PROPERTIES
  EveryRequestAnswered
  TransfersSettle
CHECK_DEADLOCK FALSE
