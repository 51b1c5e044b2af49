SPECIFICATION Spec
CONSTANTS
  Handlers = {h1}
  Trips = {t1}
  Shippers = {s1}
  Kinds = {"advance", "book", "webhook", "refresh"}
  AutoBook = FALSE
  MaxTime = 5
  None = None
INVARIANTS
  CompletedIsCharged
CHECK_DEADLOCK FALSE
