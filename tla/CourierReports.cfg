SPECIFICATION Spec
CONSTANTS
  Handlers = {h1, h2}
  Trips = {t1}
  Shippers = {s1}
  Kinds = {"advance", "book", "webhook", "refresh", "cancel"}
  AutoBook = FALSE
  MaxTime = 3
  None = None
PROPERTIES
  NoWayBack
SYMMETRY Symmetry
CHECK_DEADLOCK FALSE
