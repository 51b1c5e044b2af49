SPECIFICATION Spec
CONSTANTS
  Handlers = {h1, h2}
  Trips = {t1, t2}
  Shippers = {s1}
  Kinds = {"advance", "book", "webhook", "cancel"}
  AutoBook = TRUE
  MaxTime = 4
  None = None
INVARIANTS
  TypeOK
  OneTrip
  RunningIsKnown
  DeliveredCountedOnce
  ChargedForDelivery
  JobNotAheadOfTrip
SYMMETRY Symmetry
CHECK_DEADLOCK FALSE
