SPECIFICATION FairSpec
CONSTANTS
  Requests = {r1, r2, r3}
  Bodies = {b1, b2}
  MaxPolls = 2
  Faults = {"late", "store", "release", "crash"}
  None = None
INVARIANTS
  TypeOK
  OneEffectUnlessError
PROPERTIES
  ImplementsOnceOnly
  EveryRequestEnds
CHECK_DEADLOCK FALSE
