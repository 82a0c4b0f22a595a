SPECIFICATION FairSpec
CONSTANTS
  G = {g1, g2, g3}
  Addr = {a1, a2}
  None = None
  MaxUnits = 2
INVARIANTS WakeupsAreExact
PROPERTIES ImplementsSemaphore UnitReachesSleeper
CHECK_DEADLOCK FALSE
