SPECIFICATION CondSpec
CONSTANTS
  G = {g1, g2, g3, g4}
  None = None
  Half = 4
  MaxLag = 4
  MaxItems = 1
SYMMETRY Symmetry
INVARIANTS ParkedOnce NoStrandedConsumer
PROPERTIES ImplementsNotifications CallersAreServed
CHECK_DEADLOCK FALSE
