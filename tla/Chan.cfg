SPECIFICATION Spec
CONSTANTS
  G = {g1, g2, g3}
  Chan = {1, 2, 3}
  Cap <- Capacities
  None = None
  Programs <- AllPrograms
SYMMETRY Symmetric
INVARIANTS QueueInvariants NobodySleepsForNothing LocksMove FailureWasReal
PROPERTIES ImplementsChannels
CHECK_DEADLOCK FALSE
