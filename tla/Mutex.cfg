SPECIFICATION FairSpec
CONSTANTS
  G = {g1, g2, g3}
  MaxSpin = 1
INVARIANTS IInv SleeperHasWaker
PROPERTIES LockIsGranted
