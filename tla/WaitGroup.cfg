SPECIFICATION WGFairSpec
CONSTANTS
  G = {g1, g2, g3}
  MaxDelta = 2
  MaxCount = 3
  Careful = TRUE
INVARIANTS WaitersAccounted
PROPERTIES WaitReturnsAtZero ZeroReleasesWaiters
CHECK_DEADLOCK FALSE
