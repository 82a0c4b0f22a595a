SPECIFICATION PipeSpec
CONSTANTS
  G = {g1, g2, g3}
  None = None
  Lens = {0, 3}
  Sizes = {2}
  MaxWrites = 2
INVARIANTS StreamIsWhole ClosedIsFinal
PROPERTIES NoEarlyReturn CallsEnd
CHECK_DEADLOCK FALSE
