SPECIFICATION Spec
CONSTANTS
  P = {p1, p2}
  Gs = {1, 2, 3, 4, 5}
  Makers = {p1}
  Len0 = 4
  Wrap = 16
  Start = 14
  Filled <- MCFilled
  MaxReady = 2
  None = None
INVARIANTS EachOnce EmptyWasEmpty
CHECK_DEADLOCK FALSE
