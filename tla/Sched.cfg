SPECIFICATION Spec
CONSTANTS
  M = {m1, m2, m3}
  P = {p1, p2}
  Sysmon = sysmon
  NG = 2
  MaxNet = 1
  None = None
SYMMETRY MCSymmetry
INVARIANTS NeverThrows DeadIsDead NoStrandedWork NoIdleWithWork
CHECK_DEADLOCK FALSE
