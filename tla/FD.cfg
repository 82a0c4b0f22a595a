SPECIFICATION Spec
CONSTANTS
  G = {g1, g2, g3}
  Fds = {1, 2}
  Modes = {"r"}
  Both = {{"r"}, {"r", "w"}}
  Sets <- MCSets
  MaxCalls = 4
  None = None
SYMMETRY MCSymmetry
INVARIANTS DescriptorOutlivesUse ParkedWillWake NoStaleDeadline CloseUnblocks
CHECK_DEADLOCK FALSE
