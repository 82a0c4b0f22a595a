SPECIFICATION Spec
CONSTANTS
  G = {g1, g2}
  Keys = {k1, k2}
  Values = {v1, v2}
  Entries = {e1, e2, e3, e4, e5, e6, e7, e8, e9, e10, e11}
  Calls <- MCCalls
  Nil = Nil
  Expunged = Expunged
  NoEntry = NoEntry
  NoMap = NoMap
  None = None
SYMMETRY MCSymmetry
VIEW MCView
INVARIANTS MapInvariant
PROPERTIES ImplementsAtomicMap
