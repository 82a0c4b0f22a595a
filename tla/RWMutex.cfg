SPECIFICATION RWFairSpec
CONSTANTS
  G = {g1, g2, g3, g4, g5}
  None = None
  MaxReaders = 6
INVARIANTS RWInv
PROPERTIES PendingWriterGetsIn
