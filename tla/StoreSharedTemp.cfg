\* Two TFTP writes of files with the same stem, at the same time.
SPECIFICATION Spec
CONSTANTS
  None = None
  a = a
  b = b
  w1 = w1
  w2 = w2
  u1 = u1
  Tftp = {w1, w2}
  Web = {}
  Readers = {}
  Files = {a, b}
  Dest <- TwoFiles
  Stem <- SameStems
  Existing = {}
  Chunks = 2
  OneAtATime = FALSE
  MaxDeletes = 0
  MaxCrashes = 0
CHECK_DEADLOCK FALSE
INVARIANT AtomicWrites
