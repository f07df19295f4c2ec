\* TFTP writes one at a time, a web upload, a streaming read, a deletion, a crash.
SPECIFICATION Spec
CONSTANTS
  None = None
  a = a
  b = b
  w1 = w1
  w2 = w2
  u1 = u1
  Tftp = {w1, w2}
  Web = {u1}
  Readers = {r1}
  Files = {a, b}
  Dest <- TwoFiles
  Stem <- SameStems
  Existing = {a}
  Chunks = 2
  OneAtATime = TRUE
  MaxDeletes = 1
  MaxCrashes = 1
CHECK_DEADLOCK FALSE
INVARIANTS
  TypeOK
  ServedFilesWhole
  ReadsOneVersion
  UploadCleansUp
PROPERTIES
  CompletedIsStored
  ReplacesRivalsOnly
