\* A file of more blocks than there are block numbers; no datagram is lost, but a timer fires early.
SPECIFICATION Spec
CONSTANTS
  NoTid = NoTid
  Tids = {t1}
  Binaries = {"server"}
  LastBlocks = {7}
  BlockMod = 4
  MaxRetries = 2
  ClientWindows = {2}
  DefaultWindows = {1}
  AsksBlksize = FALSE
  MaxLoss = 0
  MaxDup = 0
  Reorder = FALSE
  LateTimers = TRUE
CHECK_DEADLOCK FALSE
INVARIANT Integrity
