\* A get under loss, duplication, reordering and early timers.
SPECIFICATION FairSpec
CONSTANTS
  NoTid = NoTid
  Tids = {t1, t2}
  Binaries = {"server", "main"}
  LastBlocks = {0, 1, 3, 4}
  BlockMod = 6
  MaxRetries = 2
  ClientWindows = {1, 2}
  DefaultWindows = {1}
  AsksBlksize = FALSE
  MaxLoss = 1
  MaxDup = 1
  Reorder = TRUE
  LateTimers = TRUE
CHECK_DEADLOCK FALSE
INVARIANTS
  TypeOK
  Integrity
  CompletedMeansDelivered
  ClosedMeansAllButTail
  OneTaskServed
PROPERTIES
  ImplementsDelivery
  Termination
