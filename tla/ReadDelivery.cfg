\* A get by a patient client over a network that keeps the order.
SPECIFICATION FairSpec
CONSTANTS
  NoTid = NoTid
  Tids = {t1}
  Binaries = {"server", "main"}
  LastBlocks = {1, 2, 3, 4, 5}
  BlockMod = 6
  MaxRetries = 3
  ClientWindows = {1, 2, 3}
  DefaultWindows = {1, 2}
  AsksBlksize = FALSE
  MaxLoss = 1
  MaxDup = 1
  Reorder = FALSE
  LateTimers = FALSE
CHECK_DEADLOCK FALSE
PROPERTIES
  FaultFreeDelivery
  LockStepGetSucceeds
