\* One datagram of a windowed get is lost.
SPECIFICATION FairSpec
CONSTANTS
  NoTid = NoTid
  Tids = {t1}
  Binaries = {"server"}
  LastBlocks = {6}
  BlockMod = 10
  MaxRetries = 3
  ClientWindows = {4}
  DefaultWindows = {1}
  AsksBlksize = FALSE
  MaxLoss = 1
  MaxDup = 0
  Reorder = FALSE
  LateTimers = FALSE
CHECK_DEADLOCK FALSE
PROPERTY StartedGetSucceeds
