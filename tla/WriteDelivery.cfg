\* An upload past the wrap of the block number, in windows that divide the range of block
\* numbers and in windows that do not; the sender times out first, and the disk may fail.
SPECIFICATION FairSpec
CONSTANTS
  Senders = {"rfc"}
  NoTid = NoTid
  Tids = {t1}
  LastBlocks = {1, 2, 8, 10, 19}
  BlockMod = 8
  SizeLimit = 0
  MaxRetries = 3
  ClientWindows = {1, 3, 4}
  DefaultWindow = 1
  DiskFails = TRUE
  MaxLoss = 1
  MaxDup = 1
  Networks = {"fifo"}
  LateTimers = FALSE
  SenderFirst = TRUE
CHECK_DEADLOCK FALSE
PROPERTIES
  UploadStored
  DoneLeadsToStored
