\* A windowed upload under loss, duplication, reordering, early timers and disk errors.
SPECIFICATION FairSpec
CONSTANTS
  Senders = {"rfc", "put"}
  NoTid = NoTid
  Tids = {t1, t2}
  LastBlocks = {1, 3, 4}
  BlockMod = 8
  SizeLimit = 3
  MaxRetries = 2
  ClientWindows = {2}
  DefaultWindow = 1
  DiskFails = TRUE
  MaxLoss = 1
  MaxDup = 1
  Networks = {"reordering"}
  LateTimers = TRUE
  SenderFirst = FALSE
CHECK_DEADLOCK FALSE
INVARIANTS
  TypeOK
  ReceivedInOrder
  OnlyWholeFilesStored
  DoneMeansReceived
PROPERTIES
  ImplementsDelivery
  Termination
