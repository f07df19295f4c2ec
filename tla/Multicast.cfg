SPECIFICATION Spec
CONSTANTS
  Clients = {c1, c2}
  FileBlocks = {0, 2, 4}
  BlockMod = 3
  max_clients = 2
  max_retries = 3
  MaxJoins = 3
  MaxTransfers = 2
  MaxFailures = 1
CHECK_DEADLOCK FALSE
INVARIANTS
  TypeOK
  MasterIsMember
  JoinersServed
PROPERTIES
  TransfersEnd
