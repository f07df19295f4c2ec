SPECIFICATION Spec
CONSTANTS
  Arrivals <- SomeArrivals
  Configs <- SomeConfigs
  Hash <- SomeHash
  worker_count = 2
  worker_channel_size = 1
  sender_channel_size = 1
  max_batch_size = 2
  MaxDatagrams = 3
  MaxErrors = 1
CHECK_DEADLOCK FALSE
INVARIANTS
  TypeOK
  PacketsAccounted
  ClientOrder
  RequestsSettled
PROPERTIES
  EveryPacketHandled
