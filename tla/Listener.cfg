SPECIFICATION Spec
CONSTANTS
  Datagrams <- SomeDatagrams
  Configs <- SomeConfigs
  MaxDatagrams = 2
  MaxErrors = 1
  POOL_SIZE = 2
  BatchSize = 2
  Threshold = 1
CHECK_DEADLOCK FALSE
INVARIANTS
  TypeOK
  ResourcesAccounted
  RequestsSettled
PROPERTIES
  EveryClientLeaves
  EveryDatagramTaken
