CONSTANTS
  Threads <- FaultWorkers
  PoolSize = 4
  MinOpened = 4
  Records <- FaultRecords
  TableOf <- FaultTable
  SelfParent <- FaultSelfParent
  BatchLimit = 2
  MaxFaults = 1
SPECIFICATION Spec
INVARIANTS
  GarbageNeedsFault
PROPERTIES
  PoolSpec
