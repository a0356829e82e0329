CONSTANTS
  Threads <- ConflictWorkers
  PoolSize = 3
  MinOpened = 3
  Records <- ConflictRecords
  TableOf <- ConflictTable
  SelfParent <- ConflictSelfParent
  BatchLimit = 2
  MaxFaults = 0
SPECIFICATION FairSpec
INVARIANTS
  BatchStaysPending
  ConflictNeedsSelfParent
PROPERTIES
  EveryRowSettled
