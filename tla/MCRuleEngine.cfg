CONSTANTS
  Threads <- MCThreads
  PoolSize = 2
  MinOpened = 1
  Rows <- MCRows
  WorkerOf <- MCWorker
  NumRules = 2
  Verdict <- MCVerdict
  BatchLimit = 2
  MaxFaults = 1
SPECIFICATION FairSpec
INVARIANTS
  TypeOK
  ProcessedFullyAlerted
  DuplicateNeedsInterruption
  ConflictNeedsCause
PROPERTIES
  PromiseKept
  EverySoundRowProcessed
  EveryConnectionReturned
