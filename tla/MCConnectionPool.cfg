CONSTANTS
  t1 = t1
  t2 = t2
  t3 = t3
  Threads <- MCThreads
  PoolSize = 4
  MinOpened = 0
SPECIFICATION PoolSpec
SYMMETRY ThreadSymmetry
INVARIANTS
  PoolTypeOK
  Conservation
  NoLostWakeup
  DeadlockNeedsShortage
PROPERTIES
  LeaseKept
