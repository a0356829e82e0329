CONSTANTS
  Threads <- MCThreads
  PoolSize = 2
  MinOpened = 1
  Menus <- MCMenus
SPECIFICATION FairSpec
INVARIANTS
  TypeOK
  OthersNeverRefused
  HarmNeedsCause
PROPERTIES
  HealedBySameText
  EveryRequestAnswered
