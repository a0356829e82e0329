CONSTANTS
  s1 = s1
  s2 = s2
  Hosts <- MCHosts
  Slots <- TwoSlots
  Entries <- MCEntries
  MaxBatch = 2
  Troubles <- MCTroubles
SPECIFICATION FairSpec
CHECK_DEADLOCK FALSE
INVARIANTS
  TypeOK
  RowsAreTheSenders
  LostNeedsCause
  TwiceNeedsLostAnswer
  FirstRowsInOrder
PROPERTIES
  EveryEntryTaken
