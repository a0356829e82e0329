CONSTANTS
  s1 = s1
  s2 = s2
  Hosts <- OneHost
  Queries = {1}
  HostOf <- Single
  Slots <- TwoSlots
  MaxFaults = 1
  MaxTimeouts = 1
  MaxRestarts = 1
  MaxDeletes = 1
SPECIFICATION FairSpec
INVARIANTS
  SentIsInAnAnswer
  LostResultNeedsFault
PROPERTIES
  QueriesAreSent
