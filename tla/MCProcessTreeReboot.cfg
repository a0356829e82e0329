CONSTANTS
  History <- Rebooted
  Events <- SocketEvents
  Containers <- NoDocker
  Bpf = FALSE
  InOrder = FALSE
  MaxWalk = 6
SPECIFICATION FairSpec
CHECK_DEADLOCK FALSE
INVARIANTS
  OneHostOneBoot
  TreesDescend
PROPERTIES
  EveryRowSettled
