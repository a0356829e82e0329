CONSTANTS
  History <- Lineage
  Events <- LateEvents
  Containers <- Docker
  Bpf = TRUE
  InOrder = TRUE
  MaxWalk = 7
SPECIFICATION Spec
CHECK_DEADLOCK FALSE
INVARIANTS
  TypeOK
  CompleteInOrder
  RevisitNeedsWrap
