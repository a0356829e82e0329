CONSTANTS
  History <- ForkAndExec
  Events <- LateEvents
  Containers <- NoDocker
  Bpf = FALSE
  InOrder = FALSE
  MaxWalk = 4
SPECIFICATION FairSpec
CHECK_DEADLOCK FALSE
PROPERTIES
  EventUsesLatestRow
