CONSTANTS
  s1 = s1
  s2 = s2
  Hosts <- MCHosts
  Queries = {1, 2}
  HostOf <- OneEach
  Slots <- TwoSlots
  MaxFaults = 1
  MaxTimeouts = 1
  MaxRestarts = 0
  MaxDeletes = 1
SPECIFICATION Spec
SYMMETRY TwoSymmetry
INVARIANTS
  TypeOK
  WrongHostNeedsRestart
  TwiceNeedsTrouble
