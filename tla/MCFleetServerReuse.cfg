CONSTANTS
  s1 = s1
  s2 = s2
  Hosts <- MCHosts
  Queries = {1}
  HostOf <- Single
  Slots <- TwoSlots
  MaxFaults = 0
  MaxTimeouts = 0
  MaxRestarts = 1
  MaxDeletes = 1
SPECIFICATION Spec
SYMMETRY TwoSymmetry
INVARIANTS
  DataFromItsNode
