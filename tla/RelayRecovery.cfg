CONSTANTS
  i1 = i1
  i2 = i2
  p1 = p1
  p2 = p2
  Instances = {i1, i2}
  Peers = {p1, p2}
  NoInstance = NoInstance
  MaxPeers = 2
  MaxFaults = 2
  MaxJoins = 2
SYMMETRY Symmetric
SPECIFICATION Spec
CHECK_DEADLOCK FALSE
INVARIANTS TypeOK Restored NoGhosts NoticesKept OthersKept Recovering
