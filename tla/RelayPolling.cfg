CONSTANTS
  a1 = a1
  a2 = a2
  b1 = b1
  p1 = p1
  p2 = p2
  Adapters = {a1, a2, b1}
  Peers = {p1, p2}
  Owner <- OwnerOfEach
  Frames = {f1}
  PollTimeout = 1
  IdleTimeout = 4
  SweepPeriod = 1
  Latency = 1
  MaxFaults = 1
  NoAdapter = NoAdapter
SPECIFICATION Spec
SYMMETRY Comers
CHECK_DEADLOCK FALSE
INVARIANTS TypeOK HeardInOrder PollersKept NoGhostPeers LockoutBounded
