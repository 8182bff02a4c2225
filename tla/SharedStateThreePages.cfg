CONSTANTS
  Peers = {1, 2, 3}
  Everyone = Everyone
  First = 1
  Starts = {{1, 2, 3}}
  HistoryLimit = 1
  EventLimit = 1
  Kinds <- KindsOfEach
  Skew <- FirstAhead
  Advance = {1}
  MaxPages = 3
  MaxWork = 3
SPECIFICATION Spec
CHECK_DEADLOCK FALSE
INVARIANTS Converged
