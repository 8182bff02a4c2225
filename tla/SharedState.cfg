CONSTANTS
  Peers = {1, 2}
  Everyone = Everyone
  First = 1
  Starts = {{1}, {1, 2}}
  HistoryLimit = 1
  EventLimit = 1
  Kinds <- KindsOfEach
  Skew <- FirstAhead
  Advance = {1}
  MaxPages = 2
  MaxWork = 4
SPECIFICATION FairSpec
CHECK_DEADLOCK FALSE
INVARIANTS TypeOK ShownIsProjection ReplayArmed InAppendOrder Converged
PROPERTIES OnlyStaleDropped Recovers
