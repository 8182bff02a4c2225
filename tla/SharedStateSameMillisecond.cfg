CONSTANTS
  Peers = {1, 2}
  Everyone = Everyone
  First = 1
  Starts = {{1, 2}}
  HistoryLimit = 1
  EventLimit = 1
  Kinds <- KindsOfEach
  Skew <- SameClock
  Advance = {0, 1}
  MaxPages = 2
  MaxWork = 4
SPECIFICATION Spec
CHECK_DEADLOCK FALSE
PROPERTIES OnlyStaleDropped
