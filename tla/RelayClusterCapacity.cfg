CONSTANTS
  i1 = i1
  i2 = i2
  s3 = s3
  j1 = j1
  j2 = j2
  j3 = j3
  p1 = p1
  p2 = p2
  r1 = r1
  r2 = r2
  Instances = {i1, i2}
  Home <- TwoInstances
  Sockets = {s1, s2, s3}
  Rooms = {r1}
  Peers = {p1, p2}
  Joins = {j1, j2}
  Capacities = {0, 1}
  MaxRooms = 1
  AuthEnabled = FALSE
  NoInstance = NoInstance
  NoSocket = NoSocket
  NoJoin = NoJoin
  NoRequest = NoRequest
  Waiting = Waiting
  Gone = Gone
SPECIFICATION FairSpec
CHECK_DEADLOCK FALSE
INVARIANTS CapacityHeld
PROPERTIES ImplementsRegistry HandlersEnd
