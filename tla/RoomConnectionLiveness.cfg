CONSTANTS
  a1 = a1
  a2 = a2
  a3 = a3
  d1 = d1
  d2 = d2
  Adapters = {a1, a2}
  NoAdapter = NoAdapter
  Calls = {d1}
  MaxAttempts = 3
SPECIFICATION FairSpec
PROPERTIES AttemptsEnd DisconnectEnds
