CONSTANTS
  Peers = {1, 2}
  Calls = {1, 2}
  Caller <- CallerOfEach
  Ttl <- TtlOfEach
  Timeout <- TimeoutOfEach
  SettleTicks = 2
  RetryTicks = 1
  MaxDelay = 1
  LateNotices = TRUE
  MaxEnds = 1
  MaxChanges = 1
  LastCall = 4
SPECIFICATION Spec
CHECK_DEADLOCK FALSE
INVARIANTS TypeOK OneHolder Agreement SubscribersCurrent  NoStrayClaim RostersExact PatienceBounded
