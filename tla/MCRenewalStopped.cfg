\* A stop while a renewal is under way.
SPECIFICATION Spec
SYMMETRY Interchangeable
CONSTANTS
  t1 = t1
  t2 = t2
  Page = {t1, t2}
  TTL = 6
  HeadroomCap = 3
  LeastDelay = 1
  FloorDelay = 1
  Jitter = 1
  Stale = 3
  PingEvery = 1
  RpcTimeout = 4
  RoundTime <- MCRoundTime
  SleepTime = 1
  NoTimer = NoTimer
  NoRound = NoRound
  MaxRounds = 2
  MaxTime = 10
  Faults = {}
PROPERTIES
  StaysStopped
CHECK_DEADLOCK FALSE
