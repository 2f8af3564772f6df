\* A ttl of six ticks, renewed two early; awake, an admission takes a tick at most.
SPECIFICATION Spec
SYMMETRY Interchangeable
CONSTANTS
  t1 = t1
  t2 = t2
  Page = {t1, t2}
  TTL = 6
  HeadroomCap = 2
  LeastDelay = 1
  FloorDelay = 1
  Jitter = 0
  Stale = 1
  PingEvery = 1
  RpcTimeout = 4
  RoundTime <- MCRoundTime
  SleepTime = 6
  NoTimer = NoTimer
  NoRound = NoRound
  MaxRounds = 2
  MaxTime = 8
  Faults = {"fail", "kill", "sleep"}
INVARIANTS
  KeptAlive
  OneAdmission
  ClosedBrowserBound
PROPERTIES
  NotAbandoned
CHECK_DEADLOCK FALSE
