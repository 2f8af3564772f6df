\* Three addresses at a limiter whose map holds two; three calls at a breaker that
\* opens at three failures, in half seconds; three crawler requests, a cache of
\* two entries and two lookups at once; two readers of a page edited three times;
\* three addresses for two slots of the activity log.
SPECIFICATION MCSpec
SYMMETRY Alike
CONSTANTS
  k1 = k1
  k2 = k2
  k3 = k3
  r1 = r1
  r2 = r2
  r3 = r3
  a1 = a1
  a2 = a2
  b1 = b1
  header = header
  Key = {k1, k2, k3}
  Rate = 2
  Cost = 3
  Burst = 2
  MaxKeys = 1
  MaxTime = 8
  Call = {k1, k2, k3}
  Threshold = 3
  Window = 3
  Cooldown = 5
  MaxInFlight = 2
  MaxTicks = 8
  Req = {r1, r2, r3}
  Addr = {a1, a2}
  Block = {b1}
  From <- MCFrom
  BlockOf <- MCBlockOf
  CacheTTL = 2
  Timeout = 1
  MaxEntries = 2
  MaxLookups = 2
  MaxClock = 2
  Request = {r1, r2}
  Page = {header}
  MaxVersion = 3
  Ip = {k1, k2, k3}
  NoIp = NoIp
  Cap = 2
  Ttl = 1
  MaxInstant = 4
  MaxEvents = 6
INVARIANTS
  Paced
  SlotsAccounted
  AnswersRest
  EditsAreLive
  Exact
PROPERTIES
  NoStarvation
  OpensOnClusters
  DropsOnlyTheQuietest
CHECK_DEADLOCK FALSE
