\* A host may be paused, or a clock stepped, past every budget; nobody is left waiting,
\* the client without a Host included.
SPECIFICATION FairSpec
CONSTANTS
  r1 = r1
  r2 = r2
  r3 = r3
  a1 = a1
  s1 = s1
  s2 = s2
  h1 = h1
  p1 = p1
  p2 = p2
  Req = {r1, r2}
  Auth = {a1}
  Proc = {p1, p2}
  Scope = {s1, s2}
  Audience = {h1}
  Pays <- MCPays
  ProcOf <- MCProcOf
  ScopeOf <- MCScopeOf
  AudienceOf <- MCNameless
  Tx = {t1}
  NoTx = NoTx
  NoGrant = NoGrant
  NoAudience = NoAudience
  PaymentLease = 1
  OpenTimeout = 0
  PathBudget = 0
  PaidTTL = 1
  MaxTime = 3
  Transfers <- Honest
  Replays = {"cached"}
  Faults = {"network", "pause"}
PROPERTIES
  EveryoneDecided
CHECK_DEADLOCK FALSE
