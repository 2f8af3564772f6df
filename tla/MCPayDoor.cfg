\* Two processes within the budgets of the code: every fault but a pause.
SPECIFICATION Spec
CONSTANTS
  r1 = r1
  r2 = r2
  r3 = r3
  a1 = a1
  s1 = s1
  s2 = s2
  h1 = h1
  p1 = p1
  p2 = p2
  Req = {r1, r2}
  Auth = {a1}
  Proc = {p1, p2}
  Scope = {s1, s2}
  Audience = {h1}
  Pays <- MCPays
  ProcOf <- MCProcOf
  ScopeOf <- MCScopeOf
  AudienceOf <- MCAudienceOf
  Tx = {t1}
  NoTx = NoTx
  NoGrant = NoGrant
  NoAudience = NoAudience
  PaymentLease = 4
  OpenTimeout = 1
  PathBudget = 1
  PaidTTL = 1
  MaxTime = 5
  Transfers <- Careless
  Replays = {"cached", "refused"}
  Faults = {"store", "crash", "network"}
INVARIANTS
  GrantBacked
  OnePassPerPayment
  NoLostSettlement
PROPERTIES
  NoSettleAfterGrant
CHECK_DEADLOCK FALSE
