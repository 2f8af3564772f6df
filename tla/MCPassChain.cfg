\* Two gates, the second's clock a second ahead; chains of an admission and two renewals.
SPECIFICATION Spec
CONSTANTS
  g1 = g1
  g2 = g2
  Gate = {g1, g2}
  Aud = {h1}
  Net = {n1, NoNet}
  NoAud = NoAud
  NoNet = NoNet
  AnyNet = AnyNet
  NoPass = NoPass
  NoChallenge = NoChallenge
  Second = 1
  FirstTTL = 2
  SecondTTL = 2
  FirstSession = 2
  SecondSession = 2
  Ahead <- MCAhead
  PassTTL <- MCPassTTL
  MaxSession <- MCMaxSession
  Skew = 1
  TicksPerSecond = 1
  MaxTime = 4
  MaxIssued = 3
  MaxMinted = 3
INVARIANTS
  RootedInAdmission
  UnbrokenChain
  SessionCapped
  DeadlineHonoured
CHECK_DEADLOCK FALSE
