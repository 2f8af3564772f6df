\* Every shape of request from every origin, under two deployments of the rules.
SPECIFICATION Spec
CONSTANTS
  dots = dots
  own = own
  health = health
  exempt = exempt
  home = home
  report = report
  h1 = h1
  h2 = h2
  h3 = h3
  someone = someone
  office = office
  proxy = proxy
  edge = edge
  relay = relay
  Path = {dots, own, health, exempt, home, report}
  Host = {h1, h2, h3}
  PublicHost = {h1, h2}
  Addr = {someone, office, proxy, edge, relay}
  Trusted = {proxy, edge}
  Allowed = {office}
  Text <- MCText
  Exempt <- MCExempt
  Origins <- MCOrigins
  KindOf <- MCKindOf
  Rules <- MCRules
  AllowHosted = TRUE
  All = All
  MaxPasses = 2
INVARIANTS
  AdmittedAsPriced
  UpstreamSeesTheGate
  AddressIsReal
  NeverShadowed
  ClaimsFailClosed
CHECK_DEADLOCK FALSE
