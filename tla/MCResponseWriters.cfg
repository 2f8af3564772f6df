\* Heads that end before, at and after the budget; policies of up to three sources.
SPECIFICATION Spec
CONSTANTS
  MaxBody = 3
  MaxSources = 3
  Pages <- MCPages
  Budget = 3
  MaxEarly = 1
INVARIANTS
  BodyIntact
  TagIsEarned
  NotSilentlyBare
  PaidSealed
  ElementRuns
  NothingLoosened
CHECK_DEADLOCK FALSE
