\* Short bodies under the policies of the acceptance tests, by themselves and in pairs.
SPECIFICATION Spec
CONSTANTS
  MaxBody = 2
  MaxSources = 2
  Pages <- MCMatrix
  Budget = 3
  MaxEarly = 0
INVARIANT
  RenewalLoads
CHECK_DEADLOCK FALSE
