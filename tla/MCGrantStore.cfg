\* Three presentations of one authorization race for the store.
SPECIFICATION Spec
SYMMETRY Interchangeable
CONSTANTS
  r1 = r1
  r2 = r2
  r3 = r3
  a1 = a1
  Req = {r1, r2, r3}
  Auth = {a1}
  Pays <- MCPays
  Scope = {s1}
  Audience = {h1}
  Tx = {t1}
  NoTx = NoTx
  NoGrant = NoGrant
  NoAudience = NoAudience
  PaymentLease = 2
  MaxTime = 4
  MaxExp = 2
  Faults = {"store", "crash"}
INVARIANTS
  TypeOK
  LeaseProtects
PROPERTIES
  CorruptFailsClosed
  ImplementsLedger
CHECK_DEADLOCK FALSE
