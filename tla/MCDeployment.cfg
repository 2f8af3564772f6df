\* Three starts, a connection at a time at either server, three files, two payments.
SPECIFICATION DeploymentSpec
CONSTANTS
  None = None
  Off = None
  base = base
  radius = radius
  other = other
  usdc = usdc
  sbc = sbc
  wallet = wallet
  till = till
  nobody = nobody
  alice = alice
  acme = acme
  bank = bank
  Loopback = {bank}
  Evm = {wallet, till}
  Reserved = {"Host"}
  FamilyOf <- MCFamilyOf
  MaxNonce = 3
  MaxOpen = 1
  MaxStarts = 3
  Files <- MCFiles
  Env <- MCEnv
  Paths <- MCPaths
  Payloads <- MCPayloads
  MaxNamed = 2
INVARIANTS
  AskedIsOffered
  CredentialsStayHome
  OneSpendOneName
PROPERTIES
  StopsWhenAsked
CHECK_DEADLOCK FALSE
