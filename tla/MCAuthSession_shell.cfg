CONSTANTS
  a = a
  b = b
  sol = sol
  None = None
  Wallets = {a, b}
  SolanaWallets = {sol}
  MaxEvents = 3
SPECIFICATION Spec
INVARIANTS
  TypeOK
  ShowsOnlyTheSession
  ChromeFollowsCookie
PROPERTIES
  JoinSettles
CHECK_DEADLOCK FALSE
