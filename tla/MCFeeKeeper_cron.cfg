CONSTANTS
  k1 = k1
  k2 = k2
  failing = failing
  sound = sound
  Nobody = Nobody
  Keepers = {k1, k2}
  Markets = {failing, sound}
  MarketOrder <- Order
  Poisoned <- TokenStuck
  Unverified = {failing}
  Lookback = 1
  Period = 3
  Window = 1
  MaxTrades = 2
  FaultBudget = 1
SPECIFICATION Spec
INVARIANTS
  TypeOK
  FeesWaitOnePeriodAndTwoRuns
  OnlyOthersWasteTransactions
PROPERTIES
  FeesAreDistributed
