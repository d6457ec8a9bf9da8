SPECIFICATION FairSpec
CONSTANTS
  alice = alice
  bob = bob
  Holders <- TwoHolders
  LastRound = 1
  HourEnd <- ShortHours
  EligibleAt <- HoldersLeave
  Confirmations = 1
  MaxRoundsPerRun = 2
  PushBatchSize = 1
  MaxHead = 3
  MaxFunds = 2
  FaultBudget = 2
INVARIANTS
  TypeOK
  PublishedAsPersisted
  EntitlementsOfRoot
PROPERTY StoredArePaid
