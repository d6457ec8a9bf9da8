SPECIFICATION Spec
CONSTANTS
    Flows = {"f1"}
    Margin = 1
    Durable = TRUE
    Detached = FALSE
    MaxTime = 2
    Policies = {"lock_24h", "lock_6m", "burn"}
    Duration <- PolicyLength
    Reserve = 1
    MaxTx = 9
    FaultBudget = 3
INVARIANTS TypeOK SettledOnce VerifiedOnChain
PROPERTIES EvidenceKept ResumeSettles
CHECK_DEADLOCK FALSE
