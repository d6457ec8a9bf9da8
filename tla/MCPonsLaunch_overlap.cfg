SPECIFICATION Spec
CONSTANTS
    Flows = {"f1", "f2"}
    Margin = 1
    Durable = TRUE
    Detached = TRUE
    MaxTime = 2
    Policies = {"lock_6m", "burn"}
    Duration <- SixMonths
    Reserve = 1
    MaxTx = 6
    FaultBudget = 2
INVARIANTS LaunchedOnce
CHECK_DEADLOCK FALSE
