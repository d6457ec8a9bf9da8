\* Every kind of fault once, one mint, two connections.
SPECIFICATION FairSpec
CONSTANTS
    Mints = {"m"}
    Sockets = {"c1", "c2"}
    MaxTrades = 2
    ReconcileLimit = 1
    SeenLimit = 1
    MaxFaults <- EachFaultOnce
    FaultBudget = 3
INVARIANTS
    TypeOK
    CandleCountsTrades
PROPERTIES
    SubscribedAgain
    RecordedOrPassed
CHECK_DEADLOCK FALSE
