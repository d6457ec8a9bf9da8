\* A jump near the head, capped windows, a reorganisation, one fault; the
\* indexer may follow up to the head.
SPECIFICATION Spec
CONSTANTS
    Trades = 2
    Lag = 0
    MaxCatchup = 2
    Replay = 1
    StaleLag = 2
    MaxHeight = 4
    MaxReorgs = 1
    MaxDepth = 2
    FaultBudget = 1
INVARIANTS
    TypeOK
    ReachedTradesShown
    TipShowsNewest
CHECK_DEADLOCK FALSE
