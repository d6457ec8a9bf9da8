\* Sparse anchors over longer empty ranges, fixed-lag, liveness.
SPECIFICATION FairSpec
CONSTANTS
    ScoopTokens = {"s"}
    PonsTokens = {}
    Txs <- OneTradeTxs
    BlockTxs <- OneTradeBlocks
    MaxHeight = 4
    MaxReorgs = 1
    MaxDepth = 2
    MaxCrashes = 1
    Window = 2
    Range = 4
    AnchorBlocks = 3
    ConfirmMode = "fixed-lag"
    ConfirmLag = 1
PROPERTIES
    CatchesUp
