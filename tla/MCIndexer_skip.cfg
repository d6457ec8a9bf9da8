\* A reorg between the log scan and the anchors, or below the first mismatching anchor.
SPECIFICATION Spec
CONSTANTS
    ScoopTokens = {"s"}
    PonsTokens = {}
    Txs <- OneTradeTxs
    BlockTxs <- OneTradeBlocks
    MaxHeight = 4
    MaxReorgs = 1
    MaxDepth = 3
    MaxCrashes = 0
    Window = 3
    Range = 4
    AnchorBlocks = 4
    ConfirmMode = "latest"
    ConfirmLag = 2
INVARIANT NoEventSkipped
