\* Safety with reorgs, crashes and a Pons token beside a Scoop token.
SPECIFICATION Spec
CONSTANTS
    ScoopTokens = {"s"}
    PonsTokens = {"p"}
    Txs <- PonsTxs
    BlockTxs <- PonsBlocks
    MaxHeight = 3
    MaxReorgs = 1
    MaxDepth = 2
    MaxCrashes = 1
    Window = 2
    Range = 2
    AnchorBlocks = 2
    ConfirmMode = "latest"
    ConfirmLag = 1
INVARIANTS
    TypeOK
    FactsAnchored
    NoOrphanFacts
    CandlesMatchTrades
    BalancesMatchTransfers
    FinalizedIsCanonical
    NoEventSkippedWithoutReorg
PROPERTIES
    LedgerSpec
