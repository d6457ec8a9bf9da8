------------------------------- MODULE Indexer -------------------------------
(***************************************************************************)
(* The canonical Robinhood-chain indexer (apps/indexer/src/live): a single *)
(* process that follows a chain which may reorganise, and keeps in         *)
(* Postgres a checkpoint, the hashes of the blocks it looked at            *)
(* (processed_blocks), one row per on-chain fact, and projections folded   *)
(* from the facts.  Each database transaction is one step; every RPC read  *)
(* whose answer is used by a LATER step is a step of its own, so the chain *)
(* may move between the read and the use.                                  *)
(***************************************************************************)
EXTENDS Integers, FiniteSets

CONSTANTS
    ScoopTokens,     \* tokens launched by ScoopFactory
    PonsTokens,      \* tokens launched by the Pons V2 factory
    Txs,             \* the transactions that concern the indexer
    BlockTxs,        \* the sets of transactions a block may carry
    MaxHeight,       \* bound: height of the chain
    MaxReorgs,       \* bound: reorganisations of the chain
    MaxDepth,        \* how deep below the tip a reorganisation reaches
    MaxCrashes,      \* bound: crashes of the indexer process
    Window,          \* SCOOP_REORG_WINDOW_BLOCKS
    Range,           \* SCOOP_FAST_CATCHUP_RANGE
    AnchorBlocks,    \* SCOOP_FAST_CATCHUP_ANCHOR_BLOCKS
    ConfirmMode,     \* SCOOP_CONFIRM_MODE
    ConfirmLag       \* SCOOP_CONFIRM_LAG_BLOCKS

Tokens == ScoopTokens \union PonsTokens
Heights == 1..MaxHeight
LaunchKinds == {"launch", "launchBuy"}
TxKinds == LaunchKinds \union {"trade", "transfer"}
ConfirmModes == {"safe", "latest", "finalized", "fixed-lag"}

ASSUME TokensAssumption == ScoopTokens \intersect PonsTokens = {}
ASSUME TxsAssumption ==
    /\ \A x \in Txs : x.kind \in TxKinds /\ x.tok \in Tokens
    /\ \A x, y \in Txs :      \* a token is a contract, deployed once
         x.kind \in LaunchKinds /\ y.kind \in LaunchKinds /\ x.tok = y.tok => x = y
    /\ BlockTxs \subseteq SUBSET Txs
    /\ {} \in BlockTxs
ASSUME BoundsAssumption ==
    /\ MaxHeight \in Nat /\ MaxReorgs \in Nat /\ MaxDepth \in Nat
    /\ MaxCrashes \in Nat
ASSUME ConfigAssumption ==
    /\ Window \in Nat \ {0} /\ Range \in Nat \ {0} /\ AnchorBlocks \in Nat \ {0}
    /\ ConfirmMode \in ConfirmModes /\ ConfirmLag \in Nat
    /\ Window >= MaxDepth /\ 2 * ConfirmLag >= MaxDepth

VARIABLES
    \* The chain as every RPC call sees it.
    tip,             \* height of the latest block
    hashAt,          \* height -> block hash: the number of reorgs before it was mined
    txsAt,           \* height -> the block's transactions
    forks,           \* reorganisations so far
    final,           \* height no reorganisation reaches any more
    \* Postgres.
    checkpoint,      \* indexer_checkpoints.last_block_number, 0 when there is no row
    processedBlocks, \* height -> processed_blocks.block_hash or NoHash
    facts,           \* rows of trades and transfers with their raw event's status
    launchBlock,     \* token -> launches.launch_block, 0 when there is no row
    candle,          \* tx -> how many times its trade is merged into candles
    balance,         \* tx -> how many times its transfer is folded into holder_balances
    \* Memory of the process.
    pc, watchlist, heads, cursor, batchEnd, pending, header,
    \* History and bound.
    checkedForks,    \* value of forks at the last completed reorg check
    crashes

chainVars == <<tip, hashAt, txsAt, forks, final>>
factVars == <<facts, launchBlock, candle, balance>>
dbVars == <<checkpoint, processedBlocks, factVars>>
memVars == <<pc, watchlist, heads, cursor, batchEnd, pending, header>>
histVars == <<checkedForks, crashes>>
vars == <<chainVars, dbVars, memVars, histVars>>

NoHash == -1
Hashes == 0..MaxReorgs
Statuses == {"pending", "confirmed", "finalized"}
Tables == {"trades", "transfers"}
Rows == [table : Tables, tx : Txs, block : Heights, hash : Hashes, status : Statuses]
PCs == {"boot", "heads", "reorg", "decide", "walk", "block", "rescan", "promote"}

NoHeads == [latest |-> 0, safe |-> 0, finalized |-> 0]

LoadWatchlist == {t \in Tokens : launchBlock[t] # 0}

-----------------------------------------------------------------------------
(* Confirmation heads and the height the indexer may index up to. *)

TargetHead(h) ==
    CASE ConfirmMode = "safe" -> h.safe
      [] ConfirmMode = "finalized" -> h.finalized
      [] ConfirmMode = "latest" -> h.latest
      [] ConfirmMode = "fixed-lag" ->
            IF h.latest > ConfirmLag THEN h.latest - ConfirmLag ELSE 0

ConfirmationStatus(b, h) ==
    IF b <= h.finalized THEN "finalized"
    ELSE IF b <= h.safe THEN "confirmed" ELSE "pending"

Rank(status) ==
    CASE status = "pending" -> 0 [] status = "confirmed" -> 1 [] OTHER -> 2

(* Slip: promote with the finalized head of NOW instead of the loop's sample. *)
PromotedLate(rows, h) ==
    {[table |-> f.table, tx |-> f.tx, block |-> f.block, hash |-> f.hash,
      status |-> IF f.block <= final THEN "finalized" ELSE f.status] : f \in rows}

(* The status a row has after a promotion: never a lower one. *)
Raised(status, b, h) ==
    IF Rank(ConfirmationStatus(b, h)) > Rank(status)
    THEN ConfirmationStatus(b, h) ELSE status

(* promoteConfirmations: UPDATE ... WHERE block_number <= head. *)
Promoted(rows, h) ==
    {[table |-> f.table, tx |-> f.tx, block |-> f.block, hash |-> f.hash,
      status |-> Raised(f.status, f.block, h)] : f \in rows}

-----------------------------------------------------------------------------
(* What eth_getLogs and the row builders make of a block. *)

IsLaunch(x) == x.kind \in LaunchKinds
HasTrade(x) == x.kind \in {"launchBuy", "trade"}

(* buildLogAddressFilters: ScoopFactory and the watched token addresses; not *)
(* PoolManager, not the Pons factory, not the curves.  Every transaction of  *)
(* a token also emits a Transfer of that token.                              *)
FastVisible(x, watched) ==
    (IsLaunch(x) /\ x.tok \in ScoopTokens) \/ x.tok \in watched

InterestingBlocks(from, to) ==
    {b \in from..to : \E x \in txsAt[b] : FastVisible(x, watchlist)}

LaunchedIn(txs) == {x.tok : x \in {y \in txs : IsLaunch(y)}}

(* processBlock asks for logs with the watchlist as it was BEFORE the block's *)
(* launches; a Swap comes from PoolManager, which is always in the filter, a  *)
(* curve trade and a Transfer only from an address that is watched already.   *)
TradesIn(txs) ==
    {x \in txs : /\ HasTrade(x)
                 /\ \/ IsLaunch(x)
                    \/ x.tok \in watchlist
                    \/ x.tok \in ScoopTokens \intersect LaunchedIn(txs)}

TransfersIn(txs) ==
    {x \in txs : /\ x.tok \in ScoopTokens
                 /\ IsLaunch(x) \/ x.tok \in watchlist}

NewRows(table, xs, b) ==
    {[table |-> table, tx |-> x, block |-> b, hash |-> header,
      status |-> ConfirmationStatus(b, heads)] : x \in xs}

(* INSERT ... ON CONFLICT (chain_id, tx_hash, log_index) DO UPDATE. *)
Upsert(old, new) ==
    {f \in old : \A g \in new : f.table # g.table \/ f.tx # g.tx} \union new

(* mergeTradeIntoLeafAndPersist adds to the bucket, except that a launch     *)
(* writes its candle from nothing.                                           *)
MergedCandle(xs) ==
    [x \in Txs |-> IF x \notin xs \/ x.tok \in PonsTokens THEN candle[x]
                   ELSE IF IsLaunch(x) THEN 1 ELSE candle[x] + 1]

(* applyHolderTransfer adds a delta; normalizeLaunch writes the balances of  *)
(* the launch transaction over what was there.                               *)
FoldedBalance(xs) ==
    [x \in Txs |->
        LET kept == IF \E y \in xs : IsLaunch(y) /\ y.tok = x.tok
                    THEN 0 ELSE balance[x]
        IN  IF x \in xs THEN kept + 1 ELSE kept]

(* planEmptyRangeAnchors. *)
EmptyRangeAnchors(from, to) ==
    {b \in from..to : b = to \/ (b - from) % AnchorBlocks = 0}
-----------------------------------------------------------------------------
(* The chain.  A transaction is mined at most once and never before its   *)
(* token's launch.                                                         *)

MinedUpTo(txs, h) == UNION {txs[b] : b \in 1..h}

ValidChain(txs) ==
    \A b \in Heights :
        /\ txs[b] \intersect MinedUpTo(txs, b - 1) = {}
        /\ \A x \in txs[b] : IsLaunch(x) \/ x.tok \in LaunchedIn(MinedUpTo(txs, b))

Mine ==
    /\ tip < MaxHeight
    /\ \E txs \in BlockTxs : txsAt' = [txsAt EXCEPT ![tip + 1] = txs]
    /\ ValidChain(txsAt')
    /\ tip' = tip + 1
    /\ hashAt' = [hashAt EXCEPT ![tip + 1] = forks]
    /\ UNCHANGED <<forks, final, dbVars, memVars, histVars>>

(* The blocks from height h to the tip are replaced by as many others. *)
Reorg ==
    /\ forks < MaxReorgs
    /\ \E h \in Heights :
        /\ final < h /\ h <= tip /\ tip - h < MaxDepth
        /\ \E new \in [h..tip -> BlockTxs] :
            txsAt' = [b \in Heights |-> IF b \in h..tip THEN new[b] ELSE txsAt[b]]
        /\ hashAt' = [b \in Heights |-> IF b \in h..tip THEN forks + 1 ELSE hashAt[b]]
    /\ ValidChain(txsAt')
    /\ forks' = forks + 1
    /\ UNCHANGED <<tip, final, dbVars, memVars, histVars>>

Finalize ==
    /\ \E h \in Heights : final < h /\ h <= tip /\ final' = h
    /\ UNCHANGED <<tip, hashAt, txsAt, forks, dbVars, memVars, histVars>>

-----------------------------------------------------------------------------
(* The runner. *)

(* The variables declared inside the loop's body go out of scope with it. *)
LeaveLoopBody ==
    heads' = NoHeads /\ cursor' = 0 /\ batchEnd' = 0 /\ pending' = {} /\ header' = 0

(* Start of the process: the watchlist is read from launches. *)
Boot ==
    /\ pc = "boot"
    /\ watchlist' = LoadWatchlist
    /\ pc' = "heads"
    /\ UNCHANGED <<chainVars, dbVars, heads, cursor, batchEnd, pending, header, histVars>>

LagBehind(n) == IF tip > n THEN tip - n ELSE 0

(* Head of the loop: eth_blockNumber and the safe and finalized tags, or,    *)
(* where the node does not answer a tag, a lag behind the latest block.      *)
SampleHeads ==
    /\ pc = "heads"
    /\ \E safe \in final..tip \union {LagBehind(ConfirmLag)},
          finalized \in {final, LagBehind(2 * ConfirmLag)} :
        heads' = [latest |-> tip, safe |-> safe, finalized |-> finalized]
    /\ pc' = "reorg"
    /\ UNCHANGED <<chainVars, dbVars, watchlist, cursor, batchEnd, pending, header, histVars>>

(* Slip: the window ends before the last indexed block. *)
MismatchedBeforeLast ==
    {b \in Heights : /\ checkpoint - Window <= b /\ b < checkpoint
                     /\ processedBlocks[b] # NoHash
                     /\ processedBlocks[b] # hashAt[b]}

(* findReorgFromBlock: processed rows of the window whose hash changed. *)
Mismatched ==
    {b \in Heights : /\ checkpoint - Window <= b /\ b <= checkpoint
                     /\ processedBlocks[b] # NoHash
                     /\ processedBlocks[b] # hashAt[b]}

FirstMismatch(from) == from \in Mismatched /\ \A b \in Mismatched : from <= b

(* Slip: one block of margin, and no guard at the start of the chain. *)
ReplayFromEarlier(from) == from - 2

ReplayFrom(from) == from - 1

(* Slip: only launches decide which tokens are rebuilt. *)
LaunchedSince(from) == {t \in Tokens : launchBlock[t] >= from}

(* The tokens whose projections are rebuilt: those of the trades and the     *)
(* launches at or above the mismatch.                                        *)
AffectedTokens(from) ==
    {f.tx.tok : f \in {g \in facts : g.table = "trades" /\ g.block >= from}}
    \union {t \in Tokens : launchBlock[t] >= from}

(* Slip: block_number > from in the DELETE. *)
FactsUpTo(from) == {f \in facts : f.block <= from}

FactsBelow(from) == {f \in facts : f.block < from}

(* Slip: the projection is deleted and not folded again. *)
Dropped(projection, table, affected, rows) ==
    [x \in Txs |-> IF x.tok \notin affected THEN projection[x] ELSE 0]

(* A projection of the affected tokens refolded from the rows of one table. *)
Rebuilt(projection, table, affected, rows) ==
    [x \in Txs |->
        IF x.tok \notin affected THEN projection[x]
        ELSE IF \E f \in rows : f.table = table /\ f.tx = x THEN 1 ELSE 0]

NoReorg ==
    /\ pc = "reorg"
    /\ Mismatched = {}
    /\ cursor' = checkpoint
    /\ checkedForks' = forks
    /\ pc' = "decide"
    /\ UNCHANGED <<chainVars, dbVars, watchlist, heads, batchEnd, pending, header, crashes>>

(* One transaction: delete the facts from the mismatch on, step the          *)
(* checkpoint back, rebuild; then reload the watchlist.  Rows of launches    *)
(* stay.                                                                     *)
HandleReorg ==
    /\ pc = "reorg"
    /\ \E from \in Heights :
        LET affected == AffectedTokens(from)
        IN  /\ FirstMismatch(from)
            /\ affected \intersect PonsTokens = {}
            /\ facts' = FactsBelow(from)
            /\ processedBlocks' =
                 [b \in Heights |-> IF b >= from THEN NoHash ELSE processedBlocks[b]]
            /\ checkpoint' = ReplayFrom(from)
            /\ candle' = Rebuilt(candle, "trades", affected, facts')
            /\ balance' = Rebuilt(balance, "transfers", affected, facts')
            /\ cursor' = ReplayFrom(from)
    /\ watchlist' = LoadWatchlist
    /\ checkedForks' = forks
    /\ pc' = "decide"
    /\ UNCHANGED <<chainVars, launchBlock, heads, batchEnd, pending, header, crashes>>

(* A Pons launch has no locker, no distributor and no pool id, and           *)
(* normalizeAddress(null) throws: the transaction rolls back and the process *)
(* exits, to be started again by the host.                                   *)
ReorgThrows ==
    /\ pc = "reorg"
    /\ \E from \in Heights :
        FirstMismatch(from) /\ AffectedTokens(from) \intersect PonsTokens # {}
    /\ pc' = "boot" /\ watchlist' = {} /\ LeaveLoopBody
    /\ UNCHANGED <<chainVars, dbVars, histVars>>

(* Nothing to index and the tip has not moved either: promote, then sleep. *)
Idle ==
    /\ pc = "decide"
    /\ cursor + 1 > TargetHead(heads)
    /\ IF cursor + 1 <= TargetHead([heads EXCEPT !.latest = tip])
       THEN pc' = "heads" /\ LeaveLoopBody
       ELSE pc' = "promote" /\ UNCHANGED <<heads, cursor, batchEnd, pending, header>>
    /\ UNCHANGED <<chainVars, dbVars, watchlist, histVars>>

BatchEnd ==
    IF cursor + Range > TargetHead(heads) THEN TargetHead(heads) ELSE cursor + Range

(* Slip: the batch must span more than one block. *)
FetchLogsBelowTarget ==
    /\ pc = "decide"
    /\ cursor + 1 < TargetHead(heads)
    /\ batchEnd' = BatchEnd
    /\ pending' = InterestingBlocks(cursor + 1, batchEnd')
    /\ pc' = "walk"
    /\ UNCHANGED <<chainVars, dbVars, watchlist, heads, cursor, header, histVars>>

(* First half of processFastCatchupRange: choose the batch, fetch its logs. *)
FetchLogs ==
    /\ pc = "decide"
    /\ cursor + 1 <= TargetHead(heads)
    /\ batchEnd' = BatchEnd
    /\ pending' = InterestingBlocks(cursor + 1, batchEnd')
    /\ pc' = "walk"
    /\ UNCHANGED <<chainVars, dbVars, watchlist, heads, cursor, header, histVars>>

NextStop(c) == IF c < batchEnd THEN "walk" ELSE "promote"

(* advanceEmptyRange over the gap before the next interesting block: sparse *)
(* anchors and the checkpoint, in one transaction.                          *)
AdvanceEmptyRange ==
    /\ pc = "walk"
    /\ \E to \in cursor + 1..batchEnd :
        /\ cursor + 1..to \intersect pending = {}
        /\ to = batchEnd \/ to + 1 \in pending
        /\ processedBlocks' =
             [b \in Heights |-> IF b \in EmptyRangeAnchors(cursor + 1, to)
                                THEN hashAt[b] ELSE processedBlocks[b]]
        /\ checkpoint' = to
        /\ cursor' = to
        /\ pc' = NextStop(to)
    /\ UNCHANGED <<chainVars, factVars, watchlist, heads, batchEnd, pending, header, histVars>>

(* processBlock, first RPC: the block's hash. *)
ReadHeader ==
    /\ pc = "walk"
    /\ cursor + 1 \in pending
    /\ header' = hashAt[cursor + 1]
    /\ pc' = "block"
    /\ UNCHANGED <<chainVars, dbVars, watchlist, heads, cursor, batchEnd, pending, histVars>>

(* processBlock, the rest: fetch the block's logs by NUMBER, write every row *)
(* under the hash read before, and move the checkpoint, in one transaction.  *)
ProcessBlock ==
    /\ pc = "block"
    /\ LET b == cursor + 1
           txs == IF processedBlocks[b] = header THEN {} ELSE txsAt[b]
           launched == LaunchedIn(txs)
       IN  /\ facts' = Upsert(facts, NewRows("trades", TradesIn(txs), b)
                                     \union NewRows("transfers", TransfersIn(txs), b))
           /\ candle' = MergedCandle(TradesIn(txs))
           /\ balance' = FoldedBalance(TransfersIn(txs))
           /\ launchBlock' = [t \in Tokens |-> IF t \in launched THEN b ELSE launchBlock[t]]
           /\ processedBlocks' = [processedBlocks EXCEPT ![b] = header]
           /\ checkpoint' = b
           /\ watchlist' = watchlist \union launched
           /\ pending' = pending \ {b}
           /\ cursor' = b
           /\ pc' = IF launched \subseteq watchlist THEN NextStop(b) ELSE "rescan"
           /\ header' = 0
    /\ UNCHANGED <<chainVars, heads, batchEnd, histVars>>

(* Slip: no second scan. *)
NoRescan ==
    /\ pc = "rescan"
    /\ pc' = NextStop(cursor)
    /\ UNCHANGED <<chainVars, dbVars, watchlist, heads, cursor, batchEnd, pending, header,
                   histVars>>

(* A launch changed the address filter: scan the rest of the batch again. *)
Rescan ==
    /\ pc = "rescan"
    /\ pending' = pending \union InterestingBlocks(cursor + 1, batchEnd)
    /\ pc' = NextStop(cursor)
    /\ UNCHANGED <<chainVars, dbVars, watchlist, heads, cursor, batchEnd, header, histVars>>

(* After a batch, and when idle: promote with the heads of the loop's start. *)
PromoteConfirmations ==
    /\ pc = "promote"
    /\ facts' = Promoted(facts, heads)
    /\ pc' = "heads" /\ LeaveLoopBody
    /\ UNCHANGED <<chainVars, checkpoint, processedBlocks, launchBlock, candle, balance,
                   watchlist, histVars>>

(* The process dies between two transactions (an RPC error that is not     *)
(* retried, a kill, a lost connection); what it held in memory is gone.    *)
Crash ==
    /\ pc # "boot"
    /\ crashes < MaxCrashes
    /\ crashes' = crashes + 1
    /\ pc' = "boot" /\ watchlist' = {} /\ LeaveLoopBody
    /\ UNCHANGED <<chainVars, dbVars, checkedForks>>

-----------------------------------------------------------------------------
Init ==
    /\ tip = 0 /\ forks = 0 /\ final = 0
    /\ hashAt = [b \in Heights |-> 0]
    /\ txsAt = [b \in Heights |-> {}]
    /\ checkpoint = 0
    /\ processedBlocks = [b \in Heights |-> NoHash]
    /\ facts = {}
    /\ launchBlock = [t \in Tokens |-> 0]
    /\ candle = [x \in Txs |-> 0]
    /\ balance = [x \in Txs |-> 0]
    /\ pc = "boot"
    /\ watchlist = {} /\ heads = NoHeads
    /\ cursor = 0 /\ batchEnd = 0 /\ pending = {} /\ header = 0
    /\ checkedForks = 0 /\ crashes = 0

Chain == Mine \/ Reorg \/ Finalize

Runner ==
    \/ Boot \/ SampleHeads
    \/ NoReorg \/ HandleReorg \/ ReorgThrows
    \/ Idle \/ FetchLogs \/ AdvanceEmptyRange \/ ReadHeader \/ ProcessBlock \/ Rescan
    \/ PromoteConfirmations

Next == Chain \/ Runner \/ Crash

Spec == Init /\ [][Next]_vars

(* The loop never stops by itself and the host restarts a process that     *)
(* exited; the chain owes nothing.                                         *)
FairSpec == Spec /\ WF_vars(Runner)

-----------------------------------------------------------------------------
(* Type invariant: each variable of the indexer holds a value of its type. *)
TypeOK ==
    /\ tip \in 0..MaxHeight
    /\ forks \in Hashes
    /\ final \in 0..tip
    /\ hashAt \in [Heights -> Hashes]
    /\ txsAt \in [Heights -> SUBSET Txs]
    /\ checkpoint \in 0..MaxHeight
    /\ processedBlocks \in [Heights -> Hashes \union {NoHash}]
    /\ facts \subseteq Rows
    /\ launchBlock \in [Tokens -> 0..MaxHeight]
    /\ candle \in [Txs -> Nat]
    /\ balance \in [Txs -> Nat]
    /\ pc \in PCs
    /\ watchlist \subseteq Tokens
    /\ heads \in [latest : 0..MaxHeight, safe : 0..MaxHeight, finalized : 0..MaxHeight]
    /\ cursor \in 0..MaxHeight
    /\ batchEnd \in 0..MaxHeight
    /\ pending \subseteq Heights
    /\ header \in Hashes
    /\ checkedForks \in Hashes
    /\ crashes \in 0..MaxCrashes

(* Every fact row lies at or below the checkpoint, under a processed_blocks  *)
(* row that carries the same block hash, and no processed row lies above the *)
(* checkpoint: a rollback that compares processed hashes therefore sees      *)
(* every row, and a restart never indexes a block twice.  advanceEmptyRange  *)
(* overwrites processed rows without looking at the facts, so this rests on  *)
(* the batch cursor never falling behind the checkpoint.                     *)
FactsAnchored ==
    /\ \A f \in facts : f.block <= checkpoint /\ processedBlocks[f.block] = f.hash
    /\ \A b \in Heights : processedBlocks[b] # NoHash => b <= checkpoint

(* The chain has not reorganised since the last completed reorg check. *)
Settled == checkedForks = forks

(* After a reorg check, and until the chain reorganises again, every row of *)
(* trades and transfers is of a transaction that is on the canonical chain  *)
(* at that height, even if a reorg hit between the RPC reads of a batch.    *)
NoOrphanFacts ==
    Settled => \A f \in facts : f.hash = hashAt[f.block] /\ f.tx \in txsAt[f.block]

InTable(table, x) == \E f \in facts : f.table = table /\ f.tx = x

(* After a reorg check the candles hold every trade row exactly once: the    *)
(* merge is not idempotent, and replay, crash and rollback must not repeat   *)
(* or drop it.                                                               *)
CandlesMatchTrades ==
    Settled => \A x \in Txs : x.tok \in ScoopTokens =>
                 candle[x] = IF InTable("trades", x) THEN 1 ELSE 0

(* The same of holder balances and transfer rows (rebuildAfterReorg.ts:23). *)
BalancesMatchTransfers ==
    Settled => \A x \in Txs : x.tok \in ScoopTokens =>
                 balance[x] = IF InTable("transfers", x) THEN 1 ELSE 0

(* A row marked finalized is canonical for good: promotion goes by height    *)
(* alone, so it depends on the reorg check coming between the sample of the  *)
(* heads and the promotion.                                                  *)
FinalizedIsCanonical ==
    \A f \in facts : f.status = "finalized" =>
        f.hash = hashAt[f.block] /\ f.tx \in txsAt[f.block]

(* Rows and checkpoint are a Ledger: a key's place is the block of its row.  *)
RowKeys == Tables \X Txs

PlaceIn(rows, k) ==
    LET own == {f \in rows : f.table = k[1] /\ f.tx = k[2]}
    IN  IF own = {} THEN 0 ELSE (CHOOSE f \in own : TRUE).block

SealedIn(rows) == {<<f.table, f.tx>> : f \in {g \in rows : g.status = "finalized"}}

Ledger == INSTANCE Ledger WITH
    Keys <- RowKeys, height <- checkpoint, sealed <- SealedIn(facts),
    place <- [k \in RowKeys |-> PlaceIn(facts, k)]

(* The checkpoint is a promise to readers: no row appears at or below it, one *)
(* goes only with a rollback of the checkpoint or to a block above it, where *)
(* its transaction was mined again, and a finalized row never goes           *)
(* (fastCatchup.ts, processBlock.ts, reorg.ts).                              *)
LedgerSpec == Ledger!Spec

(* Every trade and transfer of a Scoop token at or below the checkpoint has  *)
(* its row.                                                                  *)
Complete ==
    \A b \in 1..checkpoint : \A x \in txsAt[b] :
        x.tok \in ScoopTokens =>
            (HasTrade(x) => InTable("trades", x)) /\ InTable("transfers", x)

(* docs/PHASE_6A_7B_FAST_CATCHUP.md:40, as stated. *)
NoEventSkipped == Settled => Complete

(* What remains of it: true for as long as the chain never reorganised,    *)
(* across crashes, launches in the middle of a batch and every batch size.  *)
NoEventSkippedWithoutReorg == forks = 0 => Complete

(* The indexer catches up: from some point on the checkpoint is at the       *)
(* target of the chain's real tip.                                           *)
CatchesUp ==
    <>[](checkpoint = TargetHead([latest |-> tip, safe |-> final, finalized |-> final]))
=============================================================================
