---------------------------- MODULE LiveOverlay ----------------------------
(***************************************************************************)
(* The provisional rows shown until the canonical indexer, which stays Lag *)
(* blocks behind the chain, has reached them: the near-tip observer        *)
(* (apps/indexer/src/live/tipOverlay), its tables (repos/live-overlay.ts)  *)
(* and the merge of both sources when a page is read                       *)
(* (live/merge-live-market.ts).  One token, launched by transaction 0 and  *)
(* traded by the transactions 1 .. Trades; a trade's price is its number.  *)
(*                                                                         *)
(* The canonical indexer is reduced to what the overlay sees of it: its    *)
(* checkpoint, its trades and whether the token has a row.  The observer   *)
(* reads the head, its checkpoint and the logs of a window in one step and *)
(* commits them in a later one; the chain, the indexer and the cleanup may *)
(* move in between.                                                        *)
(***************************************************************************)
EXTENDS Integers, SequencesExt

CONSTANTS
    Trades,         \* how many trades the token sees
    Lag,            \* blocks the canonical indexer stays behind the head
    MaxCatchup,     \* SCOOP_LIVE_MAX_CATCHUP_BLOCKS
    Replay,         \* SCOOP_LIVE_REPLAY_WINDOW_BLOCKS
    StaleLag,       \* SCOOP_LIVE_STALE_LAG_BLOCKS
    MaxHeight,      \* bound: blocks of the chain
    MaxReorgs,      \* bound: reorganisations
    MaxDepth,       \* blocks a reorganisation replaces at most
    FaultBudget     \* bound: failures, restarts and lapses of rows

(* The default windows, 192 and 256 blocks, satisfy the last conjunct; the  *)
(* configuration does not check it.                                         *)
ASSUME OverlayAssumption ==
    /\ Trades \in Nat /\ Lag \in Nat /\ MaxHeight \in Nat
    /\ MaxReorgs \in Nat /\ MaxDepth \in Nat /\ FaultBudget \in Nat
    /\ MaxCatchup \in Nat \ {0} /\ Replay \in Nat /\ StaleLag \in Nat
    /\ Replay <= StaleLag

VARIABLES
    chain,          \* the blocks as the node reports them, sets of transactions
    canon,          \* the blocks the canonical indexer has processed
    anchors,        \* heights of canon whose hash is stored in processed_blocks
    listed,         \* the token has its canonical row
    checkpoint,     \* live_observer_checkpoints.last_block_number
    watching,       \* the token's pool is in the observer's watchlist
    job,            \* window read from the node and not yet committed
    events,         \* live_chain_events of the token's trades
    tip,            \* live_token_tips row of the token
    lapsed,         \* rows last upserted with a checkpoint up to this expired
    missed,         \* history: transactions the overlay may rightly not show
    moved,          \* history: transactions that a reorganisation moved (Reorg)
    forks, faults   \* bounds

vars == <<chain, canon, anchors, listed, checkpoint, watching, job, events, tip,
          lapsed, missed, moved, forks, faults>>
indexer == <<canon, anchors, listed>>
rows == <<events, tip, lapsed, missed>>
hist == <<moved, forks>>
observer == <<checkpoint, watching, job>>

Launch == 0
TradeTxs == 1 .. Trades
Txs == {Launch} \cup TradeTxs
NoCheckpoint == -1
NoPrice == 0
NoJob == [from |-> 0, to |-> -1, blocks |-> <<>>]
NoTip == [block |-> -1, price |-> NoPrice, seen |-> NoCheckpoint]
Event == [tx : TradeTxs, block : 1 .. MaxHeight, seen : 0 .. MaxHeight]

Mined(blocks) == UNION Range(blocks)
Prefix(n) == SubSeq(chain, 1, n)
MainCheckpoint == Len(canon)
Canonical == Mined(canon) \ {Launch}

-----------------------------------------------------------------------------
(* The chain.  A trade follows the launch; the trades of a block are in the *)
(* order of their numbers.                                                  *)

Valid(blocks) ==
    \A i \in DOMAIN blocks :
        /\ \A j \in 1 .. i - 1 : blocks[i] \cap blocks[j] = {}
        /\ blocks[i] # {} => Launch \in Mined(SubSeq(blocks, 1, i))

Mine ==
    /\ Len(chain) < MaxHeight
    /\ \E txs \in SUBSET (Txs \ Mined(chain)) :
          chain' = Append(chain, txs) /\ Valid(chain')
    /\ UNCHANGED <<indexer, observer, rows, hist, faults>>

(* Some reader of the chain is past a block. *)
WasRead(i) == i <= MainCheckpoint \/ i <= checkpoint \/ i <= job.to

(* The last blocks are replaced by as many others, of any transactions that *)
(* are not mined below.  Moved are those of the replaced blocks and those   *)
(* of the new blocks that a reader is past: the observer never returns, the *)
(* indexer only where a stored hash differs.                                *)
Reorg ==
    /\ forks < MaxReorgs
    /\ \E d \in 1 .. Min({MaxDepth, Len(chain)}) :
          LET kept == Len(chain) - d
              replaced == kept + 1 .. Len(chain)
          IN /\ \E other \in [1 .. d -> SUBSET Txs] : chain' = Prefix(kept) \o other
             /\ Valid(chain') /\ chain' # chain
             /\ moved' = moved \cup {tx \in Txs : \E i \in replaced :
                    tx \in chain[i] \/ (WasRead(i) /\ tx \in chain'[i])}
    /\ forks' = forks + 1
    /\ UNCHANGED <<indexer, observer, rows, faults>>

-----------------------------------------------------------------------------
(* The canonical indexer, modelled in full by Indexer.  A batch commits its *)
(* blocks and the checkpoint; of blocks without events a fast catch-up      *)
(* stores only some hashes.  The first stored hash that differs is rolled   *)
(* back with what is behind it.  A token's row outlives its block.          *)

Differs(i) == canon[i] # chain[i]

Index ==
    /\ \A i \in anchors : ~Differs(i)
    /\ \E n \in MainCheckpoint + 1 .. Len(chain) - Lag :
          LET batch == MainCheckpoint + 1 .. n
          IN /\ canon' = canon \o SubSeq(chain, MainCheckpoint + 1, n)
             /\ \E unsampled \in SUBSET {i \in batch : chain[i] = {}} :
                   anchors' = anchors \cup (batch \ unsampled) \cup {n}
             /\ listed' = (listed \/ Launch \in Mined(canon'))
    /\ UNCHANGED <<chain, observer, rows, hist, faults>>

Rollback ==
    /\ \E first \in anchors :
          /\ Differs(first)
          /\ \A i \in anchors : Differs(i) => first <= i
          /\ canon' = SubSeq(canon, 1, first - 1)
          /\ anchors' = {i \in anchors : i < first}
    /\ UNCHANGED <<chain, listed, observer, rows, hist, faults>>

-----------------------------------------------------------------------------
(* Reading: what the tables hold for a page at one moment. *)

Fresh(row) == row.seen > lapsed

(* Blocks the canonical indexer has not reached. *)
Beyond(block) == block > MainCheckpoint

(* mergeLiveTrades: a canonical trade wins over its row, and rows that the  *)
(* checkpoint has reached are dropped - if the checkpoint could be read.    *)
Overlaid == {e \in events : Fresh(e) /\ e.tx \notin Canonical}
Pending == {e \in Overlaid : Beyond(e.block)}
PendingTrades == {e.tx : e \in Pending}

(* listLiveTips, getLiveTokenTip. *)
TipVisible == tip # NoTip /\ Fresh(tip) /\ Beyond(tip.block)

Later(e, f) == e.block > f.block \/ (e.block = f.block /\ e.tx > f.tx)
Newest(es) == CHOOSE e \in es : \A f \in es \ {e} : Later(e, f)

-----------------------------------------------------------------------------
(* The observer. *)

(* resolveLiveScanWindow.  A missing or stale checkpoint jumps near the head. *)
Jumps == checkpoint = NoCheckpoint \/ Len(chain) - checkpoint > StaleLag
LastScanned == IF Jumps THEN Max({Len(chain) - Replay, 0}) - 1 ELSE checkpoint
ScanEnd == Min({Len(chain), LastScanned + MaxCatchup})

Scan ==
    /\ job = NoJob
    /\ LastScanned < ScanEnd
    /\ LET from == Max({LastScanned + 1, 1})
       IN job' = [from |-> from, to |-> ScanEnd,
                  blocks |-> SubSeq(chain, from, ScanEnd)]
    /\ UNCHANGED <<chain, indexer, checkpoint, watching, rows, hist, faults>>

(* The trades of the window whose pool is watched; launches of the window   *)
(* join the watchlist first.                                                *)
Captured == Mined(job.blocks)
Watches == watching \/ Launch \in Captured
BlockOf(x) == job.from - 1 + CHOOSE i \in DOMAIN job.blocks : x \in job.blocks[i]
Swaps == {[tx |-> x, block |-> BlockOf(x), seen |-> job.to] :
             x \in IF Watches THEN Captured \ {Launch} ELSE {}}

(* Slip: the unique key includes the block. *)
StoredSlip(swap) == \E e \in events : e.tx = swap.tx /\ e.block = swap.block

(* upsertLiveChainEvent: a row in conflict keeps its block and lives longer. *)
Stored(swap) == \E e \in events : e.tx = swap.tx
Inserted == {w \in Swaps : ~Stored(w)}
Refreshed(e) ==
    IF e.tx \in {w.tx : w \in Swaps} THEN [e EXCEPT !.seen = job.to] ELSE e

(* upsertLiveTokenTip, for the launch and then for each inserted trade: the *)
(* source is overwritten, a NULL price keeps the stored one.                *)
TipOfLaunch ==
    IF Launch \in Captured
    THEN [tip EXCEPT !.block = BlockOf(Launch), !.seen = job.to]
    ELSE tip

(* Slip: the launches of a window are stored after its trades. *)
NewTipSlip ==
    LET price == IF Inserted = {} THEN tip.price ELSE Newest(Inserted).tx
    IN IF Launch \in Captured
       THEN [block |-> BlockOf(Launch), price |-> price, seen |-> job.to]
       ELSE IF Inserted = {} THEN tip
       ELSE [block |-> Newest(Inserted).block, price |-> price, seen |-> job.to]

NewTip ==
    IF Inserted = {} THEN TipOfLaunch
    ELSE LET newest == Newest(Inserted)
         IN [block |-> newest.block, price |-> newest.tx, seen |-> job.to]

(* Launches and trades the observer passes without storing them. *)
PassedOver ==
    Mined(SubSeq(chain, Max({checkpoint + 1, 1}), job.from - 1))
        \cup IF Watches THEN {} ELSE Captured

(* observeRange and the checkpoint, in one database transaction. *)
Commit ==
    /\ job # NoJob
    /\ watching' = Watches
    /\ events' = {Refreshed(e) : e \in events} \cup Inserted
    /\ tip' = NewTip
    /\ checkpoint' = job.to
    /\ missed' = missed \cup PassedOver
    /\ job' = NoJob
    /\ UNCHANGED <<chain, indexer, lapsed, hist, faults>>

(* Slip: the checkpoint is saved although the transaction failed. *)
FailSlip ==
    /\ faults < FaultBudget
    /\ faults' = faults + 1
    /\ watching' \in {listed, Watches}
    /\ checkpoint' = IF job = NoJob THEN checkpoint ELSE job.to
    /\ job' = NoJob
    /\ UNCHANGED <<chain, indexer, rows, hist>>

(* A call or the transaction fails: nothing is written; the watchlist is    *)
(* read again, or kept, with a launch added to it, when that fails too.     *)
Fail ==
    /\ faults < FaultBudget
    /\ faults' = faults + 1
    /\ watching' \in {listed, Watches}
    /\ job' = NoJob
    /\ UNCHANGED <<chain, indexer, checkpoint, rows, hist>>

(* The process is replaced; its first loop loads the watchlist. *)
Restart ==
    /\ faults < FaultBudget
    /\ faults' = faults + 1
    /\ watching' = listed
    /\ job' = NoJob
    /\ UNCHANGED <<chain, indexer, checkpoint, rows, hist>>

(* SCOOP_LIVE_TTL_SECONDS pass since the commits up to a checkpoint. *)
Lapse ==
    /\ faults < FaultBudget
    /\ faults' = faults + 1
    /\ lapsed' \in lapsed + 1 .. checkpoint
    /\ missed' = missed \cup {e.tx : e \in {f \in events : f.seen <= lapsed'}}
                         \cup IF tip.seen <= lapsed' THEN {Launch} ELSE {}
    /\ UNCHANGED <<chain, indexer, observer, events, tip, hist>>

(* expireLiveOverlayRows, by the observer and by the idle indexer. *)
Expire ==
    /\ events' = {e \in events : Fresh(e)}
    /\ tip' = IF tip # NoTip /\ Fresh(tip) THEN tip ELSE NoTip
    /\ <<events', tip'>> # <<events, tip>>
    /\ UNCHANGED <<chain, indexer, observer, lapsed, missed, hist, faults>>

(* deleteConfirmedLiveRows, by the idle indexer; the tips stay. *)
DeleteConfirmed ==
    /\ events' = {e \in events : e.tx \notin Canonical}
    /\ events' # events
    /\ UNCHANGED <<chain, indexer, observer, tip, lapsed, missed, hist, faults>>

Init ==
    /\ chain = <<>> /\ canon = <<>> /\ anchors = {} /\ listed = FALSE
    /\ checkpoint = NoCheckpoint /\ watching = FALSE /\ job = NoJob
    /\ events = {} /\ tip = NoTip /\ lapsed = NoCheckpoint /\ missed = {}
    /\ moved = {} /\ forks = 0 /\ faults = 0

Next ==
    \/ Mine \/ Reorg
    \/ Index \/ Rollback
    \/ Scan \/ Commit \/ Fail \/ Restart
    \/ Lapse \/ Expire \/ DeleteConfirmed

Spec == Init /\ [][Next]_vars

-----------------------------------------------------------------------------
(* The state is well formed: the unique key of live_chain_events holds, and *)
(* the observer's checkpoint is never beyond the chain it read.             *)
TypeOK ==
    /\ chain \in Seq(SUBSET Txs) /\ Valid(chain) /\ Len(chain) <= MaxHeight
    /\ canon \in Seq(SUBSET Txs) /\ anchors \subseteq DOMAIN canon
    /\ listed \in BOOLEAN /\ watching \in BOOLEAN
    /\ checkpoint \in NoCheckpoint .. Len(chain)
    /\ job = NoJob \/ job.to \in checkpoint + 1 .. Len(chain)
    /\ events \subseteq Event
    /\ \A e, f \in events : e.tx = f.tx => e = f
    /\ tip \in [block : 1 .. MaxHeight, price : {NoPrice} \cup TradeTxs,
                seen : 0 .. MaxHeight] \cup {NoTip}
    /\ lapsed \in NoCheckpoint .. checkpoint
    /\ missed \subseteq Txs /\ moved \subseteq Txs

Reached == Mined(Prefix(Max({MainCheckpoint, checkpoint})))

(* A page offers every trade that the indexer or the observer has reached   *)
(* and nothing else, through failures, restarts, rows that are refreshed,   *)
(* expired or cleaned up, whichever of the two is ahead, and whether or not *)
(* the checkpoint could be read with the rows.  Excepted are moved trades   *)
(* (the known limit of an observer that never scans a block twice) and      *)
(* those it jumped over, did not watch, or whose row lapsed.                *)
ReachedTradesShown ==
    /\ Reached \ {Launch} \subseteq PendingTrades \cup Canonical \cup missed \cup moved
    /\ PendingTrades \cup Canonical \subseteq Reached \cup moved
    /\ {e.tx : e \in Overlaid} \subseteq PendingTrades \cup moved

(* The tip, one row that launches, replays and trades overwrite in part, is *)
(* of the newest pending trade, unless a reorganisation moved that trade or *)
(* the tip's; and a launch the observer has stored has a visible tip, which *)
(* lists the token, until its canonical row exists.                         *)
TipShowsNewest ==
    /\ Pending # {} /\ Newest(Pending).tx \notin moved =>
          TipVisible /\ tip.price \in {Newest(Pending).tx} \cup moved
    /\ Launch \in Reached \ (missed \cup moved) => listed \/ TipVisible
=============================================================================
