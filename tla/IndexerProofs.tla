---------------------------- MODULE IndexerProofs ----------------------------
(* Proofs, for every value of the constants, of the safety of Indexer.  The *)
(* invariant is built in layers: types and the batch cursor, the coupling   *)
(* of facts and processed blocks, the relation of rows to the chain, that   *)
(* of the stored hashes, and on them finalized rows, candles, balances and  *)
(* completeness.  Last, Indexer implements Ledger.                          *)
EXTENDS Indexer, TLAPS

InBatch == pc \in {"walk", "block", "rescan"}

(* The cursor of a batch is the database checkpoint, and stays in the batch. *)
CursorOK ==
    /\ pc = "decide" \/ InBatch => cursor = checkpoint
    /\ pc \in {"walk", "block"} => cursor < batchEnd
    /\ pc = "rescan" => cursor <= batchEnd

TypeInv == TypeOK /\ CursorOK

-----------------------------------------------------------------------------
(* Types of the helpers. *)

(* The target lies between 0 and any bound of the three heads. *)
LEMMA TargetHeadType ==
    ASSUME NEW n \in Nat, NEW h \in [latest : 0..n, safe : 0..n, finalized : 0..n]
    PROVE  TargetHead(h) \in 0..n
BY ConfigAssumption DEF TargetHead, ConfirmModes

(* A head that lags behind the tip lies between 0 and the tip.             *)
LEMMA LagBehindType ==
    ASSUME TypeOK, NEW n \in Nat
    PROVE  LagBehind(n) \in 0..tip
BY BoundsAssumption DEF LagBehind, TypeOK

(* A height has one of the three statuses under any heads.                 *)
LEMMA ConfirmationStatusType ==
    ASSUME NEW b, NEW h
    PROVE  ConfirmationStatus(b, h) \in Statuses
BY DEF ConfirmationStatus, Statuses

(* Promotion keeps every row's key, block and hash; its status stays or is *)
(* the one its height has under the heads.                                  *)
LEMMA PromotedRow ==
    ASSUME NEW rows \in SUBSET Rows, NEW h, NEW f \in Promoted(rows, h)
    PROVE  \E g \in rows :
              /\ f \in Rows
              /\ f.table = g.table /\ f.tx = g.tx /\ f.block = g.block /\ f.hash = g.hash
              /\ f.status = g.status \/ f.status = ConfirmationStatus(f.block, h)
<1>1. PICK g \in rows :
        f = [table |-> g.table, tx |-> g.tx, block |-> g.block, hash |-> g.hash,
             status |-> Raised(g.status, g.block, h)]
    BY DEF Promoted
<1>2. Raised(g.status, g.block, h) \in {g.status, ConfirmationStatus(g.block, h)}
    BY DEF Raised
<1>3. ConfirmationStatus(g.block, h) \in Statuses
    BY ConfirmationStatusType
<1>. QED BY <1>1, <1>2, <1>3 DEF Rows

(* The rows a block contributes. *)
LEMMA NewRowsType ==
    ASSUME TypeOK, NEW table \in Tables, NEW xs \in SUBSET Txs, NEW b \in Heights
    PROVE  NewRows(table, xs, b) \in SUBSET Rows
BY ConfirmationStatusType DEF TypeOK, NewRows, Rows

-----------------------------------------------------------------------------
(* The initial state is well typed, and in no batch.                       *)
LEMMA InitType == Init => TypeInv
<1>. SUFFICES ASSUME Init PROVE TypeInv
    OBVIOUS
<1>1. TypeOK
    BY BoundsAssumption
       DEF Init, TypeOK, NoHeads, Hashes, Heights, Rows, PCs, NoHash
<1>2. CursorOK
    BY DEF Init, CursorOK, InBatch
<1>. QED BY <1>1, <1>2 DEF TypeInv

(* What the rows of a processed block are. *)
LEMMA UpsertType ==
    ASSUME NEW old \in SUBSET Rows, NEW new \in SUBSET Rows
    PROVE  Upsert(old, new) \in SUBSET Rows
BY DEF Upsert

(* A promotion yields rows.                                                *)
LEMMA PromotedType ==
    ASSUME NEW rows \in SUBSET Rows, NEW h
    PROVE  Promoted(rows, h) \in SUBSET Rows
BY PromotedRow

(* The batch ends above the cursor, at most at the highest height. *)
LEMMA BatchEndType ==
    ASSUME TypeOK, cursor + 1 <= TargetHead(heads)
    PROVE  BatchEnd \in 0..MaxHeight /\ cursor < BatchEnd
<1>1. TargetHead(heads) \in 0..MaxHeight
    BY TargetHeadType, BoundsAssumption DEF TypeOK
<1>2. cursor \in 0..MaxHeight /\ Range \in Nat \ {0} /\ MaxHeight \in Nat
    BY ConfigAssumption, BoundsAssumption DEF TypeOK
<1>. QED BY <1>1, <1>2 DEF BatchEnd

(* The steps of the chain touch nothing of the indexer. *)
LEMMA ChainTypeStep == TypeInv /\ Chain => TypeInv'
<1>. SUFFICES ASSUME TypeInv, Chain PROVE TypeInv'
    OBVIOUS
<1>. USE BoundsAssumption, TxsAssumption DEF TypeInv, TypeOK, Heights, Hashes
<1>1. UNCHANGED <<dbVars, memVars, histVars>>
    BY DEF Chain, Mine, Reorg, Finalize
<1>2. CursorOK'
    BY <1>1 DEF CursorOK, InBatch, dbVars, memVars
<1>3. /\ tip' \in 0..MaxHeight /\ forks' \in Hashes /\ final' \in 0..tip'
      /\ hashAt' \in [Heights -> Hashes] /\ txsAt' \in [Heights -> SUBSET Txs]
    <2>1. CASE Mine
        BY <2>1 DEF Mine
    <2>2. CASE Reorg
        <3>1. PICK h \in Heights :
                /\ \E new \in [h..tip -> BlockTxs] :
                     txsAt' = [b \in Heights |-> IF b \in h..tip THEN new[b] ELSE txsAt[b]]
                /\ hashAt' = [b \in Heights |-> IF b \in h..tip THEN forks + 1
                                                                ELSE hashAt[b]]
            BY <2>2 DEF Reorg
        <3>2. forks < MaxReorgs /\ forks' = forks + 1 /\ UNCHANGED <<tip, final>>
            BY <2>2 DEF Reorg
        <3>3. forks + 1 \in Hashes
            BY <3>2
        <3>4. hashAt' \in [Heights -> Hashes]
            BY <3>1, <3>3
        <3>5. txsAt' \in [Heights -> SUBSET Txs]
            BY <3>1
        <3>. QED BY <3>2, <3>3, <3>4, <3>5
    <2>3. CASE Finalize
        BY <2>3 DEF Finalize
    <2>. QED BY <2>1, <2>2, <2>3 DEF Chain
<1>. QED BY <1>1, <1>2, <1>3 DEF dbVars, factVars, memVars, histVars, Rows

(* The steps of the runner. *)
LEMMA RunnerTypeStep == TypeInv /\ (Runner \/ Crash) => TypeInv'
<1>. SUFFICES ASSUME TypeInv, Runner \/ Crash PROVE TypeInv'
    OBVIOUS
<1>a. TypeOK /\ CursorOK
    BY DEF TypeInv
<1>. USE BoundsAssumption, TxsAssumption, <1>a
     DEF TypeInv, TypeOK, Heights, Hashes, chainVars, dbVars, factVars, memVars, histVars, PCs
<1>1. CASE Boot
    BY <1>1 DEF Boot, LoadWatchlist, CursorOK, InBatch
<1>2. CASE SampleHeads
    <2>1. LagBehind(ConfirmLag) \in 0..tip /\ LagBehind(2 * ConfirmLag) \in 0..tip
        BY ConfigAssumption DEF LagBehind
    <2>2. heads' \in [latest : 0..MaxHeight, safe : 0..MaxHeight, finalized : 0..MaxHeight]
        <3>1. PICK safe \in final..tip \union {LagBehind(ConfirmLag)},
                   finalized \in {final, LagBehind(2 * ConfirmLag)} :
                heads' = [latest |-> tip, safe |-> safe, finalized |-> finalized]
            BY <1>2 DEF SampleHeads
        <3>2. safe \in 0..MaxHeight /\ finalized \in 0..MaxHeight /\ tip \in 0..MaxHeight
            BY <2>1
        <3>. QED BY <3>1, <3>2
    <2>. QED BY <1>2, <2>2 DEF SampleHeads, CursorOK, InBatch, Rows
<1>3. CASE NoReorg
    BY <1>3 DEF NoReorg, CursorOK, InBatch
<1>4. CASE HandleReorg
    <2>1. PICK from \in Heights :
            /\ facts' = FactsBelow(from)
            /\ processedBlocks' =
                 [b \in Heights |-> IF b >= from THEN NoHash ELSE processedBlocks[b]]
            /\ checkpoint' = ReplayFrom(from)
            /\ candle' = Rebuilt(candle, "trades", AffectedTokens(from), facts')
            /\ balance' = Rebuilt(balance, "transfers", AffectedTokens(from), facts')
            /\ cursor' = ReplayFrom(from)
        BY <1>4 DEF HandleReorg
    <2>2. checkpoint' \in 0..MaxHeight /\ cursor' = checkpoint'
        BY <2>1 DEF ReplayFrom
    <2>3. facts' \subseteq Rows
        BY <2>1 DEF FactsBelow
    <2>4. candle' \in [Txs -> Nat] /\ balance' \in [Txs -> Nat]
        BY <2>1 DEF Rebuilt
    <2>5. processedBlocks' \in [Heights -> Hashes \union {NoHash}]
        BY <2>1
    <2>6. CursorOK'
        BY <2>2, <1>4 DEF CursorOK, InBatch, HandleReorg
    <2>. QED BY <2>2, <2>3, <2>4, <2>5, <2>6, <1>4 DEF HandleReorg, LoadWatchlist, Rows
<1>5. CASE ReorgThrows
    BY <1>5 DEF ReorgThrows, LeaveLoopBody, NoHeads, CursorOK, InBatch
<1>6. CASE Idle
    <2>1. /\ \/ pc' = "heads" /\ LeaveLoopBody
             \/ pc' = "promote" /\ UNCHANGED <<heads, cursor, batchEnd, pending, header>>
          /\ UNCHANGED <<chainVars, dbVars, watchlist, histVars>>
        BY <1>6, Zenon DEF Idle
    <2>2. CASE pc' = "heads" /\ LeaveLoopBody
        BY <2>1, <2>2 DEF LeaveLoopBody, NoHeads, CursorOK, InBatch, Rows
    <2>3. CASE pc' = "promote" /\ UNCHANGED <<heads, cursor, batchEnd, pending, header>>
        BY <2>1, <2>3 DEF CursorOK, InBatch, Rows
    <2>. QED BY <2>1, <2>2, <2>3
<1>7. CASE FetchLogs
    <2>1. batchEnd' \in 0..MaxHeight /\ cursor < batchEnd'
        BY <1>7, BatchEndType DEF FetchLogs
    <2>2. pending' \subseteq Heights
        BY <1>7, <2>1 DEF FetchLogs, InterestingBlocks
    <2>. QED BY <2>1, <2>2, <1>7 DEF FetchLogs, CursorOK, InBatch
<1>8. CASE AdvanceEmptyRange
    <2>1. PICK to \in cursor + 1..batchEnd :
            /\ processedBlocks' =
                 [b \in Heights |-> IF b \in EmptyRangeAnchors(cursor + 1, to)
                                    THEN hashAt[b] ELSE processedBlocks[b]]
            /\ checkpoint' = to /\ cursor' = to /\ pc' = NextStop(to)
        BY <1>8 DEF AdvanceEmptyRange
    <2>2. processedBlocks' \in [Heights -> Hashes \union {NoHash}]
        BY <2>1
    <2>3. CursorOK'
        BY <1>8, <2>1 DEF AdvanceEmptyRange, NextStop, CursorOK, InBatch
    <2>. QED BY SMTT(30), <1>8, <2>1, <2>2, <2>3 DEF AdvanceEmptyRange, NextStop
<1>9. CASE ReadHeader
    <2>1. cursor + 1 \in Heights
        BY <1>9 DEF ReadHeader
    <2>. QED BY <1>9, <2>1 DEF ReadHeader, CursorOK, InBatch
<1>10. CASE ProcessBlock
    <2>. DEFINE b == cursor + 1
                txs == IF processedBlocks[b] = header THEN {} ELSE txsAt[b]
                launched == LaunchedIn(txs)
    <2>1. /\ facts' = Upsert(facts, NewRows("trades", TradesIn(txs), b)
                                     \union NewRows("transfers", TransfersIn(txs), b))
          /\ candle' = MergedCandle(TradesIn(txs))
          /\ balance' = FoldedBalance(TransfersIn(txs))
          /\ launchBlock' = [t \in Tokens |-> IF t \in launched THEN b ELSE launchBlock[t]]
          /\ processedBlocks' = [processedBlocks EXCEPT ![b] = header]
          /\ checkpoint' = b
          /\ watchlist' = watchlist \union launched
          /\ pending' = pending \ {b}
          /\ cursor' = b
          /\ pc' = IF launched \subseteq watchlist THEN NextStop(b) ELSE "rescan"
          /\ header' = 0 /\ pc = "block"
          /\ UNCHANGED <<chainVars, heads, batchEnd, histVars>>
        BY <1>10 DEF ProcessBlock
    <2>2. b \in Heights /\ b <= batchEnd
        BY <2>1 DEF CursorOK
    <2>3. txs \subseteq Txs
        BY <2>2
    <2>. HIDE DEF txs
    <2>4. TradesIn(txs) \in SUBSET Txs /\ TransfersIn(txs) \in SUBSET Txs
        BY <2>3 DEF TradesIn, TransfersIn
    <2>5. launched \subseteq Tokens
        BY <2>3 DEF LaunchedIn
    <2>6. facts' \subseteq Rows
        BY <2>1, <2>2, <2>4, NewRowsType, UpsertType DEF Tables
    <2>7. candle' \in [Txs -> Nat] /\ balance' \in [Txs -> Nat]
        BY <2>1 DEF MergedCandle, FoldedBalance
    <2>. HIDE DEF launched
    <2>8. /\ launchBlock' \in [Tokens -> 0..MaxHeight]
          /\ processedBlocks' \in [Heights -> Hashes \union {NoHash}]
        BY <2>1, <2>2
    <2>9. CursorOK'
        BY <2>1, <2>2 DEF CursorOK, InBatch, NextStop
    <2>10. pc' \in PCs /\ header' \in Hashes
        BY <2>1 DEF NextStop
    <2>11. checkpoint' \in 0..MaxHeight /\ cursor' \in 0..MaxHeight
        BY <2>1, <2>2
    <2>12. watchlist' \subseteq Tokens /\ pending' \subseteq Heights
        BY <2>1, <2>5
    <2>. HIDE DEF b
    <2>. QED BY <2>1, <2>6, <2>7, <2>8, <2>9, <2>10, <2>11, <2>12
<1>11. CASE Rescan
    <2>1. InterestingBlocks(cursor + 1, batchEnd) \subseteq Heights
        BY DEF InterestingBlocks
    <2>2. pending' \subseteq Heights
        BY <1>11, <2>1 DEF Rescan
    <2>. QED BY <1>11, <2>2 DEF Rescan, NextStop, CursorOK, InBatch
<1>12. CASE PromoteConfirmations
    <2>1. facts' \subseteq Rows
        BY <1>12, PromotedType DEF PromoteConfirmations
    <2>. QED BY SMTT(30), <1>12, <2>1
             DEF PromoteConfirmations, LeaveLoopBody, NoHeads, CursorOK, InBatch, Rows
<1>13. CASE Crash
    BY <1>13 DEF Crash, LeaveLoopBody, NoHeads, CursorOK, InBatch
<1>. QED BY <1>1, <1>2, <1>3, <1>4, <1>5, <1>6, <1>7, <1>8, <1>9, <1>10, <1>11, <1>12,
            <1>13 DEF Runner

(* Every step keeps the types and the batch cursor at the checkpoint.      *)
LEMMA TypeStep == TypeInv /\ [Next]_vars => TypeInv'
<1>1. TypeInv /\ UNCHANGED vars => TypeInv'
    BY DEF TypeInv, TypeOK, CursorOK, InBatch, vars, chainVars, dbVars, factVars, memVars,
           histVars, Rows
<1>. QED BY <1>1, ChainTypeStep, RunnerTypeStep DEF Next

(* Every variable keeps its type and the batch cursor is the checkpoint, for *)
(* every window, range, anchor spacing, confirmation mode and chain.         *)
THEOREM TypeCorrect == Spec => []TypeInv
<1>. QED BY InitType, TypeStep, PTL DEF Spec

(* The types alone.                                                        *)
THEOREM TypeSafe == Spec => []TypeOK
<1>1. TypeInv => TypeOK
    BY DEF TypeInv
<1>. QED BY <1>1, TypeCorrect, PTL

-----------------------------------------------------------------------------
(* Facts and processed blocks. *)

(* The step that writes rows, as the later proofs use it: block cursor + 1 is *)
(* above everything indexed, and the rows it writes carry the header read.    *)
LEMMA ProcessBlockRows ==
    ASSUME TypeInv, FactsAnchored, ProcessBlock
    PROVE  LET b == cursor + 1
           IN  /\ b \in Heights /\ b <= batchEnd /\ b = checkpoint + 1
               /\ checkpoint' = b /\ processedBlocks' = [processedBlocks EXCEPT ![b] = header]
               /\ \E new \in SUBSET Rows :
                     /\ facts' = Upsert(facts, new)
                     /\ \A f \in new : /\ f.block = b /\ f.hash = header
                                       /\ f.tx \in txsAt[b]
                                       /\ f.status = ConfirmationStatus(b, heads)
                     /\ \A f, g \in new : f.table = g.table /\ f.tx = g.tx => f = g
<1>. DEFINE b == cursor + 1
            new == NewRows("trades", TradesIn(txsAt[b]), b)
                   \union NewRows("transfers", TransfersIn(txsAt[b]), b)
<1>1. b \in Heights /\ b <= batchEnd /\ b = checkpoint + 1
    <2>1. pc = "block"
        BY DEF ProcessBlock
    <2>2. cursor = checkpoint /\ cursor < batchEnd
        BY <2>1 DEF TypeInv, CursorOK, InBatch
    <2>3. cursor \in 0..MaxHeight /\ batchEnd \in 0..MaxHeight
        BY DEF TypeInv, TypeOK
    <2>. QED BY <2>2, <2>3, BoundsAssumption DEF Heights
<1>2. processedBlocks[b] # header
    BY <1>1, BoundsAssumption DEF FactsAnchored, TypeInv, TypeOK, Hashes, NoHash
<1>3. /\ facts' = Upsert(facts, new)
      /\ checkpoint' = b /\ processedBlocks' = [processedBlocks EXCEPT ![b] = header]
    BY <1>2 DEF ProcessBlock
<1>4. TradesIn(txsAt[b]) \in SUBSET txsAt[b] /\ TransfersIn(txsAt[b]) \in SUBSET txsAt[b]
    BY DEF TradesIn, TransfersIn
<1>5. txsAt[b] \in SUBSET Txs
    BY <1>1 DEF TypeInv, TypeOK
<1>6. new \in SUBSET Rows
    BY <1>1, <1>4, <1>5, NewRowsType DEF TypeInv, Tables
<1>7. \A f \in new : /\ f.block = b /\ f.hash = header /\ f.tx \in txsAt[b]
                     /\ f.status = ConfirmationStatus(b, heads)
    BY <1>4 DEF NewRows
<1>8. \A f, g \in new : f.table = g.table /\ f.tx = g.tx => f = g
    BY DEF NewRows
<1>. HIDE DEF new
<1>. QED BY <1>1, <1>3, <1>6, <1>7, <1>8

(* Every step keeps the rows under the stored hashes of their blocks.      *)
LEMMA AnchoredStep == TypeInv /\ FactsAnchored /\ [Next]_vars => FactsAnchored'
<1>. SUFFICES ASSUME TypeInv, FactsAnchored, [Next]_vars PROVE FactsAnchored'
    OBVIOUS
<1>1. CASE UNCHANGED <<checkpoint, processedBlocks, facts>>
    BY <1>1 DEF FactsAnchored
<1>2. CASE HandleReorg
    <2>1. PICK from \in Heights :
            /\ facts' = FactsBelow(from)
            /\ processedBlocks' =
                 [b \in Heights |-> IF b >= from THEN NoHash ELSE processedBlocks[b]]
            /\ checkpoint' = ReplayFrom(from)
        BY <1>2 DEF HandleReorg
    <2>2. \A f \in facts' : f \in facts /\ f.block < from /\ f.block \in Heights
        BY <2>1 DEF FactsBelow, TypeInv, TypeOK, Rows
    <2>. QED BY <2>1, <2>2 DEF FactsAnchored, ReplayFrom, Heights
<1>3. CASE AdvanceEmptyRange
    <2>1. PICK to \in cursor + 1..batchEnd :
            /\ processedBlocks' =
                 [b \in Heights |-> IF b \in EmptyRangeAnchors(cursor + 1, to)
                                    THEN hashAt[b] ELSE processedBlocks[b]]
            /\ checkpoint' = to
        BY <1>3 DEF AdvanceEmptyRange
    <2>2. cursor = checkpoint /\ facts' = facts
        BY <1>3 DEF AdvanceEmptyRange, TypeInv, CursorOK, InBatch, factVars
    <2>3. \A b \in EmptyRangeAnchors(cursor + 1, to) : checkpoint < b /\ b <= to
        BY <2>2 DEF EmptyRangeAnchors, TypeInv, TypeOK
    <2>4. \A f \in facts : f.block \in Heights
        BY DEF TypeInv, TypeOK, Rows
    <2>5. checkpoint \in Nat /\ to \in Nat /\ checkpoint < to
        BY <2>2 DEF TypeInv, TypeOK
    <2>. HIDE DEF EmptyRangeAnchors
    <2>. QED BY <2>1, <2>2, <2>3, <2>4, <2>5 DEF FactsAnchored, Heights
<1>4. CASE ProcessBlock
    <2>. DEFINE b == cursor + 1
    <2>1. PICK new \in SUBSET Rows :
            /\ facts' = Upsert(facts, new)
            /\ \A f \in new : f.block = b /\ f.hash = header
        BY <1>4, ProcessBlockRows
    <2>2. /\ b \in Heights /\ b = checkpoint + 1 /\ checkpoint' = b
          /\ processedBlocks' = [processedBlocks EXCEPT ![b] = header]
        BY <1>4, ProcessBlockRows
    <2>3. \A f \in facts' : f \in new \/ f \in facts
        BY <2>1 DEF Upsert
    <2>4. \A f \in facts : f.block \in Heights /\ f.block < b
        BY <2>2 DEF TypeInv, TypeOK, Rows, FactsAnchored, Heights
    <2>5. processedBlocks \in [Heights -> Hashes \union {NoHash}]
        BY DEF TypeInv, TypeOK
    <2>. HIDE DEF b
    <2>6. \A f \in facts' : f.block <= checkpoint' /\ processedBlocks'[f.block] = f.hash
        BY <2>1, <2>2, <2>3, <2>4, <2>5 DEF FactsAnchored, Heights
    <2>7. \A c \in Heights : processedBlocks'[c] # NoHash => c <= checkpoint'
        BY <2>2, <2>5 DEF FactsAnchored, Heights, TypeInv, TypeOK
    <2>. QED BY <2>6, <2>7 DEF FactsAnchored
<1>5. CASE PromoteConfirmations
    <2>1. UNCHANGED <<checkpoint, processedBlocks>> /\ facts' = Promoted(facts, heads)
        BY <1>5 DEF PromoteConfirmations
    <2>2. facts \in SUBSET Rows
        BY DEF TypeInv, TypeOK
    <2>3. \A f \in facts' : \E g \in facts : f.block = g.block /\ f.hash = g.hash
        BY <2>1, <2>2, PromotedRow
    <2>. QED BY <2>1, <2>3 DEF FactsAnchored
<1>. QED
    BY <1>1, <1>2, <1>3, <1>4, <1>5
       DEF Next, Chain, Runner, Mine, Reorg, Finalize, Boot, SampleHeads, NoReorg,
           ReorgThrows, Idle, FetchLogs, ReadHeader, Rescan, Crash, vars, dbVars, factVars

(* No replay, crash or reorg leaves a row above the checkpoint or under a    *)
(* block hash other than the one processed_blocks holds for its height.      *)
THEOREM AnchoredSafe == Spec => []FactsAnchored
<1>1. Init => FactsAnchored
    BY DEF Init, FactsAnchored
<1>. QED BY <1>1, AnchoredStep, TypeCorrect, PTL DEF Spec

(* One row per natural key (tx_hash, log_index), however often a transaction *)
(* moves between blocks or a batch is replayed.                              *)
OneRowPerKey ==
    \A f, g \in facts : f.table = g.table /\ f.tx = g.tx => f = g

(* Every step keeps one row per table and transaction.                     *)
LEMMA KeyStep == TypeInv /\ FactsAnchored /\ OneRowPerKey /\ [Next]_vars => OneRowPerKey'
<1>. SUFFICES ASSUME TypeInv, FactsAnchored, OneRowPerKey, [Next]_vars PROVE OneRowPerKey'
    OBVIOUS
<1>1. CASE facts' \subseteq facts
    BY <1>1 DEF OneRowPerKey
<1>2. CASE ProcessBlock
    <2>1. PICK new \in SUBSET Rows :
            /\ facts' = Upsert(facts, new)
            /\ \A f, g \in new : f.table = g.table /\ f.tx = g.tx => f = g
        BY <1>2, ProcessBlockRows
    <2>. QED BY <2>1 DEF OneRowPerKey, Upsert
<1>3. CASE PromoteConfirmations
    <2>1. facts' = Promoted(facts, heads)
        BY <1>3 DEF PromoteConfirmations
    <2>. QED BY <2>1 DEF OneRowPerKey, Promoted
<1>4. HandleReorg => facts' \subseteq facts
    BY DEF HandleReorg, FactsBelow
<1>. QED
    BY <1>1, <1>2, <1>3, <1>4
       DEF Next, Chain, Runner, Mine, Reorg, Finalize, Boot, SampleHeads, NoReorg,
           ReorgThrows, Idle, FetchLogs, AdvanceEmptyRange, ReadHeader, Rescan, Crash, vars,
           dbVars, factVars

(* The upsert on the natural key makes replayed and moved transactions      *)
(* replace their row instead of adding one.                                  *)
THEOREM KeySafe == Spec => []OneRowPerKey
<1>1. Init => OneRowPerKey
    BY DEF Init, OneRowPerKey
<1>. QED BY <1>1, KeyStep, AnchoredSafe, TypeCorrect, PTL DEF Spec

-----------------------------------------------------------------------------
(* Rows and the chain.  What makes a sparse comparison of hashes enough:     *)
(* a reorganisation reaches at most MaxDepth below a tip that no batch goes  *)
(* beyond, so an orphaned row is always within Window of the checkpoint the  *)
(* next reorg check starts from.                                             *)

Canonical(f) == f.hash = hashAt[f.block]

Checked == pc \notin {"boot", "heads", "reorg"}

(* A height no reorganisation reaches any more. *)
Stable(b) == b <= final \/ b + MaxDepth <= tip

(* The highest checkpoint the indexer may reach before its next reorg check. *)
ReachesAtMost(r) ==
    /\ checkpoint <= r
    /\ pc = "decide" => TargetHead(heads) <= r
    /\ InBatch => batchEnd <= r

BoundsOK ==
    /\ ReachesAtMost(tip)
    /\ heads \in [latest : 0..tip, safe : 0..tip, finalized : 0..tip]
    /\ Stable(heads.finalized)

HashesOK ==
    /\ \A b \in Heights : hashAt[b] <= forks
    /\ header <= forks /\ checkedForks <= forks
    /\ \A f \in facts : f.hash <= forks /\ (Canonical(f) => f.tx \in txsAt[f.block])

(* Every stale row the indexer holds bounds how far it may still go.         *)
DepthOK ==
    /\ \A f \in facts : ~Canonical(f) => ReachesAtMost(f.block + MaxDepth - 1)
    /\ pc = "block" /\ header # hashAt[cursor + 1]
          => ReachesAtMost(cursor + MaxDepth)

SettledOK ==
    Settled => /\ \A f \in facts : Canonical(f)
               /\ pc = "block" => header = hashAt[cursor + 1]

FinalOK ==
    /\ \A f \in facts : f.status = "finalized" => Canonical(f) /\ Stable(f.block)
    /\ Checked => \A f \in facts : f.block <= heads.finalized => Canonical(f)
    /\ pc = "block" /\ cursor + 1 <= heads.finalized => header = hashAt[cursor + 1]

ChainInv == BoundsOK /\ HashesOK /\ DepthOK /\ SettledOK /\ FinalOK
Inv == TypeInv /\ FactsAnchored /\ ChainInv

(* Below a height no reorganisation reaches none is reached either.        *)
LEMMA StableBelow ==
    ASSUME TypeInv, NEW a \in Nat, NEW b \in Nat, a <= b, Stable(b)
    PROVE  Stable(a)
BY BoundsAssumption DEF Stable, TypeInv, TypeOK

(* Without rows, headers and reorganisations there is nothing to relate.   *)
LEMMA ChainInvInit == Init => ChainInv
BY BoundsAssumption
   DEF Init, Stable, ChainInv, BoundsOK, ReachesAtMost, InBatch, NoHeads, HashesOK, DepthOK,
       SettledOK, FinalOK, Checked, Heights

(* Mining adds a block above everything the indexer knows. *)
LEMMA MineStep == Inv /\ Mine => ChainInv'
<1>. SUFFICES ASSUME Inv, Mine PROVE ChainInv'
    OBVIOUS
<1>1. /\ tip \in 0..MaxHeight /\ tip < MaxHeight /\ tip' = tip + 1
      /\ hashAt \in [Heights -> Hashes] /\ hashAt' = [hashAt EXCEPT ![tip + 1] = forks]
      /\ forks \in Hashes /\ forks' = forks /\ final' = final
      /\ UNCHANGED <<dbVars, memVars, histVars>>
    BY DEF Mine, Inv, TypeInv, TypeOK
<1>2. PICK txs \in BlockTxs : txsAt' = [txsAt EXCEPT ![tip + 1] = txs]
    BY DEF Mine
<1>3. /\ facts' = facts /\ pc' = pc /\ cursor' = cursor /\ batchEnd' = batchEnd
      /\ heads' = heads /\ header' = header /\ checkpoint' = checkpoint
      /\ checkedForks' = checkedForks
    BY <1>1 DEF dbVars, factVars, memVars, histVars
<1>4. \A f \in facts : f.block \in Heights /\ f.block <= tip
    BY <1>1 DEF Inv, TypeInv, TypeOK, Rows, FactsAnchored, ChainInv, BoundsOK, ReachesAtMost,
               Heights
<1>5. \A f \in facts : hashAt'[f.block] = hashAt[f.block] /\ txsAt'[f.block] = txsAt[f.block]
    BY <1>1, <1>2, <1>4 DEF Heights, Inv, TypeInv, TypeOK
<1>6. \A f \in facts : Canonical(f)' <=> Canonical(f)
    BY <1>5 DEF Canonical
<1>7. pc = "block" => hashAt'[cursor + 1] = hashAt[cursor + 1]
    BY <1>1 DEF Inv, TypeInv, TypeOK, CursorOK, InBatch, ChainInv, BoundsOK, ReachesAtMost,
               Heights
<1>8. TargetHead(heads)' = TargetHead(heads)
    BY <1>3 DEF TargetHead
<1>9. \A r : ReachesAtMost(r)' <=> ReachesAtMost(r)
    BY <1>3, <1>8 DEF ReachesAtMost, InBatch
<1>10. /\ \A b \in Nat : Stable(b) => Stable(b)'
       /\ heads.finalized \in Nat /\ \A f \in facts : f.block \in Nat
       /\ heads.finalized' = heads.finalized
    BY <1>1, <1>3, <1>4, BoundsAssumption
       DEF Stable, Heights, Inv, ChainInv, BoundsOK, TypeInv, TypeOK
<1>11. BoundsOK'
    <2>1. ReachesAtMost(tip')
        <3>1. TargetHead(heads) \in 0..tip
            BY <1>1, TargetHeadType DEF Inv, ChainInv, BoundsOK, TypeInv, TypeOK
        <3>. QED BY <1>1, <3>1 DEF Inv, ChainInv, BoundsOK, TypeInv, TypeOK, ReachesAtMost
    <2>2. ReachesAtMost(tip)'
        BY <1>3, <1>8, <2>1 DEF ReachesAtMost, InBatch
    <2>3. heads' \in [latest : 0..tip', safe : 0..tip', finalized : 0..tip']
        BY <1>1, <1>3 DEF Inv, ChainInv, BoundsOK
    <2>. QED BY <1>1, <1>3, <1>10, <2>2, <2>3 DEF BoundsOK, Inv, ChainInv
<1>12. HashesOK'
    BY <1>1, <1>3, <1>5, <1>6 DEF Inv, ChainInv, HashesOK, Hashes, Heights
<1>13. DepthOK'
    BY <1>3, <1>6, <1>7, <1>9 DEF Inv, ChainInv, DepthOK
<1>14. SettledOK'
    BY <1>1, <1>3, <1>6, <1>7 DEF Inv, ChainInv, SettledOK, Settled
<1>15. FinalOK'
    BY <1>1, <1>3, <1>6, <1>7, <1>10 DEF Inv, ChainInv, FinalOK, Checked
<1>. QED BY <1>11, <1>12, <1>13, <1>14, <1>15 DEF ChainInv

(* The target of the sampled heads is not above the tip.                   *)
LEMMA TargetWithinTip ==
    ASSUME Inv
    PROVE  TargetHead(heads) \in 0..tip
<1>1. tip \in Nat /\ heads \in [latest : 0..tip, safe : 0..tip, finalized : 0..tip]
    BY DEF Inv, ChainInv, BoundsOK, TypeInv, TypeOK
<1>. QED BY <1>1, TargetHeadType

(* A bound on what the indexer reaches may be relaxed.                     *)
LEMMA ReachMonotone ==
    ASSUME Inv, NEW r \in Int, NEW s \in Int, ReachesAtMost(r), r <= s
    PROVE  ReachesAtMost(s)
<1>1. checkpoint \in Int /\ batchEnd \in Int /\ TargetHead(heads) \in Int
    BY TargetWithinTip DEF Inv, TypeInv, TypeOK
<1>. QED BY <1>1 DEF ReachesAtMost

(* A block under way is a height of the batch.                             *)
LEMMA BlockInHeights ==
    ASSUME TypeInv, pc = "block"
    PROVE  cursor \in Nat /\ cursor + 1 \in Heights /\ cursor + 1 <= batchEnd
<1>1. cursor < batchEnd
    BY DEF TypeInv, CursorOK
<1>2. cursor \in 0..MaxHeight /\ batchEnd \in 0..MaxHeight
    BY DEF TypeInv, TypeOK
<1>. QED BY <1>1, <1>2, BoundsAssumption DEF Heights

(* A reorganisation orphans only rows less than MaxDepth below the tip, and *)
(* whatever it orphans is not settled.                                       *)
LEMMA ReorgStep == Inv /\ Reorg => ChainInv'
<1>. SUFFICES ASSUME Inv, Reorg PROVE ChainInv'
    OBVIOUS
<1>1. PICK h \in Heights :
        /\ final < h /\ h <= tip /\ tip - h < MaxDepth
        /\ \E new \in [h..tip -> BlockTxs] :
             txsAt' = [b \in Heights |-> IF b \in h..tip THEN new[b] ELSE txsAt[b]]
        /\ hashAt' = [b \in Heights |-> IF b \in h..tip THEN forks + 1 ELSE hashAt[b]]
    BY DEF Reorg
<1>2. /\ tip' = tip /\ final' = final /\ forks' = forks + 1
      /\ facts' = facts /\ pc' = pc /\ cursor' = cursor /\ batchEnd' = batchEnd
      /\ heads' = heads /\ header' = header /\ checkpoint' = checkpoint
      /\ checkedForks' = checkedForks
    BY DEF Reorg, dbVars, factVars, memVars, histVars
<1>3. /\ tip \in Nat /\ final \in Nat /\ forks \in Nat /\ MaxDepth \in Nat
      /\ header \in Nat /\ checkedForks \in Nat
      /\ hashAt \in [Heights -> Nat]
      /\ \A f \in facts : f.block \in Heights /\ f.hash \in Nat
    BY BoundsAssumption DEF Inv, TypeInv, TypeOK, Rows, Hashes
<1>4. \A b \in Heights : b < h => hashAt'[b] = hashAt[b] /\ txsAt'[b] = txsAt[b]
    BY <1>1 DEF Heights
<1>5. \A b \in Heights : \/ hashAt'[b] = hashAt[b] /\ txsAt'[b] = txsAt[b]
                         \/ hashAt'[b] = forks + 1 /\ h <= b
    <2>1. ASSUME NEW b \in Heights, b \in h..tip PROVE hashAt'[b] = forks + 1 /\ h <= b
        BY <1>1, <2>1 DEF Heights
    <2>2. ASSUME NEW b \in Heights, b \notin h..tip
          PROVE  hashAt'[b] = hashAt[b] /\ txsAt'[b] = txsAt[b]
        BY <1>1, <2>2
    <2>. QED BY <2>1, <2>2
<1>6. \A b \in Heights : h <= b => tip <= b + MaxDepth - 1
    BY <1>1, <1>3 DEF Heights
<1>7. TargetHead(heads)' = TargetHead(heads)
    BY <1>2 DEF TargetHead
<1>8. \A r : ReachesAtMost(r)' <=> ReachesAtMost(r)
    BY <1>2, <1>7 DEF ReachesAtMost, InBatch
<1>9. \A b \in Heights : h <= b => ReachesAtMost(b + MaxDepth - 1)
    BY <1>3, <1>6, ReachMonotone DEF Inv, ChainInv, BoundsOK, Heights
<1>10. \A f \in facts : Canonical(f)' => Canonical(f) /\ txsAt'[f.block] = txsAt[f.block]
    BY <1>3, <1>5 DEF Canonical, Inv, ChainInv, HashesOK
<1>11. \A f \in facts : Canonical(f) /\ ~Canonical(f)' => h <= f.block
    BY <1>3, <1>5 DEF Canonical
<1>12. BoundsOK'
    <2>1. ReachesAtMost(tip) /\ heads \in [latest : 0..tip, safe : 0..tip, finalized : 0..tip]
        BY DEF Inv, ChainInv, BoundsOK
    <2>. QED BY <1>2, <1>7, <2>1 DEF BoundsOK, ReachesAtMost, InBatch, Stable, Inv, ChainInv
<1>13. HashesOK'
    BY <1>2, <1>3, <1>5, <1>10 DEF Inv, ChainInv, HashesOK
<1>14. DepthOK'
    <2>1. ASSUME NEW f \in facts, ~Canonical(f)' PROVE ReachesAtMost(f.block + MaxDepth - 1)
        BY <2>1, <1>3, <1>9, <1>11 DEF Inv, ChainInv, DepthOK
    <2>2. ASSUME pc = "block", header # hashAt'[cursor + 1]
          PROVE  ReachesAtMost(cursor + MaxDepth)
        <3>1. cursor + 1 \in Heights /\ cursor \in Nat
            BY <2>2, BlockInHeights DEF Inv
        <3>2. CASE hashAt'[cursor + 1] = hashAt[cursor + 1]
            BY <2>2, <3>2 DEF Inv, ChainInv, DepthOK
        <3>3. CASE h <= cursor + 1
            <4>1. ReachesAtMost((cursor + 1) + MaxDepth - 1)
                BY <3>1, <3>3, <1>9
            <4>2. (cursor + 1) + MaxDepth - 1 = cursor + MaxDepth
                BY <3>1, <1>3
            <4>. QED BY <4>1, <4>2
        <3>. QED BY <3>1, <3>2, <3>3, <1>5
    <2>. QED BY <1>2, <1>8, <2>1, <2>2 DEF DepthOK
<1>15. SettledOK'
    BY <1>2, <1>3 DEF SettledOK, Settled, Inv, ChainInv, HashesOK
<1>16. FinalOK'
    <2>0. \A b \in Nat : Stable(b) => b < h
        BY <1>1, <1>3 DEF Stable, Heights
    <2>1. \A f \in facts : Stable(f.block) => (Canonical(f) => Canonical(f)')
        BY <1>1, <1>3, <1>11, <2>0 DEF Heights
    <2>2. Stable(heads.finalized) /\ heads.finalized \in Nat /\ Inv
        BY <1>3 DEF Inv, ChainInv, BoundsOK
    <2>3. \A f \in facts : f.block <= heads.finalized => Stable(f.block)
        BY <1>3, <2>2, StableBelow DEF Heights, Inv
    <2>4. pc = "block" /\ cursor + 1 <= heads.finalized
            => hashAt'[cursor + 1] = hashAt[cursor + 1]
        <3>1. pc = "block" => cursor + 1 \in Heights
            BY BlockInHeights DEF Inv
        <3>. QED BY <3>1, <1>1, <1>3, <1>4, <2>0, <2>2 DEF Heights
    <2>5. FinalOK
        BY DEF Inv, ChainInv
    <2>6. \A b : Stable(b)' <=> Stable(b)
        BY <1>2 DEF Stable
    <2>. QED BY <1>2, <2>1, <2>3, <2>4, <2>5, <2>6 DEF FinalOK, Checked
<1>. QED BY <1>12, <1>13, <1>14, <1>15, <1>16 DEF ChainInv

(* Finalizing only makes more heights stable.                              *)
LEMMA FinalizeStep == Inv /\ Finalize => ChainInv'
<1>. SUFFICES ASSUME Inv, Finalize PROVE ChainInv'
    OBVIOUS
<1>1. /\ tip' = tip /\ hashAt' = hashAt /\ txsAt' = txsAt /\ forks' = forks
      /\ final < final' /\ final' \in Nat /\ final \in Nat
      /\ facts' = facts /\ pc' = pc /\ cursor' = cursor /\ batchEnd' = batchEnd
      /\ heads' = heads /\ header' = header /\ checkpoint' = checkpoint
      /\ checkedForks' = checkedForks
    BY DEF Finalize, dbVars, factVars, memVars, histVars, Inv, TypeInv, TypeOK, Heights
<1>2. \A f \in facts : f.block \in Nat
    BY DEF Inv, TypeInv, TypeOK, Rows, Heights
<1>3. heads' \in [latest : 0..tip', safe : 0..tip', finalized : 0..tip']
    BY <1>1 DEF Inv, ChainInv, BoundsOK
<1>4. /\ \A b \in Nat : Stable(b) => Stable(b)'
       /\ heads.finalized \in Nat
    BY <1>1 DEF Stable, Inv, ChainInv, BoundsOK, TypeInv, TypeOK
<1>5. TargetHead(heads)' = TargetHead(heads)
    BY <1>1 DEF TargetHead
<1>6. \A r : ReachesAtMost(r)' <=> ReachesAtMost(r)
    BY <1>1, <1>5 DEF ReachesAtMost, InBatch
<1>7. \A f \in facts : Canonical(f)' <=> Canonical(f)
    BY <1>1 DEF Canonical
<1>8. BoundsOK'
    <2>1. ReachesAtMost(tip)
        BY DEF Inv, ChainInv, BoundsOK
    <2>2. Stable(heads.finalized)'
        BY <1>1, <1>4 DEF Inv, ChainInv, BoundsOK, Stable
    <2>. QED BY <1>1, <1>3, <1>5, <2>1, <2>2 DEF BoundsOK, ReachesAtMost, InBatch
<1>9. HashesOK' /\ DepthOK' /\ SettledOK'
    BY <1>1, <1>6, <1>7 DEF Inv, ChainInv, HashesOK, DepthOK, SettledOK, Settled
<1>10. FinalOK'
    BY <1>1, <1>2, <1>7, <1>4 DEF Inv, ChainInv, FinalOK, Checked
<1>. QED BY <1>8, <1>9, <1>10 DEF ChainInv

(* A step that leaves chain and facts alone, reads no header, and lets the  *)
(* indexer reach no further than before.                                     *)
LEMMA QuietStep ==
    ASSUME Inv, UNCHANGED <<chainVars, facts, checkedForks>>,
           pc' # "block", header' <= forks,
           heads' \in [latest : 0..tip, safe : 0..tip, finalized : 0..tip],
           Stable(heads'.finalized),
           \A r \in Int : ReachesAtMost(r) => ReachesAtMost(r)',
           Checked' => Checked /\ heads' = heads
    PROVE  ChainInv'
<1>1. /\ tip' = tip /\ hashAt' = hashAt /\ txsAt' = txsAt /\ forks' = forks /\ final' = final
      /\ facts' = facts /\ checkedForks' = checkedForks
    BY DEF chainVars
<1>2. tip \in Int /\ MaxDepth \in Nat /\ \A f \in facts : f.block \in Nat
    BY BoundsAssumption DEF Inv, TypeInv, TypeOK, Rows, Heights
<1>3. \A f \in facts : Canonical(f)' <=> Canonical(f)
    BY <1>1 DEF Canonical
<1>4. \A b : Stable(b)' <=> Stable(b)
    BY <1>1 DEF Stable
<1>5. BoundsOK'
    <2>1. \A r \in Int : r = tip => ReachesAtMost(r)'
        BY DEF Inv, ChainInv, BoundsOK
    <2>2. Stable(heads.finalized)'
        BY <1>1 DEF Stable
    <2>. QED BY <1>1, <1>2, <2>1, <2>2 DEF BoundsOK, ReachesAtMost
<1>6. HashesOK'
    BY <1>1, <1>3 DEF Inv, ChainInv, HashesOK
<1>7. DepthOK'
    <2>1. \A f \in facts : f.block + MaxDepth - 1 \in Int
        BY <1>2
    <2>2. \A f \in facts : ~Canonical(f) => ReachesAtMost(f.block + MaxDepth - 1)'
        BY <2>1 DEF Inv, ChainInv, DepthOK
    <2>. QED BY <1>1, <1>3, <2>2 DEF DepthOK, ReachesAtMost
<1>8. SettledOK'
    BY <1>1, <1>3 DEF Inv, ChainInv, SettledOK, Settled
<1>9. FinalOK'
    BY <1>1, <1>3, <1>4 DEF Inv, ChainInv, FinalOK
<1>. QED BY <1>5, <1>6, <1>7, <1>8, <1>9 DEF ChainInv

(* A row the chain no longer has at its height is seen by the next check.   *)
LEMMA OrphanMismatched ==
    ASSUME Inv, NEW f \in facts, ~Canonical(f)
    PROVE  f.block \in Mismatched
<1>1. f.block \in Heights /\ f.hash \in Hashes /\ checkpoint \in Nat
    BY DEF Inv, TypeInv, TypeOK, Rows
<1>2. f.block <= checkpoint /\ processedBlocks[f.block] = f.hash
    BY DEF Inv, FactsAnchored
<1>3. checkpoint <= f.block + MaxDepth - 1
    BY DEF Inv, ChainInv, DepthOK, ReachesAtMost
<1>4. checkpoint - Window <= f.block
    BY <1>1, <1>3, ConfigAssumption, BoundsAssumption DEF Heights
<1>5. f.hash # NoHash /\ f.hash # hashAt[f.block]
    BY <1>1, BoundsAssumption DEF Hashes, NoHash, Canonical
<1>. QED BY <1>1, <1>2, <1>4, <1>5 DEF Mismatched

(* A completed reorg check leaves no orphaned row.                           *)
LEMMA CheckStep == Inv /\ (NoReorg \/ HandleReorg) => ChainInv'
<1>. SUFFICES ASSUME Inv, NoReorg \/ HandleReorg PROVE ChainInv'
    OBVIOUS
<1>1. /\ tip' = tip /\ hashAt' = hashAt /\ txsAt' = txsAt /\ forks' = forks /\ final' = final
      /\ heads' = heads /\ header' = header /\ pc' = "decide" /\ checkedForks' = forks
    BY DEF NoReorg, HandleReorg, chainVars
<1>2. facts' \subseteq facts
    BY DEF NoReorg, HandleReorg, FactsBelow, dbVars, factVars
<1>3. checkpoint' <= checkpoint
    <2>1. CASE NoReorg
        BY <2>1 DEF NoReorg, dbVars, Inv, TypeInv, TypeOK
    <2>2. CASE HandleReorg
        <3>1. PICK from \in Heights : FirstMismatch(from) /\ checkpoint' = ReplayFrom(from)
            BY <2>2 DEF HandleReorg
        <3>2. from <= checkpoint
            BY <3>1 DEF FirstMismatch, Mismatched
        <3>. QED BY <3>1, <3>2 DEF ReplayFrom, Heights, Inv, TypeInv, TypeOK
    <2>. QED BY <2>1, <2>2
<1>4. \A f \in facts' : Canonical(f)
    <2>1. CASE NoReorg
        BY <1>2, <2>1, OrphanMismatched DEF NoReorg
    <2>2. CASE HandleReorg
        <3>1. PICK from \in Heights : FirstMismatch(from) /\ facts' = FactsBelow(from)
            BY <2>2 DEF HandleReorg
        <3>2. SUFFICES ASSUME NEW f \in facts', ~Canonical(f) PROVE FALSE
            OBVIOUS
        <3>3. f \in facts /\ f.block < from
            BY <3>1 DEF FactsBelow
        <3>4. from <= f.block
            BY <3>1, <3>2, <3>3, OrphanMismatched DEF FirstMismatch
        <3>. QED BY <3>3, <3>4 DEF Heights, Inv, TypeInv, TypeOK, Rows
    <2>. QED BY <2>1, <2>2
<1>5. \A f \in facts' : Canonical(f)'
    BY <1>1, <1>4 DEF Canonical
<1>6. TargetHead(heads)' = TargetHead(heads)
    BY <1>1 DEF TargetHead
<1>7. BoundsOK'
    <2>1. checkpoint' <= tip
        <3>1. checkpoint <= tip
            BY DEF Inv, ChainInv, BoundsOK, ReachesAtMost
        <3>2. checkpoint' \in Int /\ checkpoint \in Int /\ tip \in Int
            BY <1>1, TypeStep DEF Inv, TypeInv, TypeOK, Next, Runner
        <3>. QED BY <1>3, <3>1, <3>2
    <2>2. heads \in [latest : 0..tip, safe : 0..tip, finalized : 0..tip]
        BY DEF Inv, ChainInv, BoundsOK
    <2>3. TargetHead(heads) <= tip
        BY TargetWithinTip
    <2>4. Stable(heads.finalized)'
        BY <1>1 DEF Stable, Inv, ChainInv, BoundsOK
    <2>. QED BY <1>1, <1>6, <2>1, <2>2, <2>3, <2>4 DEF BoundsOK, ReachesAtMost, InBatch
<1>8. HashesOK'
    BY <1>1, <1>2, <1>4 DEF Inv, ChainInv, HashesOK, Inv, TypeInv, TypeOK, Hashes
<1>9. DepthOK' /\ SettledOK'
    BY <1>1, <1>5 DEF DepthOK, SettledOK
<1>10. FinalOK'
    BY <1>1, <1>2, <1>5 DEF Inv, ChainInv, FinalOK, Stable
<1>. QED BY <1>7, <1>8, <1>9, <1>10 DEF ChainInv

(* The runner's steps that write no row and read no header are quiet.      *)
LEMMA QuietRunnerStep ==
    Inv /\ (Boot \/ SampleHeads \/ ReorgThrows \/ Idle \/ FetchLogs \/ AdvanceEmptyRange
             \/ Rescan \/ Crash)
      => ChainInv'
<1>. SUFFICES ASSUME Inv,
                     Boot \/ SampleHeads \/ ReorgThrows \/ Idle \/ FetchLogs
                          \/ AdvanceEmptyRange \/ Rescan \/ Crash
              PROVE  ChainInv'
    OBVIOUS
<1>1. /\ tip \in Nat /\ final \in 0..tip /\ header \in Nat /\ forks \in Nat
      /\ checkpoint \in Nat /\ cursor \in Nat /\ batchEnd \in Nat
      /\ heads \in [latest : 0..tip, safe : 0..tip, finalized : 0..tip]
      /\ header <= forks /\ CursorOK
    BY DEF Inv, TypeInv, TypeOK, Hashes, ChainInv, BoundsOK, HashesOK
<1>2. /\ NoHeads \in [latest : 0..tip, safe : 0..tip, finalized : 0..tip]
      /\ Stable(NoHeads.finalized) /\ Stable(heads.finalized)
    BY <1>1 DEF NoHeads, Stable, Inv, ChainInv, BoundsOK
<1>3. CASE Boot
    <2>1. /\ pc = "boot" /\ pc' = "heads" /\ heads' = heads /\ header' = header
          /\ checkpoint' = checkpoint /\ UNCHANGED <<chainVars, facts, checkedForks>>
        BY <1>3 DEF Boot, dbVars, factVars, histVars
    <2>2. \A r \in Int : ReachesAtMost(r) => ReachesAtMost(r)'
        BY <2>1 DEF ReachesAtMost, InBatch
    <2>. QED BY <1>1, <1>2, <2>1, <2>2, QuietStep DEF Checked
<1>4. CASE SampleHeads
    <2>1. /\ pc' = "reorg" /\ header' = header
          /\ checkpoint' = checkpoint /\ UNCHANGED <<chainVars, facts, checkedForks>>
        BY <1>4 DEF SampleHeads, dbVars, factVars, histVars
    <2>2. /\ heads' \in [latest : 0..tip, safe : 0..tip, finalized : 0..tip]
          /\ Stable(heads'.finalized)
        <3>1. LagBehind(ConfirmLag) \in 0..tip /\ LagBehind(2 * ConfirmLag) \in 0..tip
            BY LagBehindType, ConfigAssumption DEF Inv, TypeInv
        <3>2. Stable(final) /\ Stable(LagBehind(2 * ConfirmLag))
            BY <1>1, ConfigAssumption, BoundsAssumption DEF LagBehind, Stable
        <3>. QED BY <1>1, <1>4, <3>1, <3>2 DEF SampleHeads
    <2>3. \A r \in Int : ReachesAtMost(r) => ReachesAtMost(r)'
        BY <2>1 DEF ReachesAtMost, InBatch
    <2>. QED BY <1>1, <2>1, <2>2, <2>3, QuietStep DEF Checked
<1>5. ASSUME LeaveLoopBody, pc' \in {"boot", "heads"}, checkpoint' = checkpoint,
             UNCHANGED <<chainVars, facts, checkedForks>>
      PROVE  ChainInv'
    <2>1. \A r \in Int : ReachesAtMost(r) => ReachesAtMost(r)'
        BY <1>5 DEF ReachesAtMost, InBatch
    <2>2. pc' # "block" /\ ~Checked'
        BY <1>5 DEF Checked
    <2>. QED BY <1>1, <1>2, <1>5, <2>1, <2>2, QuietStep DEF LeaveLoopBody
<1>6. CASE ReorgThrows \/ Crash
    BY <1>5, <1>6 DEF ReorgThrows, Crash, dbVars, factVars, histVars
<1>7. CASE Idle
    <2>1. /\ pc = "decide" /\ checkpoint' = checkpoint
          /\ UNCHANGED <<chainVars, facts, checkedForks>>
          /\ \/ pc' = "heads" /\ LeaveLoopBody
             \/ pc' = "promote" /\ heads' = heads /\ header' = header
        BY <1>7, Zenon DEF Idle, dbVars, factVars, histVars
    <2>2. CASE pc' = "heads" /\ LeaveLoopBody
        BY <2>1, <2>2, <1>5
    <2>3. CASE pc' = "promote" /\ heads' = heads /\ header' = header
        <3>1. \A r \in Int : ReachesAtMost(r) => ReachesAtMost(r)'
            BY <2>1, <2>3 DEF ReachesAtMost, InBatch
        <3>. QED BY <1>1, <1>2, <2>1, <2>3, <3>1, QuietStep DEF Checked
    <2>. QED BY <2>1, <2>2, <2>3
<1>8. CASE FetchLogs
    <2>1. /\ pc = "decide" /\ pc' = "walk" /\ heads' = heads /\ header' = header
          /\ checkpoint' = checkpoint /\ UNCHANGED <<chainVars, facts, checkedForks>>
          /\ batchEnd' = BatchEnd
        BY <1>8 DEF FetchLogs, dbVars, factVars, histVars
    <2>2. BatchEnd <= TargetHead(heads)
        BY <1>1, TargetWithinTip, ConfigAssumption DEF BatchEnd
    <2>3. \A r \in Int : ReachesAtMost(r) => ReachesAtMost(r)'
        <3>1. batchEnd' \in Int /\ TargetHead(heads) \in Int
            BY <1>1, <2>1, TargetWithinTip, ConfigAssumption DEF BatchEnd
        <3>. QED BY <2>1, <2>2, <3>1 DEF ReachesAtMost, InBatch
    <2>. QED BY <1>1, <1>2, <2>1, <2>3, QuietStep DEF Checked
<1>9. CASE AdvanceEmptyRange
    <2>1. PICK to \in cursor + 1..batchEnd : checkpoint' = to /\ pc' = NextStop(to)
        BY <1>9 DEF AdvanceEmptyRange
    <2>2. /\ pc = "walk" /\ heads' = heads /\ header' = header /\ batchEnd' = batchEnd
          /\ UNCHANGED <<chainVars, facts, checkedForks>>
        BY <1>9 DEF AdvanceEmptyRange, factVars, histVars
    <2>3. pc' \in {"walk", "promote"}
        BY <2>1 DEF NextStop
    <2>4. \A r \in Int : ReachesAtMost(r) => ReachesAtMost(r)'
        BY <1>1, <2>1, <2>2, <2>3 DEF ReachesAtMost, InBatch
    <2>. QED BY <1>1, <1>2, <2>2, <2>3, <2>4, QuietStep DEF Checked
<1>10. CASE Rescan
    <2>1. /\ pc = "rescan" /\ pc' \in {"walk", "promote"} /\ heads' = heads
          /\ header' = header /\ batchEnd' = batchEnd /\ checkpoint' = checkpoint
          /\ UNCHANGED <<chainVars, facts, checkedForks>>
        BY <1>10 DEF Rescan, NextStop, dbVars, factVars, histVars
    <2>2. \A r \in Int : ReachesAtMost(r) => ReachesAtMost(r)'
        BY <2>1 DEF ReachesAtMost, InBatch
    <2>. QED BY <1>1, <1>2, <2>1, <2>2, QuietStep DEF Checked
<1>. QED BY <1>3, <1>4, <1>6, <1>7, <1>8, <1>9, <1>10

(* The header read is canonical at that moment. *)
LEMMA ReadHeaderStep == Inv /\ ReadHeader => ChainInv'
<1>. SUFFICES ASSUME Inv, ReadHeader PROVE ChainInv'
    OBVIOUS
<1>1. /\ pc = "walk" /\ pc' = "block" /\ header' = hashAt[cursor + 1]
      /\ tip' = tip /\ hashAt' = hashAt /\ txsAt' = txsAt /\ forks' = forks /\ final' = final
      /\ facts' = facts /\ checkpoint' = checkpoint /\ heads' = heads /\ cursor' = cursor
      /\ batchEnd' = batchEnd /\ checkedForks' = checkedForks
    BY DEF ReadHeader, chainVars, dbVars, factVars, histVars
<1>2. cursor + 1 \in Heights
    BY DEF ReadHeader, Inv, TypeInv, TypeOK
<1>3. TargetHead(heads)' = TargetHead(heads)
    BY <1>1 DEF TargetHead
<1>4. \A r : ReachesAtMost(r)' <=> ReachesAtMost(r)
    BY <1>1, <1>3 DEF ReachesAtMost, InBatch
<1>5. \A f \in facts : Canonical(f)' <=> Canonical(f)
    BY <1>1 DEF Canonical
<1>6. BoundsOK'
    BY <1>1, <1>3 DEF Inv, ChainInv, BoundsOK, ReachesAtMost, InBatch, Stable
<1>7. HashesOK'
    BY <1>1, <1>2, <1>5 DEF Inv, ChainInv, HashesOK
<1>8. DepthOK' /\ SettledOK'
    BY <1>1, <1>4, <1>5 DEF Inv, ChainInv, DepthOK, SettledOK, Settled
<1>9. FinalOK'
    BY <1>1, <1>5 DEF Inv, ChainInv, FinalOK, Checked, Stable
<1>. QED BY <1>6, <1>7, <1>8, <1>9 DEF ChainInv

(* New rows carry the header; if it went stale since it was read, they lie   *)
(* deep enough for the next check to find them.                              *)
LEMMA ProcessBlockStep == Inv /\ ProcessBlock => ChainInv'
<1>. SUFFICES ASSUME Inv, ProcessBlock PROVE ChainInv'
    OBVIOUS
<1>. DEFINE b == cursor + 1
<1>1. PICK new \in SUBSET Rows :
        /\ facts' = Upsert(facts, new)
        /\ \A f \in new : /\ f.block = b /\ f.hash = header /\ f.tx \in txsAt[b]
                          /\ f.status = ConfirmationStatus(b, heads)
    BY ProcessBlockRows DEF Inv
<1>2. b \in Heights /\ b <= batchEnd /\ b = checkpoint + 1 /\ checkpoint' = b
    BY ProcessBlockRows DEF Inv
<1>3. /\ pc = "block" /\ pc' \in {"walk", "rescan", "promote"}
      /\ tip' = tip /\ hashAt' = hashAt /\ txsAt' = txsAt /\ forks' = forks /\ final' = final
      /\ heads' = heads /\ header' = 0 /\ batchEnd' = batchEnd /\ checkedForks' = checkedForks
    BY DEF ProcessBlock, NextStop, chainVars, histVars
<1>4. /\ b \in Nat /\ batchEnd \in Nat /\ checkpoint \in Nat /\ MaxDepth \in Nat
      /\ tip \in Nat /\ final \in Nat /\ forks \in Nat /\ cursor \in Nat
      /\ heads.finalized \in Nat /\ Stable(heads.finalized)
      /\ b = cursor + 1
    BY <1>2, BoundsAssumption DEF Heights, Inv, TypeInv, TypeOK, Hashes, ChainInv, BoundsOK
<1>. HIDE DEF b
<1>5. \A f \in facts' : f \in facts \/ f \in new
    BY <1>1 DEF Upsert
<1>6. \A f \in new : Canonical(f) <=> header = hashAt[b]
    BY <1>1 DEF Canonical
<1>7. \A f : Canonical(f)' <=> Canonical(f)
    BY <1>3 DEF Canonical
<1>8. \A r \in Int : ReachesAtMost(r) => ReachesAtMost(r)'
    BY <1>2, <1>3, <1>4 DEF ReachesAtMost, InBatch
<1>9. \A f \in facts' : f.block \in Nat
    BY <1>1, <1>5, <1>4 DEF Inv, TypeInv, TypeOK, Rows, Heights
<1>10. BoundsOK'
    <2>1. \A r \in Int : r = tip => ReachesAtMost(r)'
        BY <1>8 DEF Inv, ChainInv, BoundsOK
    <2>2. heads' \in [latest : 0..tip', safe : 0..tip', finalized : 0..tip']
        BY <1>3 DEF Inv, ChainInv, BoundsOK
    <2>3. Stable(heads.finalized)'
        BY <1>3, <1>4 DEF Stable
    <2>. QED BY <1>3, <1>4, <2>1, <2>2, <2>3 DEF BoundsOK, ReachesAtMost
<1>11. HashesOK'
    <2>1. \A f \in new : f.hash <= forks /\ f.tx \in txsAt[f.block]
        BY <1>1 DEF Inv, ChainInv, HashesOK
    <2>2. \A f \in facts : f.hash <= forks /\ (Canonical(f) => f.tx \in txsAt[f.block])
        BY DEF Inv, ChainInv, HashesOK
    <2>3. /\ \A c \in Heights : hashAt[c] <= forks
          /\ checkedForks <= forks /\ 0 <= forks
        BY <1>4 DEF Inv, ChainInv, HashesOK
    <2>. QED BY <1>3, <1>5, <1>7, <2>1, <2>2, <2>3 DEF HashesOK
<1>12. DepthOK'
    <2>1. \A f \in facts' : ~Canonical(f) => ReachesAtMost(f.block + MaxDepth - 1)
        <3>1. ASSUME NEW f \in new, ~Canonical(f)
              PROVE  ReachesAtMost(f.block + MaxDepth - 1)
            <4>1. ReachesAtMost(cursor + MaxDepth)
                BY <1>3, <1>4, <1>6, <3>1 DEF Inv, ChainInv, DepthOK
            <4>2. f.block + MaxDepth - 1 = cursor + MaxDepth
                BY <1>1, <1>4
            <4>. QED BY <4>1, <4>2
        <3>2. \A f \in facts : ~Canonical(f) => ReachesAtMost(f.block + MaxDepth - 1)
            BY DEF Inv, ChainInv, DepthOK
        <3>. QED BY <1>5, <3>1, <3>2
    <2>2. \A f \in facts' : f.block + MaxDepth - 1 \in Int
        BY <1>4, <1>9
    <2>3. \A f \in facts' : ~Canonical(f)' => ReachesAtMost(f.block + MaxDepth - 1)'
        BY <1>7, <1>8, <2>1, <2>2
    <2>. QED BY <1>3, <2>3 DEF DepthOK
<1>13. SettledOK'
    <2>1. Settled => \A f \in facts : Canonical(f)
        BY DEF Inv, ChainInv, SettledOK
    <2>2. Settled => header = hashAt[b]
        BY <1>3, <1>4 DEF Inv, ChainInv, SettledOK
    <2>3. Settled' <=> Settled
        BY <1>3 DEF Settled
    <2>. QED BY <1>3, <1>5, <1>6, <1>7, <2>1, <2>2, <2>3 DEF SettledOK
<1>14. FinalOK'
    <2>1. b <= heads.finalized => header = hashAt[b]
        BY <1>3, <1>4 DEF Inv, ChainInv, FinalOK
    <2>2. \A f \in new : f.status = "finalized" => f.block <= heads.finalized
        BY <1>1 DEF ConfirmationStatus
    <2>3. \A f \in new : f.block <= heads.finalized => Canonical(f) /\ Stable(f.block)
        BY <1>1, <1>4, <1>6, <2>1, StableBelow DEF Inv
    <2>4. /\ \A f \in facts : f.status = "finalized" => Canonical(f) /\ Stable(f.block)
          /\ \A f \in facts : f.block <= heads.finalized => Canonical(f)
        BY <1>3 DEF Inv, ChainInv, FinalOK, Checked
    <2>5. \A c : Stable(c)' <=> Stable(c)
        BY <1>3 DEF Stable
    <2>. QED BY <1>3, <1>5, <1>7, <2>2, <2>3, <2>4, <2>5 DEF FinalOK
<1>. QED BY <1>10, <1>11, <1>12, <1>13, <1>14 DEF ChainInv

(* Promotion reaches only heights the loop's reorg check has looked at.      *)
LEMMA PromoteStep == Inv /\ PromoteConfirmations => ChainInv'
<1>. SUFFICES ASSUME Inv, PromoteConfirmations PROVE ChainInv'
    OBVIOUS
<1>1. /\ pc = "promote" /\ pc' = "heads" /\ heads' = NoHeads /\ header' = 0
      /\ tip' = tip /\ hashAt' = hashAt /\ txsAt' = txsAt /\ forks' = forks /\ final' = final
      /\ checkpoint' = checkpoint /\ checkedForks' = checkedForks
      /\ facts' = Promoted(facts, heads)
    BY DEF PromoteConfirmations, LeaveLoopBody, chainVars, histVars
<1>2. facts \in SUBSET Rows /\ tip \in Nat /\ final \in Nat /\ MaxDepth \in Nat /\ forks \in Nat
    BY BoundsAssumption DEF Inv, TypeInv, TypeOK, Hashes
<1>3. \A f \in facts' : \E g \in facts :
        /\ f.tx = g.tx /\ f.block = g.block /\ f.hash = g.hash /\ f.block \in Nat
        /\ f.status = g.status \/ f.status = ConfirmationStatus(f.block, heads)
    BY <1>1, <1>2, PromotedRow DEF Rows, Heights
<1>4. \A f : Canonical(f)' <=> Canonical(f)
    BY <1>1 DEF Canonical
<1>5. \A f \in facts' : \E g \in facts : f.block = g.block /\ (Canonical(f) <=> Canonical(g))
    BY <1>3 DEF Canonical
<1>6. \A r \in Int : ReachesAtMost(r) => ReachesAtMost(r)'
    BY <1>1 DEF ReachesAtMost, InBatch
<1>7. BoundsOK'
    <2>1. \A r \in Int : r = tip => ReachesAtMost(r)'
        BY <1>6 DEF Inv, ChainInv, BoundsOK
    <2>2. NoHeads \in [latest : 0..tip, safe : 0..tip, finalized : 0..tip]
        BY <1>2 DEF NoHeads
    <2>. QED BY <1>1, <1>2, <2>1, <2>2 DEF BoundsOK, ReachesAtMost, Stable, NoHeads
<1>8. HashesOK'
    BY <1>1, <1>2, <1>3, <1>4 DEF Inv, ChainInv, HashesOK, Canonical
<1>9. DepthOK'
    <2>1. \A f \in facts : ~Canonical(f) => ReachesAtMost(f.block + MaxDepth - 1)
        BY DEF Inv, ChainInv, DepthOK
    <2>2. \A f \in facts' : ~Canonical(f) => ReachesAtMost(f.block + MaxDepth - 1)
        BY <1>5, <2>1
    <2>3. \A f \in facts' : f.block + MaxDepth - 1 \in Int
        BY <1>2, <1>3
    <2>. QED BY <1>1, <1>4, <1>6, <2>2, <2>3 DEF DepthOK
<1>10. SettledOK'
    BY <1>1, <1>4, <1>5 DEF Inv, ChainInv, SettledOK, Settled
<1>11. FinalOK'
    <2>1. /\ \A f \in facts : f.status = "finalized" => Canonical(f) /\ Stable(f.block)
          /\ \A f \in facts : f.block <= heads.finalized => Canonical(f)
          /\ Stable(heads.finalized) /\ heads.finalized \in Nat
        BY <1>1, <1>2 DEF Inv, ChainInv, FinalOK, Checked, BoundsOK
    <2>2. \A f \in facts' : f.status = "finalized" => Canonical(f) /\ Stable(f.block)
        <3>1. SUFFICES ASSUME NEW f \in facts', f.status = "finalized"
                       PROVE  Canonical(f) /\ Stable(f.block)
            OBVIOUS
        <3>2. PICK g \in facts :
                /\ f.block = g.block /\ f.hash = g.hash /\ f.block \in Nat
                /\ f.status = g.status \/ f.status = ConfirmationStatus(f.block, heads)
            BY <1>3
        <3>3. g.status = "finalized" \/ g.block <= heads.finalized
            BY <3>1, <3>2 DEF ConfirmationStatus
        <3>4. CASE g.status = "finalized"
            BY <2>1, <3>2, <3>4 DEF Canonical
        <3>5. CASE g.block <= heads.finalized
            BY <2>1, <3>2, <3>5, StableBelow DEF Canonical, Inv
        <3>. QED BY <3>3, <3>4, <3>5
    <2>3. \A b : Stable(b)' <=> Stable(b)
        BY <1>1 DEF Stable
    <2>. QED BY <1>1, <1>4, <2>2, <2>3 DEF FinalOK, Checked
<1>. QED BY <1>7, <1>8, <1>9, <1>10, <1>11 DEF ChainInv

(* Every step keeps the relation of rows to the chain.                     *)
LEMMA ChainInvStep == Inv /\ [Next]_vars => ChainInv'
<1>1. Inv /\ UNCHANGED vars => ChainInv'
    BY DEF vars, chainVars, dbVars, factVars, memVars, histVars, Inv, ChainInv, BoundsOK,
           ReachesAtMost, TargetHead, InBatch, HashesOK, DepthOK, SettledOK, Settled, FinalOK,
           Stable,
           Checked, Canonical
<1>. QED
    BY <1>1, MineStep, ReorgStep, FinalizeStep, QuietRunnerStep, CheckStep, ReadHeaderStep,
       ProcessBlockStep, PromoteStep
       DEF Next, Chain, Runner

(* The inductive invariant. *)
THEOREM InvCorrect == Spec => []Inv
<1>1. Init => Inv
    BY InitType, ChainInvInit DEF Inv, Init, FactsAnchored
<1>2. Inv /\ [Next]_vars => Inv'
    BY TypeStep, AnchoredStep, ChainInvStep DEF Inv
<1>. QED BY <1>1, <1>2, PTL DEF Spec

(* After a completed reorg check, and until the next reorganisation, every  *)
(* row is of a transaction the chain has at that height: comparing hashes at *)
(* sparse anchors only, by number, loses no orphan, provided the window is   *)
(* at least as deep as the chain reorganises.                                *)
THEOREM OrphanFree == Spec => []NoOrphanFacts
<1>1. Inv => NoOrphanFacts
    BY DEF Inv, ChainInv, SettledOK, HashesOK, NoOrphanFacts, Canonical
<1>. QED BY <1>1, InvCorrect, PTL

(* A row marked finalized is on the canonical chain for good.                *)
THEOREM FinalizedSafe == Spec => []FinalizedIsCanonical
<1>1. Inv => FinalizedIsCanonical
    BY DEF Inv, ChainInv, FinalOK, HashesOK, FinalizedIsCanonical, Canonical
<1>. QED BY <1>1, InvCorrect, PTL

-----------------------------------------------------------------------------
(* Stored hashes and the chain: what DepthOK says of rows and of the header  *)
(* holds of every stored hash, the anchors included.                         *)

(* The hash stored for a block is not the chain's any more. *)
Stale(b) == processedBlocks[b] # NoHash /\ processedBlocks[b] # hashAt[b]

ProcessedOK ==
    /\ \A b \in Heights : processedBlocks[b] <= forks
    /\ \A b \in Heights : Stale(b) => ReachesAtMost(b + MaxDepth - 1)
    /\ Settled => \A b \in Heights : ~Stale(b)

(* Every step keeps the chain valid.                                       *)
LEMMA ValidStep == ValidChain(txsAt) /\ [Next]_vars => ValidChain(txsAt)'
<1>. SUFFICES ASSUME ValidChain(txsAt), [Next]_vars PROVE ValidChain(txsAt')
    OBVIOUS
<1>1. CASE Mine \/ Reorg
    BY <1>1 DEF Mine, Reorg
<1>2. CASE txsAt' = txsAt
    BY <1>2
<1>. QED
    BY <1>1, <1>2
       DEF Next, Chain, Runner, Finalize, Boot, SampleHeads, NoReorg, HandleReorg,
           ReorgThrows, Idle, FetchLogs, AdvanceEmptyRange, ReadHeader, ProcessBlock, Rescan,
           PromoteConfirmations, Crash, vars, chainVars

(* What the invariants say of the batch's block that is processed. *)
LEMMA BlockAhead ==
    ASSUME Inv, ProcessBlock
    PROVE  /\ cursor = checkpoint /\ checkpoint \in Nat /\ cursor + 1 \in Heights
           /\ cursor + 1 <= batchEnd /\ processedBlocks[cursor + 1] = NoHash
           /\ processedBlocks[cursor + 1] # header
<1>1. pc = "block"
    BY DEF ProcessBlock
<1>2. cursor + 1 \in Heights /\ cursor + 1 <= batchEnd
    BY <1>1, BlockInHeights DEF Inv
<1>3. cursor = checkpoint /\ checkpoint \in Nat
    BY <1>1 DEF Inv, TypeInv, CursorOK, InBatch, TypeOK
<1>4. processedBlocks[cursor + 1] = NoHash
    BY <1>2, <1>3 DEF Inv, FactsAnchored
<1>. QED BY <1>2, <1>3, <1>4 DEF NoHash, Inv, TypeInv, TypeOK, Hashes

(* Between two reorg checks the indexer never comes to reach further. *)
LEMMA ReachNext ==
    ASSUME Inv, [Next]_vars, ~NoReorg, ~HandleReorg
    PROVE  \A r \in Int : ReachesAtMost(r) => ReachesAtMost(r)'
<1>1. /\ checkpoint \in Nat /\ batchEnd \in Nat /\ cursor \in Nat
      /\ TargetHead(heads) \in Int
    BY TargetWithinTip DEF Inv, TypeInv, TypeOK
<1>2. CASE UNCHANGED <<checkpoint, pc, heads, batchEnd>>
    <2>1. TargetHead(heads)' = TargetHead(heads)
        BY <1>2 DEF TargetHead
    <2>. QED BY <1>2, <2>1 DEF ReachesAtMost, InBatch
<1>3. CASE checkpoint' = checkpoint /\ pc' \in {"boot", "heads", "reorg", "promote"}
    BY <1>3 DEF ReachesAtMost, InBatch
<1>4. CASE FetchLogs
    <2>1. batchEnd' <= TargetHead(heads) /\ batchEnd' \in Int
        BY <1>1, <1>4, ConfigAssumption DEF FetchLogs, BatchEnd
    <2>2. pc = "decide" /\ pc' = "walk" /\ checkpoint' = checkpoint
        BY <1>4 DEF FetchLogs, dbVars
    <2>. QED BY <1>1, <2>1, <2>2 DEF ReachesAtMost, InBatch
<1>5. CASE AdvanceEmptyRange
    <2>1. PICK to \in cursor + 1..batchEnd : checkpoint' = to /\ pc' = NextStop(to)
        BY <1>5 DEF AdvanceEmptyRange
    <2>2. pc = "walk" /\ pc' \in {"walk", "promote"} /\ batchEnd' = batchEnd
        BY <1>5, <2>1 DEF AdvanceEmptyRange, NextStop
    <2>. QED BY <1>1, <2>1, <2>2 DEF ReachesAtMost, InBatch
<1>6. CASE ReadHeader \/ Rescan
    <2>1. InBatch /\ pc' # "decide" /\ batchEnd' = batchEnd /\ checkpoint' = checkpoint
        BY <1>6 DEF ReadHeader, Rescan, NextStop, InBatch, dbVars
    <2>. QED BY <2>1 DEF ReachesAtMost, InBatch
<1>7. CASE ProcessBlock
    <2>1. /\ InBatch /\ pc' # "decide" /\ batchEnd' = batchEnd
          /\ checkpoint' = cursor + 1 /\ cursor + 1 <= batchEnd
        BY <1>7, BlockAhead DEF ProcessBlock, NextStop, InBatch
    <2>. QED BY <1>1, <2>1 DEF ReachesAtMost, InBatch
<1>8. Boot \/ SampleHeads \/ ReorgThrows \/ Crash \/ PromoteConfirmations
        => checkpoint' = checkpoint /\ pc' \in {"boot", "heads", "reorg", "promote"}
    BY DEF Boot, SampleHeads, ReorgThrows, Crash, PromoteConfirmations, dbVars
<1>9. Idle => checkpoint' = checkpoint /\ pc' \in {"boot", "heads", "reorg", "promote"}
    BY Zenon DEF Idle, dbVars
<1>10. Chain \/ UNCHANGED vars => UNCHANGED <<checkpoint, pc, heads, batchEnd>>
    BY DEF Chain, Mine, Reorg, Finalize, vars, dbVars, memVars
<1>. QED BY <1>2, <1>3, <1>4, <1>5, <1>6, <1>7, <1>8, <1>9, <1>10 DEF Next, Runner

(* How a step other than a rollback changes stored hashes against the chain: *)
(* a stale hash stays stale, a new one is the chain's or the header read.     *)
LEMMA StaleNext ==
    ASSUME Inv, ProcessedOK, [Next]_vars, ~HandleReorg, NEW b \in Heights
    PROVE  /\ Stale(b) => Stale(b)'
           /\ Stale(b)' => \/ Stale(b)
                           \/ Reorg /\ final < b /\ b <= tip /\ tip - b < MaxDepth
                           \/ ProcessBlock /\ b = cursor + 1 /\ header # hashAt[b]
<1>1. /\ processedBlocks \in [Heights -> Hashes \union {NoHash}]
      /\ hashAt \in [Heights -> Hashes] /\ tip \in Nat /\ checkpoint \in Nat /\ b \in Nat
      /\ final \in Nat
      /\ forks \in Nat /\ checkpoint <= tip /\ processedBlocks[b] <= forks
      /\ \A c \in Heights : processedBlocks[c] # NoHash => c <= checkpoint
    BY DEF Inv, TypeInv, TypeOK, ChainInv, BoundsOK, ReachesAtMost, FactsAnchored, ProcessedOK,
           Hashes, Heights
<1>2. CASE UNCHANGED <<processedBlocks, hashAt>>
    BY <1>2 DEF Stale
<1>3. CASE Mine
    <2>1. processedBlocks' = processedBlocks /\ hashAt' = [hashAt EXCEPT ![tip + 1] = forks]
        BY <1>3 DEF Mine, dbVars
    <2>. QED BY <1>1, <2>1 DEF Stale
<1>4. CASE Reorg
    <2>1. PICK h \in Heights :
            /\ final < h /\ h <= tip /\ tip - h < MaxDepth
            /\ hashAt' = [c \in Heights |-> IF c \in h..tip THEN forks + 1 ELSE hashAt[c]]
        BY <1>4 DEF Reorg
    <2>2. processedBlocks' = processedBlocks /\ h \in Nat
        BY <1>4 DEF Reorg, dbVars, Heights
    <2>3. CASE b \in h..tip
        <3>1. hashAt'[b] = forks + 1
            BY <2>1, <2>3
        <3>2. final < b /\ b <= tip /\ tip - b < MaxDepth
            BY <1>1, <2>1, <2>2, <2>3, BoundsAssumption
        <3>3. Stale(b) => Stale(b)'
            BY <1>1, <2>2, <3>1 DEF Stale
        <3>. QED BY <1>4, <3>2, <3>3
    <2>4. CASE b \notin h..tip
        BY <2>1, <2>2, <2>4 DEF Stale
    <2>. QED BY <2>3, <2>4
<1>5. CASE AdvanceEmptyRange
    <2>1. PICK to \in cursor + 1..batchEnd :
            processedBlocks' =
              [c \in Heights |-> IF c \in EmptyRangeAnchors(cursor + 1, to)
                                 THEN hashAt[c] ELSE processedBlocks[c]]
        BY <1>5 DEF AdvanceEmptyRange
    <2>2. cursor = checkpoint /\ hashAt' = hashAt
        BY <1>5 DEF AdvanceEmptyRange, Inv, TypeInv, CursorOK, InBatch, chainVars
    <2>3. b \in EmptyRangeAnchors(cursor + 1, to) => checkpoint < b
        BY <1>1, <2>2 DEF EmptyRangeAnchors, Inv, TypeInv, TypeOK
    <2>. HIDE DEF EmptyRangeAnchors
    <2>. QED BY <1>1, <2>1, <2>2, <2>3 DEF Stale
<1>6. CASE ProcessBlock
    <2>1. processedBlocks' = [processedBlocks EXCEPT ![cursor + 1] = header] /\ hashAt' = hashAt
        BY <1>6 DEF ProcessBlock, chainVars
    <2>2. processedBlocks[cursor + 1] = NoHash
        BY <1>6, BlockAhead
    <2>. QED BY <1>1, <1>6, <2>1, <2>2 DEF Stale
<1>. QED
    BY <1>2, <1>3, <1>4, <1>5, <1>6
       DEF Next, Chain, Runner, Finalize, Boot, SampleHeads, NoReorg,
           ReorgThrows, Idle, FetchLogs, ReadHeader, Rescan,
           PromoteConfirmations, Crash, vars, chainVars, dbVars

(* A stale hash is always within the window of the next check. *)
LEMMA StaleMismatched ==
    ASSUME Inv, ProcessedOK, NEW b \in Heights, Stale(b)
    PROVE  b \in Mismatched
<1>1. checkpoint <= b + MaxDepth - 1 /\ b <= checkpoint
    BY DEF ProcessedOK, ReachesAtMost, Inv, FactsAnchored, Stale
<1>2. checkpoint \in Nat /\ b \in Nat
    BY DEF Inv, TypeInv, TypeOK, Heights
<1>. QED BY <1>1, <1>2, ConfigAssumption, BoundsAssumption DEF Mismatched, Stale

(* Every step keeps stale hashes within reach of the next check.           *)
LEMMA ProcessedStep == Inv /\ ProcessedOK /\ [Next]_vars => ProcessedOK'
<1>. SUFFICES ASSUME Inv, ProcessedOK, [Next]_vars PROVE ProcessedOK'
    OBVIOUS
<1>1. /\ processedBlocks \in [Heights -> Hashes \union {NoHash}]
      /\ hashAt \in [Heights -> Hashes] /\ tip \in Nat /\ checkpoint \in Nat /\ forks \in Nat
      /\ MaxDepth \in Nat /\ cursor \in Nat
    BY BoundsAssumption DEF Inv, TypeInv, TypeOK, Hashes
<1>2. \A b \in Heights : hashAt[b] <= forks /\ header <= forks /\ processedBlocks[b] <= forks
    BY DEF Inv, ChainInv, HashesOK, ProcessedOK
<1>3. CASE NoReorg \/ HandleReorg
    <2>1. \A b \in Heights : ~Stale(b)'
        <3>1. CASE NoReorg
            BY <3>1, StaleMismatched DEF NoReorg, Stale, chainVars, dbVars
        <3>2. CASE HandleReorg
            <4>1. PICK from \in Heights :
                    /\ FirstMismatch(from)
                    /\ processedBlocks' =
                         [b \in Heights |-> IF b >= from THEN NoHash ELSE processedBlocks[b]]
                BY <3>2 DEF HandleReorg
            <4>2. hashAt' = hashAt
                BY <3>2 DEF HandleReorg, chainVars
            <4>3. ASSUME NEW b \in Heights, Stale(b)' PROVE FALSE
                <5>1. ~(b >= from) /\ Stale(b)
                    BY <4>1, <4>2, <4>3 DEF Stale
                <5>2. from <= b
                    BY <5>1, <4>1, StaleMismatched DEF FirstMismatch
                <5>. QED BY <5>1, <5>2 DEF Heights
            <4>. QED BY <4>3
        <3>. QED BY <1>3, <3>1, <3>2
    <2>2. \A b \in Heights : processedBlocks'[b] <= forks'
        <3>1. CASE NoReorg
            BY <1>2, <3>1 DEF NoReorg, chainVars, dbVars
        <3>2. CASE HandleReorg
            BY <1>1, <1>2, <3>2 DEF HandleReorg, chainVars, NoHash
        <3>. QED BY <1>3, <3>1, <3>2
    <2>. QED BY <2>1, <2>2 DEF ProcessedOK
<1>4. CASE ~NoReorg /\ ~HandleReorg
    <2>1. forks <= forks' /\ \A b \in Heights : processedBlocks'[b] <= forks'
        <3>1. CASE UNCHANGED <<processedBlocks, forks>>
            BY <1>1, <1>2, <3>1
        <3>2. CASE Reorg
            BY <1>1, <1>2, <3>2 DEF Reorg, dbVars, NoHash, Hashes
        <3>3. CASE AdvanceEmptyRange
            BY <1>1, <1>2, <3>3 DEF AdvanceEmptyRange, chainVars
        <3>4. CASE ProcessBlock
            <4>1. processedBlocks' = [processedBlocks EXCEPT ![cursor + 1] = header]
                BY <3>4 DEF ProcessBlock
            <4>2. forks' = forks
                BY <3>4 DEF ProcessBlock, chainVars
            <4>. QED BY <1>1, <1>2, <4>1, <4>2
        <3>. QED
            BY <1>4, <3>1, <3>2, <3>3, <3>4
               DEF Next, Chain, Runner, Mine, Finalize, Boot, SampleHeads,
                   ReorgThrows, Idle, FetchLogs, ReadHeader, Rescan,
                   PromoteConfirmations, Crash, vars, chainVars, dbVars
    <2>2. ASSUME NEW b \in Heights, Stale(b)' PROVE ReachesAtMost(b + MaxDepth - 1)'
        <3>1. b + MaxDepth - 1 \in Int
            BY <1>1 DEF Heights
        <3>2. ReachesAtMost(b + MaxDepth - 1)
            <4>1. CASE Stale(b)
                BY <4>1 DEF ProcessedOK
            <4>2. CASE Reorg /\ b <= tip /\ tip - b < MaxDepth
                <5>1. tip <= b + MaxDepth - 1
                    BY <1>1, <4>2 DEF Heights
                <5>. QED BY <1>1, <3>1, <5>1, ReachMonotone DEF Inv, ChainInv, BoundsOK
            <4>3. CASE ProcessBlock /\ b = cursor + 1 /\ header # hashAt[b]
                <5>1. ReachesAtMost(cursor + MaxDepth)
                    BY <4>3 DEF Inv, ChainInv, DepthOK, ProcessBlock
                <5>2. cursor + MaxDepth = b + MaxDepth - 1
                    BY <1>1, <4>3
                <5>. QED BY <5>1, <5>2
            <4>. QED BY <1>4, <2>2, <4>1, <4>2, <4>3, StaleNext
        <3>. QED BY <1>4, <3>1, <3>2, ReachNext
    <2>3. ASSUME Settled', NEW b \in Heights PROVE ~Stale(b)'
        <3>1. checkedForks' = checkedForks
            BY <1>4 DEF Next, Chain, Runner, Mine, Reorg, Finalize, Boot, SampleHeads,
                   ReorgThrows, Idle, FetchLogs, AdvanceEmptyRange, ReadHeader, ProcessBlock,
                   Rescan, PromoteConfirmations, Crash, vars, histVars
        <3>2. checkedForks <= forks /\ checkedForks \in Nat
            BY DEF Inv, ChainInv, HashesOK, TypeInv, TypeOK, Hashes
        <3>3. ~Reorg
            BY <1>1, <2>3, <3>1, <3>2 DEF Reorg, Settled
        <3>4. forks' = forks
            BY <3>3 DEF Next, Chain, Runner, Mine, Finalize, Boot, SampleHeads, NoReorg,
                   HandleReorg,
                   ReorgThrows, Idle, FetchLogs, AdvanceEmptyRange, ReadHeader, ProcessBlock,
                   Rescan, PromoteConfirmations, Crash, vars, chainVars
        <3>5. Settled
            BY <2>3, <3>1, <3>4 DEF Settled
        <3>6. ProcessBlock => header = hashAt[cursor + 1]
            BY <3>5 DEF Inv, ChainInv, SettledOK, ProcessBlock
        <3>. QED BY <1>4, <3>3, <3>5, <3>6, StaleNext DEF ProcessedOK
    <2>. QED BY <2>1, <2>2, <2>3 DEF ProcessedOK
<1>. QED BY <1>3, <1>4

-----------------------------------------------------------------------------
(* Projections.  A candle or a balance is out of step with its rows only     *)
(* where a stored hash is stale and a rebuild from that block touches the    *)
(* token: no transaction is folded twice otherwise, because a transaction is *)
(* in one block of the chain, and a rollback refolds what it deletes.        *)

Suspect(x) == \E c \in Heights : Stale(c) /\ x.tok \in AffectedTokens(c)

CandlesOK ==
    \A x \in Txs : x.tok \in ScoopTokens /\ ~Suspect(x)
        => candle[x] = IF InTable("trades", x) THEN 1 ELSE 0

(* The transaction that processes a block, in full. *)
LEMMA BlockEffect ==
    ASSUME Inv, ProcessBlock
    PROVE  LET b == cursor + 1
               txs == txsAt[cursor + 1]
           IN  /\ facts' = Upsert(facts, NewRows("trades", TradesIn(txs), b)
                                         \union NewRows("transfers", TransfersIn(txs), b))
               /\ candle' = MergedCandle(TradesIn(txs))
               /\ balance' = FoldedBalance(TransfersIn(txs))
               /\ launchBlock' = [t \in Tokens |-> IF t \in LaunchedIn(txs) THEN b
                                                   ELSE launchBlock[t]]
               /\ watchlist' = watchlist \union LaunchedIn(txs)
               /\ pending' = pending \ {b}
               /\ pc' = IF LaunchedIn(txs) \subseteq watchlist THEN NextStop(b) ELSE "rescan"
BY BlockAhead DEF ProcessBlock

(* Every transaction gets its row, with the block's number. *)
LEMMA RowOf ==
    ASSUME NEW table, NEW xs, NEW b, NEW x \in xs
    PROVE  \E f \in NewRows(table, xs, b) : f.table = table /\ f.tx = x /\ f.block = b
<1>. DEFINE row == [table |-> table, tx |-> x, block |-> b, hash |-> header,
                    status |-> ConfirmationStatus(b, heads)]
<1>1. row \in NewRows(table, xs, b)
    BY DEF NewRows
<1>2. row.table = table /\ row.tx = x /\ row.block = b
    OBVIOUS
<1>. HIDE DEF row
<1>. QED BY <1>1, <1>2

(* A promotion loses no row. *)
LEMMA PromotedKeeps ==
    ASSUME NEW rows, NEW h, NEW g \in rows
    PROVE  \E f \in Promoted(rows, h) :
              f.table = g.table /\ f.tx = g.tx /\ f.block = g.block /\ f.hash = g.hash
<1>. DEFINE row == [table |-> g.table, tx |-> g.tx, block |-> g.block, hash |-> g.hash,
                    status |-> Raised(g.status, g.block, h)]
<1>1. row \in Promoted(rows, h)
    BY DEF Promoted
<1>2. row.table = g.table /\ row.tx = g.tx /\ row.block = g.block /\ row.hash = g.hash
    OBVIOUS
<1>. HIDE DEF row
<1>. QED BY <1>1, <1>2

(* The rows after a block: those of its transactions, and the others' as     *)
(* they were.                                                                *)
LEMMA BlockRows ==
    ASSUME Inv, ProcessBlock
    PROVE  LET b == cursor + 1
               trades == TradesIn(txsAt[cursor + 1])
               transfers == TransfersIn(txsAt[cursor + 1])
           IN  /\ \A f \in facts' :
                     \/ f.table = "trades" /\ f.tx \in trades /\ f.block = b
                     \/ f.table = "transfers" /\ f.tx \in transfers /\ f.block = b
                     \/ /\ f \in facts
                        /\ f.table = "trades" => f.tx \notin trades
                        /\ f.table = "transfers" => f.tx \notin transfers
               /\ \A x \in trades : \E f \in facts' :
                     f.table = "trades" /\ f.tx = x /\ f.block = b
               /\ \A x \in transfers : \E f \in facts' :
                     f.table = "transfers" /\ f.tx = x /\ f.block = b
               /\ \A f \in facts : f.table = "trades" /\ f.tx \notin trades => f \in facts'
               /\ \A f \in facts :
                     f.table = "transfers" /\ f.tx \notin transfers => f \in facts'
<1>. DEFINE b == cursor + 1
            trades == TradesIn(txsAt[cursor + 1])
            transfers == TransfersIn(txsAt[cursor + 1])
            newTrades == NewRows("trades", trades, b)
            newTransfers == NewRows("transfers", transfers, b)
<1>1. facts' = Upsert(facts, newTrades \union newTransfers)
    BY BlockEffect
<1>2. /\ \A f \in newTrades : f.table = "trades" /\ f.tx \in trades /\ f.block = b
      /\ \A x \in trades : \E f \in newTrades :
            f.table = "trades" /\ f.tx = x /\ f.block = b
    <2>1. \A f \in newTrades : f.table = "trades" /\ f.tx \in trades /\ f.block = b
        BY DEF NewRows
    <2>. QED BY <2>1, RowOf
<1>3. /\ \A f \in newTransfers : f.table = "transfers" /\ f.tx \in transfers /\ f.block = b
      /\ \A x \in transfers : \E f \in newTransfers :
            f.table = "transfers" /\ f.tx = x /\ f.block = b
    <2>1. \A f \in newTransfers :
            f.table = "transfers" /\ f.tx \in transfers /\ f.block = b
        BY DEF NewRows
    <2>. QED BY <2>1, RowOf
<1>. HIDE DEF b, trades, transfers, newTrades, newTransfers
<1>4. facts' = {f \in facts : \A g \in newTrades \union newTransfers :
                                 f.table # g.table \/ f.tx # g.tx}
               \union (newTrades \union newTransfers)
    BY <1>1 DEF Upsert
<1>5. ASSUME NEW f \in facts, f.table = "trades", f.tx \notin trades PROVE f \in facts'
    BY <1>2, <1>3, <1>4, <1>5
<1>6. ASSUME NEW f \in facts, f.table = "transfers", f.tx \notin transfers PROVE f \in facts'
    BY <1>2, <1>3, <1>4, <1>6
<1>7. ASSUME NEW f \in facts'
      PROVE  \/ f.table = "trades" /\ f.tx \in trades /\ f.block = b
             \/ f.table = "transfers" /\ f.tx \in transfers /\ f.block = b
             \/ /\ f \in facts
                /\ f.table = "trades" => f.tx \notin trades
                /\ f.table = "transfers" => f.tx \notin transfers
    <2>1. CASE f \in newTrades
        BY <1>2, <2>1
    <2>2. CASE f \in newTransfers
        BY <1>3, <2>2
    <2>3. CASE f \notin newTrades /\ f \notin newTransfers
        <3>1. /\ f \in facts
              /\ \A g \in newTrades : f.table # g.table \/ f.tx # g.tx
              /\ \A g \in newTransfers : f.table # g.table \/ f.tx # g.tx
            BY <1>4, <1>7, <2>3
        <3>. QED BY <1>2, <1>3, <3>1
    <2>. QED BY <2>1, <2>2, <2>3
<1>8. \A x \in trades : \E f \in facts' : f.table = "trades" /\ f.tx = x /\ f.block = b
    BY <1>2, <1>4
<1>9. \A x \in transfers : \E f \in facts' : f.table = "transfers" /\ f.tx = x /\ f.block = b
    BY <1>3, <1>4
<1>. QED BY <1>5, <1>6, <1>7, <1>8, <1>9 DEF b, trades, transfers

(* A transaction is in one block of the chain. *)
LEMMA MinedOnce ==
    ASSUME ValidChain(txsAt), NEW a \in Heights, NEW b \in Heights, a < b,
           NEW x \in txsAt[a]
    PROVE  x \notin txsAt[b]
<1>1. a \in 1..(b - 1)
    BY DEF Heights
<1>2. x \in MinedUpTo(txsAt, b - 1)
    BY <1>1 DEF MinedUpTo
<1>. QED BY <1>2 DEF ValidChain

(* No transaction of a token comes before the token's launch. *)
LEMMA LaunchBefore ==
    ASSUME ValidChain(txsAt), NEW b \in Heights, NEW x \in txsAt[b]
    PROVE  \E a \in 1..b : \E y \in txsAt[a] : IsLaunch(y) /\ y.tok = x.tok
<1>1. CASE IsLaunch(x)
    BY <1>1 DEF Heights
<1>2. CASE x.tok \in LaunchedIn(MinedUpTo(txsAt, b))
    BY <1>2 DEF LaunchedIn, MinedUpTo
<1>. QED BY <1>1, <1>2 DEF ValidChain

(* A row is stale exactly when the hash stored for its block is. *)
LEMMA StaleRow ==
    ASSUME Inv, NEW f \in facts
    PROVE  /\ f.block \in Heights /\ f.block <= checkpoint /\ f.tx \in Txs
           /\ ~Stale(f.block) => f.tx \in txsAt[f.block]
<1>1. /\ f.block \in Heights /\ f.hash \in Hashes /\ f.block <= checkpoint
      /\ processedBlocks[f.block] = f.hash /\ f.tx \in Txs
    BY DEF Inv, TypeInv, TypeOK, Rows, FactsAnchored
<1>2. ~Stale(f.block) => Canonical(f)
    BY <1>1, BoundsAssumption DEF Stale, Canonical, NoHash, Hashes
<1>. QED BY <1>1, <1>2 DEF Inv, ChainInv, HashesOK

(* A row of a transaction that is met again in a higher block is stale. *)
LEMMA MovedIsStale ==
    ASSUME Inv, ValidChain(txsAt), ProcessBlock, NEW f \in facts,
           f.tx \in txsAt[cursor + 1]
    PROVE  Stale(f.block)
<1>1. f.block \in Heights /\ f.block < cursor + 1 /\ cursor + 1 \in Heights
    BY BlockAhead, StaleRow DEF Heights
<1>. QED BY <1>1, MinedOnce, StaleRow

(* Which tables hold a row of a transaction changes in two kinds of steps. *)
LEMMA TablesKept ==
    ASSUME Inv, [Next]_vars, ~ProcessBlock, ~HandleReorg, NEW x, NEW table
    PROVE  /\ InTable(table, x)' <=> InTable(table, x)
           /\ UNCHANGED <<candle, balance, launchBlock>>
<1>1. UNCHANGED <<candle, balance, launchBlock>>
    BY DEF Next, Chain, Runner, Mine, Reorg, Finalize, Boot, SampleHeads, NoReorg,
           ReorgThrows, Idle, FetchLogs, AdvanceEmptyRange, ReadHeader, Rescan,
           PromoteConfirmations, Crash, vars, dbVars, factVars
<1>2. CASE facts' = facts
    BY <1>1, <1>2 DEF InTable
<1>3. CASE PromoteConfirmations
    <2>1. facts' = Promoted(facts, heads)
        BY <1>3 DEF PromoteConfirmations
    <2>2. \A f \in facts' : \E g \in facts : f.table = g.table /\ f.tx = g.tx
        BY <2>1 DEF Promoted
    <2>3. \A g \in facts : \E f \in facts' : f.table = g.table /\ f.tx = g.tx
        BY <2>1, PromotedKeeps
    <2>. QED BY <1>1, <2>2, <2>3 DEF InTable
<1>. QED
    BY <1>2, <1>3
       DEF Next, Chain, Runner, Mine, Reorg, Finalize, Boot, SampleHeads, NoReorg,
           ReorgThrows, Idle, FetchLogs, AdvanceEmptyRange, ReadHeader, Rescan,
           Crash, vars, dbVars, factVars

(* A token that a rollback from an indexed block would rebuild stays one.  *)
LEMMA AffectedNext ==
    ASSUME Inv, [Next]_vars, ~HandleReorg, NEW c \in Heights, c <= checkpoint,
           NEW t \in AffectedTokens(c)
    PROVE  t \in AffectedTokens(c)'
<1>0. /\ c \in Nat /\ checkpoint \in Nat /\ cursor \in Nat
      /\ launchBlock \in [Tokens -> 0..MaxHeight]
      /\ facts \in SUBSET Rows
    BY DEF Heights, Inv, TypeInv, TypeOK
<1>1. CASE t \in Tokens /\ launchBlock[t] >= c
    <2>1. launchBlock'[t] >= c
        <3>1. CASE ProcessBlock
            <4>1. /\ launchBlock' = [u \in Tokens |-> IF u \in LaunchedIn(txsAt[cursor + 1])
                                                      THEN cursor + 1 ELSE launchBlock[u]]
                  /\ cursor = checkpoint
                BY <3>1, BlockEffect, BlockAhead
            <4>. QED BY <1>0, <1>1, <4>1
        <3>2. CASE ~ProcessBlock
            BY <1>1, <3>2, TablesKept
        <3>. QED BY <3>1, <3>2
    <2>. QED BY <1>1, <2>1 DEF AffectedTokens
<1>2. CASE \E f \in facts : f.table = "trades" /\ f.block >= c /\ f.tx.tok = t
    <2>1. PICK f \in facts : f.table = "trades" /\ f.block >= c /\ f.tx.tok = t
        BY <1>2
    <2>2. \E g \in facts' : g.table = "trades" /\ g.block >= c /\ g.tx.tok = t
        <3>1. CASE ProcessBlock
            <4>1. cursor = checkpoint
                BY <3>1, BlockAhead
            <4>2. CASE f.tx \in TradesIn(txsAt[cursor + 1])
                <5>1. PICK g \in facts' :
                        g.table = "trades" /\ g.tx = f.tx /\ g.block = cursor + 1
                    BY <3>1, <4>2, BlockRows
                <5>. QED BY <1>0, <2>1, <4>1, <5>1
            <4>3. CASE f.tx \notin TradesIn(txsAt[cursor + 1])
                BY <2>1, <3>1, <4>3, BlockRows
            <4>. QED BY <4>2, <4>3
        <3>2. CASE PromoteConfirmations
            <4>1. facts' = Promoted(facts, heads)
                BY <3>2 DEF PromoteConfirmations
            <4>2. \E g \in facts' : g.table = f.table /\ g.tx = f.tx /\ g.block = f.block
                BY <2>1, <4>1, PromotedKeeps
            <4>. QED BY <2>1, <4>2
        <3>3. CASE facts' = facts
            BY <2>1, <3>3
        <3>. QED
            BY <3>1, <3>2, <3>3
               DEF Next, Chain, Runner, Mine, Reorg, Finalize, Boot, SampleHeads, NoReorg,
                   ReorgThrows, Idle, FetchLogs, AdvanceEmptyRange, ReadHeader, Rescan,
                   Crash, vars, dbVars, factVars
    <2>. QED BY <2>2 DEF AffectedTokens
<1>3. \/ \E f \in facts : f.table = "trades" /\ f.block >= c /\ f.tx.tok = t
      \/ t \in Tokens /\ launchBlock[t] >= c
    BY DEF AffectedTokens
<1>. QED BY <1>1, <1>2, <1>3

(* What is suspect stays so until a rollback.                              *)
LEMMA SuspectNext ==
    ASSUME Inv, ProcessedOK, [Next]_vars, ~HandleReorg, NEW x, Suspect(x)
    PROVE  Suspect(x)'
<1>1. PICK c \in Heights : Stale(c) /\ x.tok \in AffectedTokens(c)
    BY DEF Suspect
<1>2. c <= checkpoint
    BY <1>1 DEF Stale, Inv, FactsAnchored
<1>3. Stale(c)'
    BY <1>1, StaleNext
<1>4. x.tok \in AffectedTokens(c)'
    BY <1>1, <1>2, AffectedNext
<1>. QED BY <1>3, <1>4 DEF Suspect

(* A rollback starts at or below every stale hash, and refolds the tokens it  *)
(* touches from the rows that are left.                                      *)
LEMMA RollbackEffect ==
    ASSUME Inv, ProcessedOK, HandleReorg
    PROVE  \E from \in Heights :
              /\ \A c \in Heights : Stale(c) => from <= c
              /\ facts' = {f \in facts : f.block < from}
              /\ candle' = Rebuilt(candle, "trades", AffectedTokens(from), facts')
              /\ balance' = Rebuilt(balance, "transfers", AffectedTokens(from), facts')
              /\ launchBlock' = launchBlock
              /\ \A c \in Heights : ~Stale(c)'
<1>1. PICK from \in Heights :
        /\ FirstMismatch(from)
        /\ facts' = FactsBelow(from)
        /\ candle' = Rebuilt(candle, "trades", AffectedTokens(from), facts')
        /\ balance' = Rebuilt(balance, "transfers", AffectedTokens(from), facts')
        /\ processedBlocks' =
             [b \in Heights |-> IF b >= from THEN NoHash ELSE processedBlocks[b]]
    BY DEF HandleReorg
<1>2. \A c \in Heights : Stale(c) => from <= c
    BY <1>1, StaleMismatched DEF FirstMismatch
<1>3. hashAt' = hashAt /\ launchBlock' = launchBlock
    BY DEF HandleReorg, chainVars
<1>4. \A c \in Heights : Stale(c)' => Stale(c) /\ ~(c >= from)
    BY <1>1, <1>3 DEF Stale
<1>5. \A c \in Heights : ~Stale(c)'
    BY <1>2, <1>4 DEF Heights
<1>. QED BY <1>1, <1>2, <1>3, <1>5 DEF FactsBelow

(* A rollback from a lower block touches more tokens. *)
LEMMA AffectedBelow ==
    ASSUME TypeInv, NEW from \in Heights, NEW c \in Heights, from <= c,
           NEW t \in AffectedTokens(c)
    PROVE  t \in AffectedTokens(from)
<1>1. from \in Nat /\ c \in Nat /\ \A f \in facts : f.block \in Nat
    BY DEF TypeInv, TypeOK, Rows, Heights
<1>2. CASE t \in Tokens /\ launchBlock[t] >= c
    <2>1. launchBlock[t] \in Nat
        BY <1>2 DEF TypeInv, TypeOK
    <2>2. launchBlock[t] >= from
        BY <1>1, <1>2, <2>1
    <2>. QED BY <1>2, <2>2 DEF AffectedTokens
<1>3. CASE \E f \in facts : f.table = "trades" /\ f.block >= c /\ f.tx.tok = t
    <2>1. \E f \in facts : f.table = "trades" /\ f.block >= from /\ f.tx.tok = t
        BY <1>1, <1>3
    <2>. QED BY <2>1 DEF AffectedTokens
<1>4. \/ \E f \in facts : f.table = "trades" /\ f.block >= c /\ f.tx.tok = t
      \/ t \in Tokens /\ launchBlock[t] >= c
    BY DEF AffectedTokens
<1>. QED BY <1>2, <1>3, <1>4

(* A token that a rollback touches is folded from its rows, one that it does *)
(* not touch loses no row of a trade.                                        *)
LEMMA RebuiltIs ==
    ASSUME NEW old, NEW table, NEW affected, NEW rows, NEW x \in Txs
    PROVE  Rebuilt(old, table, affected, rows)[x] =
             IF x.tok \notin affected THEN old[x]
             ELSE IF \E f \in rows : f.table = table /\ f.tx = x THEN 1 ELSE 0
BY DEF Rebuilt

(* What a rollback does not touch was in step with its rows before it. *)
LEMMA UntouchedIsSound ==
    ASSUME TypeInv, NEW from \in Heights, \A c \in Heights : Stale(c) => from <= c,
           NEW x, x.tok \notin AffectedTokens(from)
    PROVE  ~Suspect(x)
BY AffectedBelow DEF Suspect

(* The merge adds a trade to the candles once, or where a row is stale that a *)
(* rollback will start from.                                                 *)
LEMMA CandlesStep ==
    Inv /\ ValidChain(txsAt) /\ ProcessedOK /\ CandlesOK /\ [Next]_vars => CandlesOK'
<1>. SUFFICES ASSUME Inv, ValidChain(txsAt), ProcessedOK, CandlesOK, [Next]_vars,
                     NEW x \in Txs, x.tok \in ScoopTokens, ~Suspect(x)'
              PROVE  candle'[x] = IF InTable("trades", x)' THEN 1 ELSE 0
    BY DEF CandlesOK
<1>1. CASE ~ProcessBlock /\ ~HandleReorg
    <2>1. ~Suspect(x)
        BY <1>1, SuspectNext
    <2>2. candle[x] = IF InTable("trades", x) THEN 1 ELSE 0
        BY <2>1 DEF CandlesOK
    <2>. QED BY <1>1, <2>2, TablesKept
<1>2. CASE HandleReorg
    <2>1. PICK from \in Heights :
            /\ \A c \in Heights : Stale(c) => from <= c
            /\ facts' = {f \in facts : f.block < from}
            /\ candle' = Rebuilt(candle, "trades", AffectedTokens(from), facts')
        BY <1>2, RollbackEffect
    <2>2. CASE x.tok \in AffectedTokens(from)
        BY <2>1, <2>2, RebuiltIs DEF InTable
    <2>3. CASE x.tok \notin AffectedTokens(from)
        <3>1. ~Suspect(x)
            BY <2>1, <2>3, UntouchedIsSound DEF Inv
        <3>2. candle[x] = IF InTable("trades", x) THEN 1 ELSE 0
            BY <3>1 DEF CandlesOK
        <3>3. \A f \in facts : f.table = "trades" /\ f.tx = x => f \in facts'
            <4>1. \A f \in facts : f.table = "trades" /\ f.tx = x => ~(f.block >= from)
                BY <2>3 DEF AffectedTokens
            <4>2. \A f \in facts : f.block \in Nat
                BY DEF Inv, TypeInv, TypeOK, Rows, Heights
            <4>. QED BY <2>1, <4>1, <4>2 DEF Heights
        <3>4. InTable("trades", x)' <=> InTable("trades", x)
            BY <2>1, <3>3 DEF InTable
        <3>. QED BY <2>1, <2>3, <3>2, <3>4, RebuiltIs
    <2>. QED BY <2>2, <2>3
<1>3. CASE ProcessBlock
    <2>. DEFINE trades == TradesIn(txsAt[cursor + 1])
    <2>1. ~Suspect(x)
        BY <1>3, SuspectNext DEF ProcessBlock, HandleReorg
    <2>2. candle[x] = IF InTable("trades", x) THEN 1 ELSE 0
        BY <2>1 DEF CandlesOK
    <2>3. candle' = MergedCandle(trades)
        BY <1>3, BlockEffect
    <2>4. CASE x \notin trades
        <3>1. InTable("trades", x)' <=> InTable("trades", x)
            BY <1>3, <2>4, BlockRows DEF InTable
        <3>. QED BY <2>2, <2>3, <2>4, <3>1 DEF MergedCandle
    <2>5. CASE x \in trades
        <3>1. InTable("trades", x)'
            BY <1>3, <2>5, BlockRows DEF InTable
        <3>2. x.tok \notin PonsTokens
            BY TokensAssumption
        <3>3. ~IsLaunch(x) => ~InTable("trades", x)
            <4>1. SUFFICES ASSUME NEW f \in facts, f.table = "trades", f.tx = x
                           PROVE  FALSE
                BY DEF InTable
            <4>2. Stale(f.block)
                BY <1>3, <2>5, <4>1, MovedIsStale DEF TradesIn
            <4>3. x.tok \in AffectedTokens(f.block)
                BY <4>1, StaleRow DEF AffectedTokens, Heights
            <4>. QED BY <2>1, <4>2, <4>3, StaleRow DEF Suspect
        <3>4. candle'[x] = 1
            BY <2>2, <2>3, <2>5, <3>2, <3>3 DEF MergedCandle
        <3>. QED BY <3>1, <3>4
    <2>. QED BY <2>4, <2>5
<1>. QED BY <1>1, <1>2, <1>3

(* Once a reorg check has been made, and until the chain reorganises again,  *)
(* the candles of every Scoop token count each of its trade rows once: replay, *)
(* crash, a transaction that moved to a later block, and rollback included.  *)
(* For every chain, also with transfers outside of trades and Pons tokens.   *)
THEOREM CandlesMatch == Spec => []CandlesMatchTrades
<1>1. Init => ValidChain(txsAt) /\ ProcessedOK /\ CandlesOK
    <2>1. Init => ValidChain(txsAt)
        BY DEF Init, ValidChain
    <2>2. Init => ProcessedOK
        BY BoundsAssumption DEF Init, ProcessedOK, NoHash, Stale
    <2>3. Init => CandlesOK
        BY DEF Init, CandlesOK, InTable
    <2>. QED BY <2>1, <2>2, <2>3
<1>2. Inv /\ ValidChain(txsAt) /\ ProcessedOK /\ CandlesOK /\ [Next]_vars
        => (ValidChain(txsAt) /\ ProcessedOK /\ CandlesOK)'
    BY ValidStep, ProcessedStep, CandlesStep
<1>3. ProcessedOK /\ CandlesOK => CandlesMatchTrades
    BY DEF ProcessedOK, CandlesOK, CandlesMatchTrades, Suspect
<1>. QED BY <1>1, <1>2, <1>3, InvCorrect, PTL DEF Spec

-----------------------------------------------------------------------------
(* Finalized rows.  A rollback starts at a stale hash, so what must be kept  *)
(* away from a finalized row is a stale hash at or below it, its own or that *)
(* of an anchor.                                                             *)

FreshUpTo(h) == \A b \in Heights : b <= h => ~Stale(b)

FinalFresh ==
    /\ \A f \in facts : f.status = "finalized" => FreshUpTo(f.block)
    /\ Checked => FreshUpTo(heads.finalized)

(* Up to a height that no reorganisation reaches hashes stay fresh, unless a *)
(* header was read before one.                                               *)
LEMMA FreshNext ==
    ASSUME Inv, ProcessedOK, [Next]_vars, NEW h \in Nat, Stable(h), FreshUpTo(h),
           ProcessBlock /\ cursor + 1 <= h => header = hashAt[cursor + 1]
    PROVE  FreshUpTo(h)'
<1>. SUFFICES ASSUME NEW b \in Heights, b <= h, Stale(b)' PROVE FALSE
    BY DEF FreshUpTo
<1>1. CASE HandleReorg
    BY <1>1, RollbackEffect
<1>2. CASE ~HandleReorg
    <2>1. ~Stale(b)
        BY DEF FreshUpTo
    <2>2. CASE Reorg /\ final < b /\ b <= tip /\ tip - b < MaxDepth
        <3>1. b \in Nat /\ tip \in Nat /\ final \in Nat /\ MaxDepth \in Nat
            BY BoundsAssumption DEF Heights, Inv, TypeInv, TypeOK
        <3>. QED BY <2>2, <3>1 DEF Stable
    <2>3. CASE ProcessBlock /\ b = cursor + 1 /\ header # hashAt[b]
        BY <2>3
    <2>. QED BY <1>2, <2>1, <2>2, <2>3, StaleNext
<1>. QED BY <1>1, <1>2

(* Where a finalized row comes from. *)
LEMMA FinalizedFrom ==
    ASSUME Inv, [Next]_vars, NEW f \in facts', f.status = "finalized"
    PROVE  \/ \E g \in facts : g.block = f.block /\ g.status = "finalized"
           \/ Checked /\ f.block <= heads.finalized
<1>1. CASE f \in facts
    BY <1>1
<1>2. CASE ProcessBlock /\ f \notin facts
    <2>1. pc = "block"
        BY <1>2 DEF ProcessBlock
    <2>2. f.status = ConfirmationStatus(f.block, heads)
        <3>1. PICK new \in SUBSET Rows :
                /\ facts' = Upsert(facts, new)
                /\ \A g \in new : g.block = cursor + 1
                                  /\ g.status = ConfirmationStatus(cursor + 1, heads)
            BY <1>2, ProcessBlockRows DEF Inv
        <3>. QED BY <1>2, <3>1 DEF Upsert
    <2>. QED BY <2>1, <2>2 DEF ConfirmationStatus, Checked
<1>3. CASE PromoteConfirmations
    <2>1. pc = "promote" /\ facts' = Promoted(facts, heads) /\ facts \in SUBSET Rows
        BY <1>3 DEF PromoteConfirmations, Inv, TypeInv, TypeOK
    <2>2. PICK g \in facts :
            /\ f.block = g.block
            /\ f.status = g.status \/ f.status = ConfirmationStatus(f.block, heads)
        BY <2>1, PromotedRow
    <2>. QED BY <2>1, <2>2 DEF ConfirmationStatus, Checked
<1>4. CASE HandleReorg
    BY <1>4 DEF HandleReorg, FactsBelow
<1>. QED
    BY <1>1, <1>2, <1>3, <1>4
       DEF Next, Chain, Runner, Mine, Reorg, Finalize, Boot, SampleHeads, NoReorg,
           ReorgThrows, Idle, FetchLogs, AdvanceEmptyRange, ReadHeader, Rescan,
           Crash, vars, dbVars, factVars

(* What the sampled finalized head covers is fresh, and a header read there  *)
(* is the chain's.                                                           *)
LEMMA CoveredIsFresh ==
    ASSUME Inv, FinalFresh, Checked, NEW h \in Nat, h <= heads.finalized
    PROVE  /\ Stable(h) /\ FreshUpTo(h)
           /\ ProcessBlock /\ cursor + 1 <= h => header = hashAt[cursor + 1]
<1>1. heads.finalized \in Nat /\ Stable(heads.finalized)
    BY DEF Inv, ChainInv, BoundsOK, TypeInv, TypeOK
<1>2. Stable(h)
    BY <1>1, StableBelow DEF Inv
<1>3. FreshUpTo(h)
    BY <1>1 DEF FinalFresh, FreshUpTo, Heights
<1>4. ProcessBlock /\ cursor + 1 <= h => header = hashAt[cursor + 1]
    <2>1. cursor \in Nat
        BY DEF Inv, TypeInv, TypeOK
    <2>. QED BY <1>1, <2>1 DEF ProcessBlock, Inv, ChainInv, FinalOK
<1>. QED BY <1>2, <1>3, <1>4

(* A finalized row lies below the block under way, and stale hashes above it. *)
LEMMA FinalizedIsFresh ==
    ASSUME Inv, FinalFresh, NEW f \in facts, f.status = "finalized"
    PROVE  /\ f.block \in Nat /\ Stable(f.block) /\ FreshUpTo(f.block)
           /\ ProcessBlock => ~(cursor + 1 <= f.block)
<1>1. f.block \in Nat /\ f.block <= checkpoint /\ checkpoint \in Nat
    BY SMTT(30), StaleRow DEF Heights, Inv, TypeInv, TypeOK
<1>2. ProcessBlock => cursor = checkpoint
    BY BlockAhead
<1>. QED BY <1>1, <1>2 DEF Inv, ChainInv, FinalOK, FinalFresh

(* Every step keeps stale hashes above the finalized rows and heads.       *)
LEMMA FinalFreshStep ==
    Inv /\ ProcessedOK /\ FinalFresh /\ [Next]_vars => FinalFresh'
<1>. SUFFICES ASSUME Inv, ProcessedOK, FinalFresh, [Next]_vars PROVE FinalFresh'
    OBVIOUS
<1>1. ASSUME NEW f \in facts', f.status = "finalized" PROVE FreshUpTo(f.block)'
    <2>1. CASE \E g \in facts : g.block = f.block /\ g.status = "finalized"
        <3>1. PICK g \in facts : g.block = f.block /\ g.status = "finalized"
            BY <2>1
        <3>2. \A h \in Nat : h = g.block => FreshUpTo(h)'
            BY <3>1, FinalizedIsFresh, FreshNext
        <3>3. f.block \in Nat
            BY <3>1, FinalizedIsFresh
        <3>. QED BY <3>1, <3>2, <3>3
    <2>2. CASE Checked /\ f.block <= heads.finalized
        <3>1. TypeInv'
            BY TypeStep DEF Inv
        <3>2. facts' \subseteq Rows
            BY <3>1 DEF TypeInv, TypeOK
        <3>3. f.block \in Nat
            BY <3>2 DEF Rows, Heights
        <3>4. \A h \in Nat : h = f.block => FreshUpTo(h)'
            BY <2>2, CoveredIsFresh, FreshNext
        <3>. QED BY <3>3, <3>4
    <2>. QED BY <1>1, <2>1, <2>2, FinalizedFrom
<1>2. ASSUME Checked' PROVE FreshUpTo(heads.finalized)'
    <2>1. CASE NoReorg \/ HandleReorg
        <3>1. Settled'
            BY <2>1 DEF NoReorg, HandleReorg, Settled, chainVars
        <3>2. \A b \in Heights : ~Stale(b)'
            BY <3>1, ProcessedStep DEF ProcessedOK
        <3>. QED BY <3>2 DEF FreshUpTo
    <2>2. CASE Checked /\ heads' = heads
        <3>1. heads.finalized \in Nat
            BY DEF Inv, TypeInv, TypeOK
        <3>2. FreshUpTo(heads.finalized)
            BY <2>2 DEF FinalFresh
        <3>3. \A h \in Nat : h = heads.finalized => FreshUpTo(h)'
            BY <2>2, CoveredIsFresh, FreshNext
        <3>. QED BY <2>2, <3>1, <3>3 DEF FreshUpTo
    <2>3. Idle => Checked /\ (heads' = heads \/ ~Checked')
        BY Zenon DEF Idle, Checked
    <2>. QED
        BY <1>2, <2>1, <2>2, <2>3
           DEF Next, Chain, Runner, Mine, Reorg, Finalize, Boot, SampleHeads, Checked,
               ReorgThrows, FetchLogs, AdvanceEmptyRange, ReadHeader, ProcessBlock, Rescan,
               PromoteConfirmations, Crash, vars, memVars
<1>. QED BY <1>1, <1>2 DEF FinalFresh

(* A promotion leaves a finalized row as it is. *)
LEMMA PromotedFinalized ==
    ASSUME NEW rows \in SUBSET Rows, NEW h, NEW f \in rows, f.status = "finalized"
    PROVE  f \in Promoted(rows, h)
<1>1. Raised(f.status, f.block, h) = f.status
    BY DEF Raised, Rank, ConfirmationStatus
<1>2. f = [table |-> f.table, tx |-> f.tx, block |-> f.block, hash |-> f.hash,
           status |-> Raised(f.status, f.block, h)]
    BY <1>1 DEF Rows
<1>. QED BY <1>2 DEF Promoted

(* No step changes or deletes a finalized row. *)
LEMMA FinalizedKept ==
    ASSUME Inv, ValidChain(txsAt), ProcessedOK, FinalFresh, [Next]_vars,
           NEW f \in facts, f.status = "finalized"
    PROVE  f \in facts'
<1>1. CASE HandleReorg
    <2>1. PICK from \in Heights : FirstMismatch(from) /\ facts' = FactsBelow(from)
        BY <1>1 DEF HandleReorg
    <2>2. Stale(from)
        BY <2>1 DEF FirstMismatch, Mismatched, Stale
    <2>3. ~(from <= f.block) /\ f.block \in Nat /\ from \in Nat
        BY <2>2, FinalizedIsFresh DEF FreshUpTo, Heights
    <2>. QED BY <2>1, <2>3 DEF FactsBelow
<1>2. CASE PromoteConfirmations
    BY <1>2, PromotedFinalized DEF PromoteConfirmations, Inv, TypeInv, TypeOK
<1>3. CASE ProcessBlock
    <2>1. ~Stale(f.block)
        BY FinalizedIsFresh, StaleRow DEF FreshUpTo
    <2>2. f.tx \notin txsAt[cursor + 1]
        BY <1>3, <2>1, MovedIsStale
    <2>3. f.tx \notin TradesIn(txsAt[cursor + 1]) /\ f.tx \notin TransfersIn(txsAt[cursor + 1])
        BY <2>2 DEF TradesIn, TransfersIn
    <2>4. f.table \in {"trades", "transfers"}
        BY DEF Inv, TypeInv, TypeOK, Rows, Tables
    <2>. QED BY <1>3, <2>3, <2>4, BlockRows
<1>. QED
    BY <1>1, <1>2, <1>3
       DEF Next, Chain, Runner, Mine, Reorg, Finalize, Boot, SampleHeads, NoReorg,
           ReorgThrows, Idle, FetchLogs, AdvanceEmptyRange, ReadHeader, Rescan,
           Crash, vars, dbVars, factVars

(* A row marked finalized is never changed, moved or deleted again: no       *)
(* rollback reaches it, whatever stale hash lies elsewhere in the window, and *)
(* no replay writes its key for another block (reorg.ts, processBlock.ts).   *)
FinalizedStays ==
    [][\A f \in facts : f.status = "finalized" => f \in facts']_vars

(* A row marked finalized is never changed, moved or deleted: however sparse *)
(* the stored hashes are, a rollback starts above it.                        *)
THEOREM FinalizedKeeps == Spec => FinalizedStays
<1>1. Init => ValidChain(txsAt) /\ ProcessedOK /\ FinalFresh
    <2>1. Init => ValidChain(txsAt)
        BY DEF Init, ValidChain
    <2>2. Init => ProcessedOK
        BY BoundsAssumption DEF Init, ProcessedOK, NoHash, Stale
    <2>3. Init => FinalFresh
        BY DEF Init, FinalFresh, Checked
    <2>. QED BY <2>1, <2>2, <2>3
<1>2. Inv /\ ValidChain(txsAt) /\ ProcessedOK /\ FinalFresh /\ [Next]_vars
        => (ValidChain(txsAt) /\ ProcessedOK /\ FinalFresh)'
    BY ValidStep, ProcessedStep, FinalFreshStep
<1>3. Inv /\ ValidChain(txsAt) /\ ProcessedOK /\ FinalFresh /\ [Next]_vars
        => [\A f \in facts : f.status = "finalized" => f \in facts']_vars
    BY FinalizedKept
<1>. QED BY <1>1, <1>2, <1>3, InvCorrect, PTL DEF Spec, FinalizedStays

-----------------------------------------------------------------------------
(* Balances.  A rollback looks for the tokens to rebuild among trades and    *)
(* launches only (reorg.ts:110), so this needs that no transfer of a Scoop   *)
(* token happens outside of them.                                            *)

NoBareTransfers == \A x \in Txs : x.tok \in ScoopTokens => x.kind # "transfer"

(* A transfer row of a trade stands beside its trade row, which lies higher  *)
(* only where the transfer row is stale; one of a launch lies no higher than *)
(* its token's launch.                                                       *)
PairsOK ==
    \A f \in facts : f.table = "transfers" =>
        /\ HasTrade(f.tx) =>
             \E g \in facts : /\ g.table = "trades" /\ g.tx = f.tx
                              /\ g.block >= f.block
                              /\ ~Stale(f.block) => g.block = f.block
        /\ IsLaunch(f.tx) => launchBlock[f.tx.tok] >= f.block

BalancesOK ==
    \A x \in Txs : x.tok \in ScoopTokens /\ ~Suspect(x)
        => balance[x] = IF InTable("transfers", x) THEN 1 ELSE 0

(* Every step keeps the pairs of transfer and trade rows.                  *)
LEMMA PairsStep ==
    Inv /\ ValidChain(txsAt) /\ ProcessedOK /\ PairsOK /\ [Next]_vars => PairsOK'
<1>. SUFFICES ASSUME Inv, ValidChain(txsAt), ProcessedOK, PairsOK, [Next]_vars,
                     NEW f \in facts', f.table = "transfers"
              PROVE  /\ HasTrade(f.tx) =>
                          \E g \in facts' : /\ g.table = "trades" /\ g.tx = f.tx
                                            /\ g.block >= f.block
                                            /\ ~Stale(f.block)' => g.block = f.block
                     /\ IsLaunch(f.tx) => launchBlock'[f.tx.tok] >= f.block
    BY DEF PairsOK, HasTrade, IsLaunch
<1>1. CASE facts' = facts /\ ~HandleReorg /\ ~ProcessBlock
    <2>1. launchBlock' = launchBlock
        BY <1>1, TablesKept
    <2>2. Stale(f.block) => Stale(f.block)'
        BY <1>1, StaleNext, StaleRow
    <2>. QED BY <1>1, <2>1, <2>2 DEF PairsOK
<1>2. CASE PromoteConfirmations
    <2>1. facts' = Promoted(facts, heads) /\ launchBlock' = launchBlock
          /\ UNCHANGED <<processedBlocks, hashAt>>
        BY <1>2 DEF PromoteConfirmations, chainVars
    <2>2. PICK e \in facts : e.table = f.table /\ e.tx = f.tx /\ e.block = f.block
        BY <2>1 DEF Promoted
    <2>3. Stale(f.block)' <=> Stale(f.block)
        BY <2>1 DEF Stale
    <2>4. ASSUME HasTrade(f.tx)
          PROVE  \E g \in facts' : /\ g.table = "trades" /\ g.tx = f.tx
                                   /\ g.block >= f.block
                                   /\ ~Stale(f.block)' => g.block = f.block
        <3>1. PICK g \in facts : /\ g.table = "trades" /\ g.tx = f.tx
                                 /\ g.block >= f.block
                                 /\ ~Stale(f.block) => g.block = f.block
            BY <2>2, <2>4 DEF PairsOK
        <3>2. \E i \in facts' : i.table = g.table /\ i.tx = g.tx /\ i.block = g.block
            BY <2>1, PromotedKeeps
        <3>. QED BY <2>3, <3>1, <3>2
    <2>. QED BY <2>1, <2>2, <2>4 DEF PairsOK
<1>3. CASE HandleReorg
    <2>1. PICK from \in Heights :
            /\ \A c \in Heights : Stale(c) => from <= c
            /\ facts' = {g \in facts : g.block < from}
            /\ launchBlock' = launchBlock
        BY <1>3, RollbackEffect
    <2>2. f \in facts /\ ~Stale(f.block) /\ f.block < from
        BY <2>1, StaleRow DEF Heights
    <2>. QED BY <2>1, <2>2 DEF PairsOK
<1>4. CASE ProcessBlock
    <2>. DEFINE b == cursor + 1
                trades == TradesIn(txsAt[cursor + 1])
                transfers == TransfersIn(txsAt[cursor + 1])
    <2>1. /\ b \in Nat /\ b = checkpoint + 1 /\ checkpoint \in Nat
          /\ launchBlock \in [Tokens -> 0..MaxHeight]
          /\ txsAt[b] \in SUBSET Txs
        <3>1. cursor = checkpoint /\ checkpoint \in Nat /\ b \in Heights
            BY <1>4, BlockAhead
        <3>2. launchBlock \in [Tokens -> 0..MaxHeight] /\ txsAt \in [Heights -> SUBSET Txs]
            BY DEF Inv, TypeInv, TypeOK
        <3>. QED BY <3>1, <3>2 DEF Heights
    <2>2. launchBlock' = [t \in Tokens |-> IF t \in LaunchedIn(txsAt[b]) THEN b
                                           ELSE launchBlock[t]]
        BY <1>4, BlockEffect
    <2>3. CASE f.tx \in transfers /\ f.block = b
        <3>1. f.tx \in txsAt[b] /\ f.tx \in Txs
            BY <2>1, <2>3 DEF TransfersIn
        <3>2. HasTrade(f.tx) => f.tx \in trades
            BY <2>3 DEF TransfersIn, TradesIn
        <3>3. HasTrade(f.tx) => \E g \in facts' : /\ g.table = "trades" /\ g.tx = f.tx
                                                  /\ g.block = b
            BY <1>4, <3>2, BlockRows
        <3>4. IsLaunch(f.tx) => launchBlock'[f.tx.tok] = b
            BY <2>2, <3>1, TxsAssumption DEF LaunchedIn
        <3>. QED BY <2>1, <2>3, <3>3, <3>4
    <2>4. CASE f \in facts /\ f.tx \notin transfers
        <3>1. f.block \in Heights /\ f.block \in Nat /\ f.block < b /\ f.tx \in Txs
            BY <2>1, <2>4, StaleRow DEF Heights
        <3>2. Stale(f.block) => Stale(f.block)'
            BY <1>4, <3>1, StaleNext DEF ProcessBlock, HandleReorg
        <3>3. ASSUME IsLaunch(f.tx) PROVE launchBlock'[f.tx.tok] >= f.block
            <4>1. launchBlock[f.tx.tok] >= f.block /\ f.tx.tok \in Tokens
                BY <2>4, <3>1, <3>3, TxsAssumption DEF PairsOK
            <4>. QED BY <2>1, <2>2, <3>1, <4>1
        <3>4. ASSUME HasTrade(f.tx)
              PROVE  \E g \in facts' : /\ g.table = "trades" /\ g.tx = f.tx
                                       /\ g.block >= f.block
                                       /\ ~Stale(f.block)' => g.block = f.block
            <4>1. PICK g \in facts : /\ g.table = "trades" /\ g.tx = f.tx
                                     /\ g.block >= f.block
                                     /\ ~Stale(f.block) => g.block = f.block
                BY <2>4, <3>4 DEF PairsOK
            <4>2. CASE g.tx \in trades
                <5>1. PICK i \in facts' : i.table = "trades" /\ i.tx = g.tx /\ i.block = b
                    BY <1>4, <4>2, BlockRows
                <5>2. Stale(f.block)
                    BY <1>4, <2>4, <4>1, <4>2, MovedIsStale DEF TradesIn
                <5>. QED BY <2>1, <3>1, <3>2, <4>1, <5>1, <5>2
            <4>3. CASE g.tx \notin trades
                <5>1. g \in facts'
                    BY <1>4, <4>1, <4>3, BlockRows
                <5>. QED BY <3>2, <4>1, <5>1
            <4>. QED BY <4>2, <4>3
        <3>. QED BY <3>3, <3>4
    <2>. QED BY <1>4, <2>3, <2>4, BlockRows
<1>5. facts' = facts \/ PromoteConfirmations \/ HandleReorg \/ ProcessBlock
    BY DEF Next, Chain, Runner, Mine, Reorg, Finalize, Boot, SampleHeads, NoReorg,
           ReorgThrows, Idle, FetchLogs, AdvanceEmptyRange, ReadHeader, Rescan,
           Crash, vars, dbVars, factVars
<1>. QED BY <1>1, <1>2, <1>3, <1>4, <1>5

(* Where it is not a bare transfer, a transfer row's token is one that a     *)
(* rollback from its block rebuilds.                                         *)
LEMMA PairedIsAffected ==
    ASSUME Inv, PairsOK, NoBareTransfers, NEW f \in facts, f.table = "transfers",
           f.tx.tok \in ScoopTokens
    PROVE  f.tx.tok \in AffectedTokens(f.block)
<1>1. f.tx \in Txs /\ f.tx.tok \in Tokens
    BY StaleRow, TxsAssumption
<1>2. HasTrade(f.tx) \/ IsLaunch(f.tx)
    BY <1>1, TxsAssumption
       DEF NoBareTransfers, TxKinds, LaunchKinds, HasTrade, IsLaunch
<1>3. CASE HasTrade(f.tx)
    BY <1>3 DEF PairsOK, AffectedTokens
<1>4. CASE IsLaunch(f.tx)
    BY <1>1, <1>4 DEF PairsOK, AffectedTokens
<1>. QED BY <1>2, <1>3, <1>4

(* A row of a token whose launch is met again in a higher block is stale.    *)
LEMMA RelaunchedIsStale ==
    ASSUME Inv, ValidChain(txsAt), ProcessBlock, NEW f \in facts,
           NEW y \in txsAt[cursor + 1], IsLaunch(y), y.tok = f.tx.tok
    PROVE  Stale(f.block)
<1>1. /\ f.block \in Heights /\ f.block < cursor + 1 /\ cursor + 1 \in Heights
      /\ f.tx \in Txs
    BY BlockAhead, StaleRow DEF Heights
<1>2. SUFFICES ASSUME ~Stale(f.block) PROVE FALSE
    OBVIOUS
<1>3. f.tx \in txsAt[f.block]
    BY <1>2, StaleRow
<1>4. y \in Txs
    BY <1>1 DEF Inv, TypeInv, TypeOK
<1>7. PICK a \in 1..f.block : \E z \in txsAt[a] : IsLaunch(z) /\ z.tok = f.tx.tok
    BY <1>1, <1>3, LaunchBefore
<1>8. a \in Heights /\ a < cursor + 1
    <2>1. f.block \in 1..MaxHeight /\ cursor + 1 \in 1..MaxHeight /\ f.block < cursor + 1
        BY <1>1 DEF Heights
    <2>2. a \in Int /\ 1 <= a /\ a <= f.block
        BY <1>7, <2>1
    <2>. QED BY <2>1, <2>2, BoundsAssumption DEF Heights
<1>9. PICK z \in txsAt[a] : IsLaunch(z) /\ z.tok = f.tx.tok
    BY <1>7
<1>10. z \in Txs
    BY <1>8, <1>9 DEF Inv, TypeInv, TypeOK
<1>11. z = y
    BY <1>4, <1>9, <1>10, TxsAssumption DEF IsLaunch
<1>. QED BY <1>1, <1>8, <1>9, <1>11, MinedOnce

(* A transfer is folded once, or where a rollback will refold its token.   *)
LEMMA BalancesStep ==
    NoBareTransfers /\ Inv /\ ValidChain(txsAt) /\ ProcessedOK /\ PairsOK /\ BalancesOK
        /\ [Next]_vars
      => BalancesOK'
<1>. SUFFICES ASSUME NoBareTransfers, Inv, ValidChain(txsAt), ProcessedOK, PairsOK,
                     BalancesOK, [Next]_vars,
                     NEW x \in Txs, x.tok \in ScoopTokens, ~Suspect(x)'
              PROVE  balance'[x] = IF InTable("transfers", x)' THEN 1 ELSE 0
    BY DEF BalancesOK
<1>1. CASE ~ProcessBlock /\ ~HandleReorg
    <2>1. ~Suspect(x)
        BY <1>1, SuspectNext
    <2>2. balance[x] = IF InTable("transfers", x) THEN 1 ELSE 0
        BY <2>1 DEF BalancesOK
    <2>. QED BY <1>1, <2>2, TablesKept
<1>2. CASE HandleReorg
    <2>1. PICK from \in Heights :
            /\ \A c \in Heights : Stale(c) => from <= c
            /\ facts' = {f \in facts : f.block < from}
            /\ balance' = Rebuilt(balance, "transfers", AffectedTokens(from), facts')
        BY <1>2, RollbackEffect
    <2>2. CASE x.tok \in AffectedTokens(from)
        BY <2>1, <2>2, RebuiltIs DEF InTable
    <2>3. CASE x.tok \notin AffectedTokens(from)
        <3>1. ~Suspect(x)
            BY <2>1, <2>3, UntouchedIsSound DEF Inv
        <3>2. balance[x] = IF InTable("transfers", x) THEN 1 ELSE 0
            BY <3>1 DEF BalancesOK
        <3>3. ASSUME NEW f \in facts, f.table = "transfers", f.tx = x PROVE f \in facts'
            <4>1. f.block \in Heights /\ x.tok \in AffectedTokens(f.block)
                BY <3>3, PairedIsAffected, StaleRow
            <4>2. ~(from <= f.block)
                BY <2>3, <4>1, AffectedBelow DEF Inv
            <4>. QED BY <2>1, <4>1, <4>2 DEF Heights
        <3>4. InTable("transfers", x)' <=> InTable("transfers", x)
            BY <2>1, <3>3 DEF InTable
        <3>. QED BY <2>1, <2>3, <3>2, <3>4, RebuiltIs
    <2>. QED BY <2>2, <2>3
<1>3. CASE ProcessBlock
    <2>. DEFINE transfers == TransfersIn(txsAt[cursor + 1])
    <2>1. ~Suspect(x)
        BY <1>3, SuspectNext DEF ProcessBlock, HandleReorg
    <2>2. balance[x] = IF InTable("transfers", x) THEN 1 ELSE 0
        BY <2>1 DEF BalancesOK
    <2>3. balance' = FoldedBalance(transfers)
        BY <1>3, BlockEffect
    <2>4. ASSUME NEW f \in facts, f.table = "transfers", f.tx = x PROVE ~Stale(f.block)
        BY <2>1, <2>4, PairedIsAffected, StaleRow DEF Suspect
    <2>5. ASSUME NEW y \in transfers, IsLaunch(y), y.tok = x.tok
          PROVE  ~InTable("transfers", x)
        BY <1>3, <2>4, <2>5, RelaunchedIsStale DEF InTable, TransfersIn
    <2>6. CASE x \in transfers
        <3>1. InTable("transfers", x)'
            BY <1>3, <2>6, BlockRows DEF InTable
        <3>2. ~InTable("transfers", x)
            BY <1>3, <2>4, <2>6, MovedIsStale DEF InTable, TransfersIn
        <3>. QED BY <2>2, <2>3, <2>6, <3>1, <3>2 DEF FoldedBalance
    <2>7. CASE x \notin transfers
        <3>1. InTable("transfers", x)' <=> InTable("transfers", x)
            BY <1>3, <2>7, BlockRows DEF InTable
        <3>. QED BY <2>2, <2>3, <2>5, <2>7, <3>1 DEF FoldedBalance
    <2>. QED BY <2>6, <2>7
<1>. QED BY <1>1, <1>2, <1>3

(* The same of balances and transfer rows, where every transfer of a Scoop   *)
(* token belongs to a trade or to its launch.  Without that a rollback       *)
(* leaves balances of rows it deleted.                                       *)
THEOREM BalancesMatch == NoBareTransfers /\ Spec => []BalancesMatchTransfers
<1>. SUFFICES ASSUME NoBareTransfers PROVE Spec => []BalancesMatchTransfers
    OBVIOUS
<1>1. Init => ValidChain(txsAt) /\ ProcessedOK /\ PairsOK /\ BalancesOK
    <2>1. Init => ValidChain(txsAt)
        BY DEF Init, ValidChain
    <2>2. Init => ProcessedOK
        BY BoundsAssumption DEF Init, ProcessedOK, NoHash, Stale
    <2>3. Init => PairsOK /\ BalancesOK
        BY DEF Init, PairsOK, BalancesOK, InTable
    <2>. QED BY <2>1, <2>2, <2>3
<1>2. Inv /\ ValidChain(txsAt) /\ ProcessedOK /\ PairsOK /\ BalancesOK /\ [Next]_vars
        => (ValidChain(txsAt) /\ ProcessedOK /\ PairsOK /\ BalancesOK)'
    BY ValidStep, ProcessedStep, PairsStep, BalancesStep
<1>3. ProcessedOK /\ BalancesOK => BalancesMatchTransfers
    BY DEF ProcessedOK, BalancesOK, BalancesMatchTransfers, Suspect
<1>. QED BY <1>1, <1>2, <1>3, InvCorrect, PTL DEF Spec

-----------------------------------------------------------------------------
(* Completeness without reorganisations.  The scan filters by the tokens     *)
(* watched, so what a batch leaves out must not concern a Scoop token: its    *)
(* launch is in the filter, and so is the token from its launch on.          *)

(* No block holds the launch of a Scoop token and another transaction of it. *)
LaunchesAlone ==
    \A txs \in BlockTxs : \A x, y \in txs :
        IsLaunch(x) /\ x.tok \in ScoopTokens /\ y.tok = x.tok => y = x

LaunchedWatched == pc # "boot" => \A t \in Tokens : launchBlock[t] > 0 => t \in watchlist

LaunchesIndexed ==
    \A b \in 1..checkpoint : \A x \in txsAt[b] :
        IsLaunch(x) /\ x.tok \in ScoopTokens => launchBlock[x.tok] > 0

(* The blocks left of a batch that the present filter shows are pending.     *)
BatchCovered ==
    pc \in {"walk", "block"} =>
        \A b \in cursor + 1..batchEnd : \A x \in txsAt[b] :
            FastVisible(x, watchlist) => b \in pending

CompleteOK ==
    /\ ValidChain(txsAt)
    /\ txsAt \in [Heights -> BlockTxs]
    /\ LaunchedWatched
    /\ forks = 0 => LaunchesIndexed /\ BatchCovered /\ Complete

(* Every block of the chain is one that can be mined.                      *)
LEMMA BlocksStep ==
    TypeInv /\ txsAt \in [Heights -> BlockTxs] /\ [Next]_vars
      => txsAt' \in [Heights -> BlockTxs]
<1>. SUFFICES ASSUME TypeInv, txsAt \in [Heights -> BlockTxs], [Next]_vars
              PROVE  txsAt' \in [Heights -> BlockTxs]
    OBVIOUS
<1>1. CASE Mine
    BY <1>1 DEF Mine
<1>2. CASE Reorg
    BY <1>2 DEF Reorg
<1>3. CASE txsAt' = txsAt
    BY <1>3
<1>. QED
    BY <1>1, <1>2, <1>3
       DEF Next, Chain, Runner, Finalize, Boot, SampleHeads, NoReorg, HandleReorg,
           ReorgThrows, Idle, FetchLogs, AdvanceEmptyRange, ReadHeader, ProcessBlock, Rescan,
           PromoteConfirmations, Crash, vars, chainVars

(* Every step keeps the tokens with a launch row in the watchlist.         *)
LEMMA WatchedStep == Inv /\ LaunchedWatched /\ [Next]_vars => LaunchedWatched'
<1>. SUFFICES ASSUME Inv, LaunchedWatched, [Next]_vars, pc' # "boot",
                     NEW t \in Tokens, launchBlock'[t] > 0
              PROVE  t \in watchlist'
    BY DEF LaunchedWatched
<1>1. CASE UNCHANGED <<launchBlock, watchlist>> /\ pc # "boot"
    BY <1>1 DEF LaunchedWatched
<1>2. CASE Boot \/ HandleReorg
    BY <1>2 DEF Boot, HandleReorg, LoadWatchlist, dbVars, factVars
<1>3. CASE ProcessBlock
    <2>1. /\ launchBlock' = [u \in Tokens |-> IF u \in LaunchedIn(txsAt[cursor + 1])
                                              THEN cursor + 1 ELSE launchBlock[u]]
          /\ watchlist' = watchlist \union LaunchedIn(txsAt[cursor + 1])
        BY <1>3, BlockEffect
    <2>2. pc # "boot"
        BY <1>3 DEF ProcessBlock
    <2>. QED BY <2>1, <2>2 DEF LaunchedWatched
<1>4. ~(ReorgThrows \/ Crash)
    BY DEF ReorgThrows, Crash
<1>5. CASE UNCHANGED <<launchBlock, watchlist, pc>>
    BY <1>5 DEF LaunchedWatched
<1>. QED
    BY <1>1, <1>2, <1>3, <1>4, <1>5
       DEF Next, Chain, Runner, Mine, Reorg, Finalize, SampleHeads, NoReorg,
           Idle, FetchLogs, AdvanceEmptyRange, ReadHeader, Rescan,
           PromoteConfirmations, vars, dbVars, factVars, memVars

(* A transaction of a Scoop token in a block of the batch is visible, or its *)
(* launch is in a block of the batch before it.                              *)
LEMMA ScoopIsVisible ==
    ASSUME Inv, ValidChain(txsAt), LaunchedWatched, LaunchesIndexed, InBatch,
           NEW b \in Heights, checkpoint < b, NEW x \in txsAt[b], x.tok \in ScoopTokens
    PROVE  \/ x.tok \in watchlist
           \/ \E a \in checkpoint + 1..b : \E y \in txsAt[a] :
                 IsLaunch(y) /\ y.tok = x.tok /\ FastVisible(y, watchlist)
<1>1. PICK a \in 1..b : \E y \in txsAt[a] : IsLaunch(y) /\ y.tok = x.tok
    BY LaunchBefore
<1>2. PICK y \in txsAt[a] : IsLaunch(y) /\ y.tok = x.tok
    BY <1>1
<1>3. checkpoint \in Nat /\ b \in Nat /\ a \in Nat /\ 1 <= a /\ a <= b
    BY DEF Inv, TypeInv, TypeOK, Heights
<1>4. CASE a <= checkpoint
    <2>1. launchBlock[x.tok] > 0
        BY <1>2, <1>3, <1>4 DEF LaunchesIndexed
    <2>2. pc # "boot" /\ x.tok \in Tokens
        BY DEF InBatch, Tokens
    <2>. QED BY <2>1, <2>2 DEF LaunchedWatched
<1>5. CASE checkpoint < a
    <2>1. a \in checkpoint + 1..b
        BY <1>3, <1>5
    <2>2. FastVisible(y, watchlist)
        BY <1>2 DEF FastVisible
    <2>. QED BY <1>2, <2>1, <2>2
<1>. QED BY <1>3, <1>4, <1>5

(* A range that is passed as empty holds nothing of a Scoop token. *)
LEMMA EmptyRangeIsEmpty ==
    ASSUME Inv, ValidChain(txsAt), LaunchedWatched, LaunchesIndexed, BatchCovered,
           pc = "walk", NEW to \in cursor + 1..batchEnd,
           cursor + 1..to \intersect pending = {},
           NEW b \in cursor + 1..to, NEW x \in txsAt[b]
    PROVE  x.tok \notin ScoopTokens
<1>1. cursor = checkpoint /\ checkpoint \in Nat /\ batchEnd \in 0..MaxHeight
    BY DEF Inv, TypeInv, TypeOK, CursorOK, InBatch
<1>2. to \in Int /\ to <= MaxHeight /\ b \in Int /\ checkpoint + 1 <= b /\ b <= to
    BY <1>1, BoundsAssumption
<1>3. b \in Heights /\ checkpoint < b
    BY <1>1, <1>2, BoundsAssumption DEF Heights
<1>4. SUFFICES ASSUME x.tok \in ScoopTokens PROVE FALSE
    OBVIOUS
<1>5. \A a \in cursor + 1..b : \A y \in txsAt[a] : ~FastVisible(y, watchlist)
    <2>1. SUFFICES ASSUME NEW a \in cursor + 1..b, NEW y \in txsAt[a],
                          FastVisible(y, watchlist)
                   PROVE  FALSE
        OBVIOUS
    <2>2. a \in cursor + 1..to /\ a \in cursor + 1..batchEnd
        BY <1>1, <1>2
    <2>3. a \in pending
        BY <2>1, <2>2 DEF BatchCovered
    <2>. QED BY <2>2, <2>3
<1>6. x.tok \notin watchlist
    BY <1>1, <1>2, <1>5 DEF FastVisible
<1>. QED BY <1>1, <1>3, <1>4, <1>5, <1>6, ScoopIsVisible DEF InBatch

(* A block that is processed gets a row of everything of a Scoop token in it. *)
LEMMA BlockIsRecorded ==
    ASSUME LaunchesAlone, txsAt \in [Heights -> BlockTxs],
           Inv, ValidChain(txsAt), LaunchedWatched, LaunchesIndexed, ProcessBlock,
           NEW x \in txsAt[cursor + 1], x.tok \in ScoopTokens
    PROVE  /\ x \in TransfersIn(txsAt[cursor + 1])
           /\ HasTrade(x) => x \in TradesIn(txsAt[cursor + 1])
<1>1. /\ cursor = checkpoint /\ checkpoint \in Nat /\ cursor + 1 \in Heights
      /\ checkpoint < cursor + 1
    BY BlockAhead
<1>2. InBatch
    BY DEF ProcessBlock, InBatch
<1>3. CASE x.tok \in watchlist
    BY <1>3 DEF TransfersIn, TradesIn
<1>4. CASE \E a \in checkpoint + 1..cursor + 1 : \E y \in txsAt[a] :
              IsLaunch(y) /\ y.tok = x.tok
    <2>1. PICK y \in txsAt[cursor + 1] : IsLaunch(y) /\ y.tok = x.tok
        BY <1>1, <1>4
    <2>2. y = x
        BY <1>1, <2>1 DEF LaunchesAlone
    <2>. QED BY <2>1, <2>2 DEF TransfersIn, TradesIn
<1>. QED BY <1>1, <1>2, <1>3, <1>4, ScoopIsVisible

(* Without a reorganisation no check rolls anything back. *)
LEMMA NothingToRoll ==
    ASSUME Inv, ProcessedOK, forks = 0
    PROVE  ~HandleReorg
<1>1. \A b \in Heights : processedBlocks[b] # NoHash => processedBlocks[b] = hashAt[b]
    BY DEF ProcessedOK, Inv, TypeInv, TypeOK, ChainInv, HashesOK, Hashes
<1>2. Mismatched = {}
    BY <1>1 DEF Mismatched
<1>. QED BY <1>2 DEF HandleReorg, FirstMismatch

(* What a step that is neither a rollback nor a reorganisation leaves of the *)
(* chain below the tip.                                                      *)
LEMMA BelowTip ==
    ASSUME TypeInv, [Next]_vars, ~Reorg, NEW b \in Heights, b <= tip
    PROVE  txsAt'[b] = txsAt[b]
<1>1. CASE Mine
    BY <1>1 DEF Mine, TypeInv, TypeOK, Heights
<1>2. CASE txsAt' = txsAt
    BY <1>2
<1>. QED
    BY <1>1, <1>2
       DEF Next, Chain, Runner, Finalize, Boot, SampleHeads, NoReorg, HandleReorg,
           ReorgThrows, Idle, FetchLogs, AdvanceEmptyRange, ReadHeader, ProcessBlock, Rescan,
           PromoteConfirmations, Crash, vars, chainVars

(* A row is never given up but by a rollback. *)
LEMMA RowsStay ==
    ASSUME Inv, [Next]_vars, ~HandleReorg, NEW x, NEW table \in Tables, InTable(table, x)
    PROVE  InTable(table, x)'
<1>1. CASE ~ProcessBlock
    BY <1>1, TablesKept
<1>2. CASE ProcessBlock
    <2>1. PICK f \in facts : f.table = table /\ f.tx = x
        BY DEF InTable
    <2>2. CASE table = "trades"
        BY <1>2, <2>1, <2>2, BlockRows DEF InTable
    <2>3. CASE table = "transfers"
        BY <1>2, <2>1, <2>3, BlockRows DEF InTable
    <2>. QED BY <2>2, <2>3 DEF Tables
<1>. QED BY <1>1, <1>2

(* A launch in a block changes the filter, and the rescan makes up for it. *)
LEMMA BatchCoveredStep ==
    Inv /\ BatchCovered /\ [Next]_vars /\ ~Reorg => BatchCovered'
<1>. SUFFICES ASSUME Inv, BatchCovered, [Next]_vars, ~Reorg, pc' \in {"walk", "block"},
                     NEW b \in (cursor + 1..batchEnd)', NEW x \in txsAt'[b],
                     FastVisible(x, watchlist')
              PROVE  b \in pending'
    BY DEF BatchCovered, FastVisible
<1>1. /\ cursor \in Nat /\ batchEnd \in Nat /\ tip \in Nat
      /\ InBatch => batchEnd <= tip
    BY DEF Inv, TypeInv, TypeOK, ChainInv, BoundsOK, ReachesAtMost
<1>2. CASE Chain \/ ReadHeader \/ UNCHANGED vars
    <2>1. UNCHANGED <<cursor, batchEnd, watchlist, pending>> /\ pc \in {"walk", "block"}
        BY <1>2 DEF Chain, Mine, Reorg, Finalize, ReadHeader, vars, memVars
    <2>2. b \in Heights /\ b <= tip
        <3>1. b \in cursor + 1..batchEnd
            BY <2>1
        <3>2. batchEnd <= tip /\ tip \in 0..MaxHeight
            BY <1>1, <2>1 DEF InBatch, Inv, TypeInv, TypeOK
        <3>. QED BY <1>1, <3>1, <3>2, BoundsAssumption DEF Heights
    <2>3. txsAt'[b] = txsAt[b]
        BY <2>2, BelowTip DEF Inv
    <2>. QED BY <2>1, <2>3 DEF BatchCovered
<1>3. CASE FetchLogs
    <2>1. /\ pending' = InterestingBlocks(cursor + 1, batchEnd')
          /\ UNCHANGED <<cursor, watchlist, txsAt>>
        BY <1>3 DEF FetchLogs, chainVars
    <2>. QED BY <2>1 DEF InterestingBlocks
<1>4. CASE AdvanceEmptyRange
    <2>1. PICK to \in cursor + 1..batchEnd : cursor' = to
        BY <1>4 DEF AdvanceEmptyRange
    <2>2. UNCHANGED <<batchEnd, watchlist, pending, txsAt>> /\ pc = "walk"
        BY <1>4 DEF AdvanceEmptyRange, chainVars
    <2>3. b \in cursor + 1..batchEnd
        <3>1. b \in to + 1..batchEnd
            BY <2>1, <2>2
        <3>. QED BY <1>1, <2>1, <3>1
    <2>. QED BY <2>2, <2>3 DEF BatchCovered
<1>5. CASE ProcessBlock
    <2>1. /\ watchlist' = watchlist \union LaunchedIn(txsAt[cursor + 1])
          /\ pending' = pending \ {cursor + 1}
          /\ pc' = IF LaunchedIn(txsAt[cursor + 1]) \subseteq watchlist
                   THEN NextStop(cursor + 1) ELSE "rescan"
        BY <1>5, BlockEffect
    <2>2. /\ cursor' = cursor + 1 /\ UNCHANGED <<batchEnd, txsAt>> /\ pc = "block"
        BY <1>5 DEF ProcessBlock, chainVars
    <2>3. LaunchedIn(txsAt[cursor + 1]) \subseteq watchlist
        BY <2>1
    <2>4. watchlist' = watchlist
        BY <2>1, <2>3
    <2>5. b \in cursor + 1..batchEnd /\ b # cursor + 1
        BY <1>1, <2>2
    <2>. QED BY <2>1, <2>2, <2>4, <2>5 DEF BatchCovered
<1>6. CASE Rescan
    <2>1. /\ pending' = pending \union InterestingBlocks(cursor + 1, batchEnd)
          /\ UNCHANGED <<cursor, batchEnd, watchlist, txsAt>>
        BY <1>6 DEF Rescan, chainVars
    <2>. QED BY <2>1 DEF InterestingBlocks
<1>7. Next /\ ~Chain => \/ ReadHeader \/ FetchLogs \/ AdvanceEmptyRange
                        \/ ProcessBlock \/ Rescan
    <2>1. ~Idle
        BY Zenon DEF Idle
    <2>2. ~(Boot \/ SampleHeads \/ NoReorg \/ HandleReorg \/ ReorgThrows
             \/ PromoteConfirmations \/ Crash)
        BY DEF Boot, SampleHeads, NoReorg, HandleReorg, ReorgThrows, PromoteConfirmations,
               Crash
    <2>. QED BY <2>1, <2>2 DEF Next, Runner
<1>. QED BY <1>2, <1>3, <1>4, <1>5, <1>6, <1>7

(* Everything of a Scoop token up to the checkpoint is recorded, its launches *)
(* under a block number.                                                     *)
LEMMA CompleteStep ==
    LaunchesAlone /\ Inv /\ ProcessedOK /\ CompleteOK /\ [Next]_vars => CompleteOK'
<1>. SUFFICES ASSUME LaunchesAlone, Inv, ProcessedOK, CompleteOK, [Next]_vars
              PROVE  CompleteOK'
    OBVIOUS
<1>1. /\ ValidChain(txsAt)' /\ txsAt' \in [Heights -> BlockTxs] /\ LaunchedWatched'
    BY ValidStep, BlocksStep, WatchedStep DEF CompleteOK, Inv
<1>2. SUFFICES ASSUME forks' = 0 PROVE LaunchesIndexed' /\ BatchCovered' /\ Complete'
    BY <1>1 DEF CompleteOK
<1>3. forks = 0 /\ ~Reorg
    <2>1. forks \in Nat
        BY DEF Inv, TypeInv, TypeOK, Hashes
    <2>2. ~Reorg
        BY <1>2, <2>1 DEF Reorg
    <2>3. forks' = forks
        BY <2>2 DEF Next, Chain, Runner, Mine, Finalize, Boot, SampleHeads, NoReorg,
               HandleReorg, ReorgThrows, Idle, FetchLogs, AdvanceEmptyRange, ReadHeader,
               ProcessBlock, Rescan, PromoteConfirmations, Crash, vars, chainVars
    <2>. QED BY <1>2, <2>2, <2>3
<1>4. ~HandleReorg
    BY <1>3, NothingToRoll
<1>5. /\ ValidChain(txsAt) /\ txsAt \in [Heights -> BlockTxs] /\ LaunchedWatched
      /\ LaunchesIndexed /\ BatchCovered /\ Complete
    BY <1>3 DEF CompleteOK
<1>6. BatchCovered'
    BY <1>3, <1>5, BatchCoveredStep
<1>7. /\ checkpoint \in Nat /\ tip \in Nat /\ checkpoint <= tip /\ tip <= MaxHeight
      /\ launchBlock \in [Tokens -> 0..MaxHeight]
      /\ \A b \in Heights : txsAt[b] \in SUBSET Txs
    BY DEF Inv, TypeInv, TypeOK, ChainInv, BoundsOK, ReachesAtMost
<1>8. \A t \in Tokens : launchBlock[t] > 0 => launchBlock'[t] > 0
    <2>1. CASE ProcessBlock
        <3>1. cursor + 1 > 0
            BY <2>1, BlockAhead DEF Heights
        <3>. QED BY <1>7, <2>1, <3>1, BlockEffect
    <2>2. CASE ~ProcessBlock
        BY <1>4, <2>2, TablesKept
    <2>. QED BY <2>1, <2>2
(* A block up to the new checkpoint was up to the old one, or is passed now. *)
<1>9. ASSUME NEW b \in (1..checkpoint)', NEW x \in txsAt'[b], x.tok \in ScoopTokens
      PROVE  \/ b \in 1..checkpoint /\ x \in txsAt[b]
             \/ ProcessBlock /\ b = cursor + 1 /\ x \in txsAt[cursor + 1]
    <2>1. CASE checkpoint' = checkpoint
        <3>1. b \in 1..checkpoint /\ b \in Heights /\ b <= tip
            <4>1. b \in 1..checkpoint
                BY <1>9, <2>1
            <4>. QED BY <1>7, <4>1, BoundsAssumption DEF Heights
        <3>. QED BY <1>3, <1>9, <3>1, BelowTip DEF Inv
    <2>2. CASE AdvanceEmptyRange
        <3>1. PICK to \in cursor + 1..batchEnd :
                cursor + 1..to \intersect pending = {} /\ checkpoint' = to
            BY <2>2 DEF AdvanceEmptyRange
        <3>2. pc = "walk" /\ cursor = checkpoint /\ txsAt' = txsAt
            BY <2>2 DEF AdvanceEmptyRange, chainVars, Inv, TypeInv, CursorOK, InBatch
        <3>3. \A c \in cursor + 1..to : \A y \in txsAt[c] : y.tok \notin ScoopTokens
            BY <1>5, <3>1, <3>2, EmptyRangeIsEmpty
        <3>4. b \notin cursor + 1..to
            BY <1>9, <3>2, <3>3
        <3>5. b \in 1..checkpoint
            BY <1>7, <1>9, <3>1, <3>2, <3>4
        <3>. QED BY <1>9, <3>2, <3>5
    <2>3. CASE ProcessBlock
        <3>1. checkpoint' = checkpoint + 1 /\ cursor = checkpoint /\ txsAt' = txsAt
            BY <2>3, BlockAhead DEF ProcessBlock, chainVars
        <3>2. b \in 1..checkpoint \/ b = cursor + 1
            BY <1>7, <1>9, <3>1
        <3>. QED BY <1>9, <2>3, <3>1, <3>2
    <2>4. checkpoint' = checkpoint \/ AdvanceEmptyRange \/ ProcessBlock
        BY <1>4 DEF Next, Chain, Runner, Mine, Reorg, Finalize, Boot, SampleHeads, NoReorg,
               ReorgThrows, Idle, FetchLogs, ReadHeader, Rescan, PromoteConfirmations, Crash,
               vars, dbVars
    <2>. QED BY <2>1, <2>2, <2>3, <2>4
<1>10. LaunchesIndexed'
    <2>1. SUFFICES ASSUME NEW b \in (1..checkpoint)', NEW x \in txsAt'[b],
                          IsLaunch(x), x.tok \in ScoopTokens
                   PROVE  launchBlock'[x.tok] > 0
        BY DEF LaunchesIndexed, IsLaunch
    <2>2. x.tok \in Tokens
        BY <2>1 DEF Tokens
    <2>3. CASE b \in 1..checkpoint /\ x \in txsAt[b]
        BY <1>5, <1>8, <2>1, <2>2, <2>3 DEF LaunchesIndexed
    <2>4. CASE ProcessBlock /\ x \in txsAt[cursor + 1]
        <3>1. x.tok \in LaunchedIn(txsAt[cursor + 1])
            BY <2>1, <2>4 DEF LaunchedIn
        <3>2. cursor + 1 > 0
            BY <2>4, BlockAhead DEF Heights
        <3>. QED BY <2>2, <2>4, <3>1, <3>2, BlockEffect
    <2>. QED BY <1>9, <2>1, <2>3, <2>4
<1>11. Complete'
    <2>1. SUFFICES ASSUME NEW b \in (1..checkpoint)', NEW x \in txsAt'[b],
                          x.tok \in ScoopTokens
                   PROVE  /\ HasTrade(x) => InTable("trades", x)'
                          /\ InTable("transfers", x)'
        BY DEF Complete, HasTrade
    <2>2. CASE b \in 1..checkpoint /\ x \in txsAt[b]
        BY <1>4, <1>5, <2>1, <2>2, RowsStay DEF Complete, Tables
    <2>3. CASE ProcessBlock /\ x \in txsAt[cursor + 1]
        <3>1. /\ x \in TransfersIn(txsAt[cursor + 1])
              /\ HasTrade(x) => x \in TradesIn(txsAt[cursor + 1])
            BY <1>5, <2>1, <2>3, BlockIsRecorded
        <3>. QED BY <2>3, <3>1, BlockRows DEF InTable
    <2>. QED BY <1>9, <2>1, <2>2, <2>3
<1>. QED BY <1>6, <1>10, <1>11

(* As long as the chain has not reorganised, every trade and transfer of a   *)
(* Scoop token up to the checkpoint has its row: across crashes, launches in *)
(* the middle of a batch, whatever the batch size and the spacing, provided  *)
(* that no block holds a token's launch and another transaction of it, which *)
(* the indexer does not see (processBlock.ts:185).                           *)
THEOREM NoneSkipped == LaunchesAlone /\ Spec => []NoEventSkippedWithoutReorg
<1>. SUFFICES ASSUME LaunchesAlone PROVE Spec => []NoEventSkippedWithoutReorg
    OBVIOUS
<1>1. Init => ProcessedOK /\ CompleteOK
    <2>1. Init => ProcessedOK
        BY BoundsAssumption DEF Init, ProcessedOK, NoHash, Stale
    <2>2. Init => ValidChain(txsAt) /\ txsAt \in [Heights -> BlockTxs] /\ LaunchedWatched
        BY TxsAssumption DEF Init, ValidChain, LaunchedWatched
    <2>3. Init => LaunchesIndexed /\ BatchCovered /\ Complete
        BY DEF Init, LaunchesIndexed, BatchCovered, Complete
    <2>. QED BY <2>1, <2>2, <2>3 DEF CompleteOK
<1>2. Inv /\ ProcessedOK /\ CompleteOK /\ [Next]_vars => (ProcessedOK /\ CompleteOK)'
    BY ProcessedStep, CompleteStep
<1>3. CompleteOK => NoEventSkippedWithoutReorg
    BY DEF CompleteOK, NoEventSkippedWithoutReorg
<1>. QED BY <1>1, <1>2, <1>3, InvCorrect, PTL DEF Spec

-----------------------------------------------------------------------------
(* The ledger.  Each key has one row, so a key's place is that row's block;  *)
(* what a step does to places follows from the rows it writes.               *)

KeyOf(f) == <<f.table, f.tx>>
OneEach(rows) == \A f, g \in rows : f.table = g.table /\ f.tx = g.tx => f = g

(* The place of a key that has a row. *)
LEMMA PlaceOfRow ==
    ASSUME NEW rows, OneEach(rows), NEW f \in rows
    PROVE  PlaceIn(rows, KeyOf(f)) = f.block
<1>. DEFINE own == {g \in rows : g.table = f.table /\ g.tx = f.tx}
<1>1. f \in own /\ \A g \in own : g = f
    BY DEF OneEach
<1>. HIDE DEF own
<1>2. own # {} /\ (CHOOSE g \in own : TRUE) = f
    BY <1>1
<1>. QED BY <1>2 DEF PlaceIn, KeyOf, own

(* The place of a key that has none. *)
LEMMA PlaceOfNone ==
    ASSUME NEW rows, NEW k \in RowKeys, \A f \in rows : KeyOf(f) # k
    PROVE  PlaceIn(rows, k) = 0
<1>1. k = <<k[1], k[2]>>
    BY DEF RowKeys
<1>2. {f \in rows : f.table = k[1] /\ f.tx = k[2]} = {}
    BY <1>1 DEF KeyOf
<1>. QED BY <1>2 DEF PlaceIn

(* Rows of the same keys in the same blocks have the same places. *)
LEMMA PlacesKept ==
    ASSUME NEW old, NEW new, OneEach(old), OneEach(new), NEW k \in RowKeys,
           \A f \in old : \E g \in new : KeyOf(g) = KeyOf(f) /\ g.block = f.block,
           \A g \in new : \E f \in old : KeyOf(g) = KeyOf(f)
    PROVE  PlaceIn(new, k) = PlaceIn(old, k)
<1>1. CASE \E f \in old : KeyOf(f) = k
    <2>1. PICK f \in old : KeyOf(f) = k
        BY <1>1
    <2>2. PICK g \in new : KeyOf(g) = KeyOf(f) /\ g.block = f.block
        OBVIOUS
    <2>. QED BY <2>1, <2>2, PlaceOfRow
<1>2. CASE \A f \in old : KeyOf(f) # k
    BY <1>2, PlaceOfNone
<1>. QED BY <1>1, <1>2

(* What the invariants say of the rows before and after a step. *)
LEMMA RowsBefore ==
    ASSUME Inv, OneRowPerKey, [Next]_vars
    PROVE  /\ OneEach(facts) /\ OneEach(facts')
           /\ \A f \in facts : KeyOf(f) \in RowKeys /\ f.block \in 1..checkpoint
           /\ \A f \in facts' : KeyOf(f) \in RowKeys
           /\ checkpoint \in Nat
<1>1. OneEach(facts) /\ OneEach(facts')
    BY KeyStep DEF OneEach, OneRowPerKey, Inv
<1>2. facts \subseteq Rows /\ facts' \subseteq Rows /\ checkpoint \in Nat
    BY TypeStep DEF Inv, TypeInv, TypeOK
<1>3. \A f \in facts : f.block \in 1..checkpoint
    BY <1>2 DEF Rows, Heights, Inv, FactsAnchored
<1>. QED BY <1>1, <1>2, <1>3 DEF Rows, RowKeys, KeyOf

(* A finalized row stays, and with it its key among the sealed ones. *)
LEMMA SealedStays ==
    ASSUME Inv, ValidChain(txsAt), ProcessedOK, FinalFresh, [Next]_vars
    PROVE  SealedIn(facts) \subseteq SealedIn(facts')
BY FinalizedKept DEF SealedIn

(* A range without events moves the checkpoint only. *)
LEMMA EmptyRangeExtends ==
    ASSUME Inv, AdvanceEmptyRange
    PROVE  Ledger!Extend
<1>1. PICK to \in cursor + 1..batchEnd : checkpoint' = to
    BY DEF AdvanceEmptyRange
<1>2. facts' = facts /\ cursor = checkpoint /\ checkpoint \in Nat /\ batchEnd \in Nat
    BY DEF AdvanceEmptyRange, factVars, Inv, TypeInv, CursorOK, InBatch, TypeOK
<1>3. checkpoint < checkpoint'
    BY <1>1, <1>2
<1>. QED BY <1>2, <1>3 DEF Ledger!Extend

(* A processed block places its rows at the new checkpoint. *)
LEMMA BlockExtends ==
    ASSUME Inv, OneRowPerKey, ValidChain(txsAt), ProcessedOK, FinalFresh, [Next]_vars,
           ProcessBlock
    PROVE  Ledger!Extend
<1>. DEFINE b == cursor + 1
            trades == TradesIn(txsAt[cursor + 1])
            transfers == TransfersIn(txsAt[cursor + 1])
<1>1. checkpoint \in Nat /\ b = checkpoint + 1 /\ checkpoint' = b
    BY BlockAhead DEF ProcessBlock
<1>2. /\ \A f \in facts' : f.block = b \/ f \in facts
      /\ \A x \in trades : \E f \in facts' : f.table = "trades" /\ f.tx = x
      /\ \A x \in transfers : \E f \in facts' : f.table = "transfers" /\ f.tx = x
      /\ \A f \in facts : f.table = "trades" /\ f.tx \notin trades => f \in facts'
      /\ \A f \in facts : f.table = "transfers" /\ f.tx \notin transfers => f \in facts'
    BY BlockRows
<1>3. \A f \in facts : f.table \in {"trades", "transfers"}
    BY DEF Inv, TypeInv, TypeOK, Rows, Tables
<1>. HIDE DEF b, trades, transfers
<1>4. \A f \in facts : \E g \in facts' : KeyOf(g) = KeyOf(f)
    BY <1>2, <1>3 DEF KeyOf
<1>5. /\ OneEach(facts) /\ OneEach(facts')
      /\ \A f \in facts : f.block <= checkpoint /\ f.block \in Nat
    BY RowsBefore
<1>6. ASSUME NEW k \in RowKeys
      PROVE  \/ PlaceIn(facts', k) = PlaceIn(facts, k)
             \/ k \notin SealedIn(facts) /\ PlaceIn(facts', k) = b
    <2>1. CASE \A f \in facts' : KeyOf(f) # k
        BY <1>4, <2>1, PlaceOfNone
    <2>2. CASE \E f \in facts' : KeyOf(f) = k
        <3>1. PICK f \in facts' : KeyOf(f) = k
            BY <2>2
        <3>2. PlaceIn(facts', k) = f.block
            BY <1>5, <3>1, PlaceOfRow
        <3>3. CASE f \in facts
            BY <1>5, <3>1, <3>2, <3>3, PlaceOfRow
        <3>4. CASE f \notin facts
            <4>1. f.block = b
                BY <1>2, <3>4
            <4>2. k \notin SealedIn(facts)
                <5>1. SUFFICES ASSUME NEW g \in facts, g.status = "finalized", KeyOf(g) = k
                               PROVE  FALSE
                    BY DEF SealedIn, KeyOf
                <5>2. g \in facts'
                    BY <5>1, FinalizedKept
                <5>3. g = f
                    BY <1>5, <3>1, <5>1, <5>2 DEF OneEach, KeyOf
                <5>. QED BY <3>4, <5>3
            <4>. QED BY <3>2, <4>1, <4>2
        <3>. QED BY <3>3, <3>4
    <2>. QED BY <2>1, <2>2
<1>7. ASSUME NEW k \in SealedIn(facts'), k \notin SealedIn(facts)
      PROVE  k \in RowKeys /\ PlaceIn(facts', k) = b
    <2>1. PICK f \in facts' : f.status = "finalized" /\ KeyOf(f) = k
        BY <1>7 DEF SealedIn, KeyOf
    <2>2. f \notin facts
        BY <1>7, <2>1 DEF SealedIn, KeyOf
    <2>. QED BY <1>2, <1>5, <2>1, <2>2, PlaceOfRow, RowsBefore
<1>8. SealedIn(facts) \subseteq SealedIn(facts')
    BY SealedStays
<1>9. b \in checkpoint + 1 .. checkpoint' /\ checkpoint < checkpoint'
    BY <1>1
<1>10. \A k \in RowKeys :
         \/ PlaceIn(facts', k) = PlaceIn(facts, k)
         \/ k \notin SealedIn(facts) /\ PlaceIn(facts', k) \in checkpoint + 1 .. checkpoint'
    BY <1>6, <1>9
<1>11. \A k \in SealedIn(facts') \ SealedIn(facts) :
          k \in RowKeys /\ checkpoint < PlaceIn(facts', k)
    BY <1>1, <1>7
<1>. HIDE DEF RowKeys
<1>. QED BY <1>8, <1>9, <1>10, <1>11 DEF Ledger!Extend

(* A rollback cuts the ledger at the mismatch. *)
LEMMA ReorgRollsBack ==
    ASSUME Inv, OneRowPerKey, ValidChain(txsAt), ProcessedOK, FinalFresh, [Next]_vars,
           HandleReorg
    PROVE  Ledger!Rollback
<1>1. PICK from \in Heights : /\ FirstMismatch(from) /\ facts' = FactsBelow(from)
                              /\ checkpoint' = ReplayFrom(from)
    BY DEF HandleReorg
<1>2. from \in 1..checkpoint /\ from \in Nat /\ Stale(from)
    BY <1>1 DEF FirstMismatch, Mismatched, Stale, Heights, Inv, TypeInv, TypeOK
<1>3. /\ OneEach(facts) /\ OneEach(facts') /\ checkpoint' = from - 1
      /\ \A f \in facts : f.block \in Nat
      /\ \A f \in facts : f \in facts' <=> f.block < from
      /\ \A f \in facts' : f \in facts
    BY <1>1, RowsBefore DEF FactsBelow, ReplayFrom
<1>4. ASSUME NEW k \in RowKeys
      PROVE  PlaceIn(facts', k) = IF PlaceIn(facts, k) < from THEN PlaceIn(facts, k) ELSE 0
    <2>1. CASE \A f \in facts : KeyOf(f) # k
        BY <1>2, <1>3, <2>1, PlaceOfNone
    <2>2. CASE \E f \in facts : KeyOf(f) = k
        <3>1. PICK f \in facts : KeyOf(f) = k
            BY <2>2
        <3>2. PlaceIn(facts, k) = f.block
            BY <1>3, <3>1, PlaceOfRow
        <3>3. CASE f.block < from
            BY <1>3, <3>1, <3>2, <3>3, PlaceOfRow
        <3>4. CASE ~(f.block < from)
            <4>1. \A g \in facts' : KeyOf(g) # k
                BY <1>3, <3>1, <3>4 DEF OneEach, KeyOf
            <4>. QED BY <3>2, <3>4, <4>1, PlaceOfNone
        <3>. QED BY <3>3, <3>4
    <2>. QED BY <2>1, <2>2
<1>5. \A k \in SealedIn(facts) : k \in RowKeys /\ PlaceIn(facts, k) < from
    <2>1. SUFFICES ASSUME NEW f \in facts, f.status = "finalized"
                   PROVE  KeyOf(f) \in RowKeys /\ PlaceIn(facts, KeyOf(f)) < from
        BY DEF SealedIn, KeyOf
    <2>2. ~(from <= f.block)
        BY <1>2, <2>1, FinalizedIsFresh DEF FreshUpTo
    <2>. QED BY <1>2, <1>3, <2>2, PlaceOfRow, RowsBefore
<1>6. SealedIn(facts') = SealedIn(facts)
    <2>1. SealedIn(facts') \subseteq SealedIn(facts)
        BY <1>3 DEF SealedIn
    <2>. QED BY <2>1, SealedStays
<1>. HIDE DEF RowKeys
<1>7. [k \in RowKeys |-> PlaceIn(facts', k)] =
        [k \in RowKeys |->
           IF [j \in RowKeys |-> PlaceIn(facts, j)][k] < from
           THEN [j \in RowKeys |-> PlaceIn(facts, j)][k] ELSE 0]
    BY <1>4
<1>8. \A k \in SealedIn(facts) : [j \in RowKeys |-> PlaceIn(facts, j)][k] < from
    BY <1>5
<1>. QED BY <1>2, <1>3, <1>6, <1>7, <1>8 DEF Ledger!Rollback

(* A promotion seals rows where they are. *)
LEMMA PromotionSeals ==
    ASSUME Inv, OneRowPerKey, ValidChain(txsAt), ProcessedOK, FinalFresh, [Next]_vars,
           PromoteConfirmations
    PROVE  Ledger!Seal
<1>1. /\ facts' = Promoted(facts, heads) /\ checkpoint' = checkpoint
      /\ facts \in SUBSET Rows
    BY DEF PromoteConfirmations, Inv, TypeInv, TypeOK
<1>2. /\ \A f \in facts : \E g \in facts' : KeyOf(g) = KeyOf(f) /\ g.block = f.block
      /\ \A g \in facts' : \E f \in facts : KeyOf(g) = KeyOf(f)
    BY <1>1, PromotedKeeps, PromotedRow DEF KeyOf
<1>3. \A k \in RowKeys : PlaceIn(facts', k) = PlaceIn(facts, k)
    BY <1>2, RowsBefore, PlacesKept
<1>4. \A k \in SealedIn(facts') : k \in RowKeys /\ PlaceIn(facts, k) # 0
    <2>1. SUFFICES ASSUME NEW g \in facts'
                   PROVE  KeyOf(g) \in RowKeys /\ PlaceIn(facts, KeyOf(g)) # 0
        BY DEF SealedIn, KeyOf
    <2>2. PICK f \in facts : KeyOf(g) = KeyOf(f)
        BY <1>2
    <2>3. f.block # 0 /\ OneEach(facts)
        BY RowsBefore
    <2>. QED BY <2>2, <2>3, PlaceOfRow, RowsBefore
<1>5. SealedIn(facts) \subseteq SealedIn(facts')
    BY SealedStays
<1>. HIDE DEF RowKeys
<1>. QED BY <1>1, <1>3, <1>4, <1>5 DEF Ledger!Seal

(* The indexer implements Ledger: whatever crashes, replays and              *)
(* reorganisations interleave, nothing appears at or below a checkpoint, a   *)
(* row goes only with a rollback of the checkpoint or to a block above it,   *)
(* and a finalized row never goes.                                           *)
THEOREM LedgerImplemented == Spec => LedgerSpec
<1>1. Init => Ledger!Init /\ OneRowPerKey /\ ValidChain(txsAt) /\ ProcessedOK /\ FinalFresh
    <2>1. Init => Ledger!Init
        <3>1. Init => SealedIn(facts) = {} /\ \A k \in RowKeys : PlaceIn(facts, k) = 0
            BY PlaceOfNone DEF Init, SealedIn
        <3>. QED BY <3>1 DEF Init, Ledger!Init
    <2>2. Init => OneRowPerKey /\ ValidChain(txsAt) /\ FinalFresh
        BY DEF Init, ValidChain, OneRowPerKey, FinalFresh, Checked
    <2>3. Init => ProcessedOK
        BY BoundsAssumption DEF Init, ProcessedOK, NoHash, Stale
    <2>. QED BY <2>1, <2>2, <2>3
<1>2. Inv /\ OneRowPerKey /\ ValidChain(txsAt) /\ ProcessedOK /\ FinalFresh /\ [Next]_vars
        => (OneRowPerKey /\ ValidChain(txsAt) /\ ProcessedOK /\ FinalFresh)'
    BY ValidStep, ProcessedStep, FinalFreshStep, KeyStep DEF Inv
<1>3. Inv /\ OneRowPerKey /\ ValidChain(txsAt) /\ ProcessedOK /\ FinalFresh /\ [Next]_vars
        => [Ledger!Next]_(Ledger!vars)
    <2>. SUFFICES ASSUME Inv, OneRowPerKey, ValidChain(txsAt), ProcessedOK, FinalFresh,
                         [Next]_vars
                  PROVE  Ledger!Next \/ UNCHANGED <<checkpoint, facts>>
        BY DEF Ledger!vars
    <2>1. \/ AdvanceEmptyRange \/ ProcessBlock \/ HandleReorg \/ PromoteConfirmations
          \/ UNCHANGED <<checkpoint, facts>>
        BY DEF Next, Chain, Runner, Mine, Reorg, Finalize, Boot, SampleHeads, NoReorg,
               ReorgThrows, Idle, FetchLogs, ReadHeader, Rescan, Crash, vars, dbVars, factVars
    <2>. QED BY <2>1, EmptyRangeExtends, BlockExtends, ReorgRollsBack, PromotionSeals
             DEF Ledger!Next
<1>. QED BY <1>1, <1>2, <1>3, InvCorrect, PTL DEF Spec, LedgerSpec, Ledger!Spec
=============================================================================
