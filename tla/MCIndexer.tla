------------------------------ MODULE MCIndexer ------------------------------
(* Small instances of Indexer.  A Scoop token s (and in some runs a Pons    *)
(* token p) with its launch and a few later transactions.                   *)
EXTENDS Indexer

Tx(id, kind, tok) == [id |-> id, kind |-> kind, tok |-> tok]

SLaunch == Tx("s0", "launch", "s")
SLaunchBuy == Tx("s0", "launchBuy", "s")
STrade == Tx("s1", "trade", "s")
PLaunch == Tx("p0", "launchBuy", "p")
PTrade == Tx("p1", "trade", "p")

Singly(txs) == {{}} \union {{x} : x \in txs}

(* A launch without a buy, and a trade. *)
OneTradeTxs == {SLaunch, STrade}
OneTradeBlocks == Singly(OneTradeTxs)

(* A Pons launch shares the block of the Scoop launch. *)
PonsTxs == {SLaunchBuy, STrade, PLaunch, PTrade}
PonsBlocks == Singly({SLaunchBuy, STrade, PTrade}) \union {{SLaunchBuy, PLaunch}}
=============================================================================
