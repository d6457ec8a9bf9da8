----------------------------- MODULE FeeKeeper -----------------------------
(***************************************************************************)
(* The Fee Keeper (apps/fee-keeper): a cron starts a process that takes an *)
(* advisory lock, lists the markets and, market by market, collects the    *)
(* fees of the liquidity position into the market's distributor and        *)
(* distributes what the distributor holds, asset by asset.  It keeps no    *)
(* state of its own: every decision is taken from balances that are read,  *)
(* the time of the last indexed trade and the wall clock.                  *)
(*                                                                         *)
(* An amount is abstracted to "zero or not": pool[m] says that the         *)
(* position of m has fees to collect, held[m] is the set of assets of      *)
(* which the distributor of m has a balance.  Time is counted in runs of   *)
(* the cron; clock is the time modulo the sweep period.                    *)
(*                                                                         *)
(* collectFees, distributeETH and distributeToken are permissionless: any  *)
(* account may call them between two steps of the keeper                   *)
(* (scoop-protocol-docs.md:387).                                           *)
(***************************************************************************)
EXTENDS Naturals, Sequences, FiniteSets

CONSTANTS
  Keepers,       \* processes that may be alive at the same time
  Nobody,        \* no process
  Markets,       \* what listFeeKeeperMarkets returns ...
  MarketOrder,   \* ... ordered by launched_at
  Poisoned,      \* <<market, asset>> whose distribution always reverts
  Unverified,    \* markets whose distribution receipts fail verification
  Lookback,      \* activityLookbackMinutes, in runs of the cron
  Period,        \* fallbackSweepMinutes, in runs of the cron
  Window,        \* cronWindowMinutes, in runs of the cron
  MaxTrades,     \* bound: trades
  FaultBudget    \* bound: failures of any kind

Assets == <<"quote", "token">>      \* the order of distributionActionsForMarket
AssetSet == {"quote", "token"}

ASSUME KeeperAssumption ==
  /\ Nobody \notin Keepers
  /\ Lookback \in Nat /\ Period \in Nat \ {0} /\ Window \in Nat \ {0}
  /\ MarketOrder \in Seq(Markets)
  /\ \A m \in Markets : \E i \in DOMAIN MarketOrder : MarketOrder[i] = m
  /\ Poisoned \subseteq Markets \X AssetSet
  /\ Unverified \subseteq Markets
  /\ MaxTrades \in Nat /\ FaultBudget \in Nat

VARIABLES
  clock,     \* time modulo Period
  fired,     \* the cron has started its process of this tick
  pool,      \* fees wait in the position of the market
  held,      \* assets of which the distributor has a balance
  indexed,   \* age of the last indexed trade, Lookback + 1 for "older or none"
  unseen,    \* a trade of the market is not indexed yet
  mempool,   \* the keeper account's transactions, in the order of their nonces
  receipt,   \* what waitForTransactionReceipt of the process has to return
  lock,      \* the process whose session holds the advisory lock
  run,       \* the processes
  trades, faults,
  waited,    \* history: ticks the fees of the market have waited for,
             \* while nothing has failed,
  strayed,   \* that a transaction or a run went on without the lock,
  taken,     \* balances others distributed under the keeper's transaction, and
  wasted     \* that a transaction was reverted without either

chain == <<pool, held, mempool, receipt, strayed, taken, wasted>>
vars == <<clock, fired, pool, held, indexed, unseen, mempool, receipt, lock,
          run, trades, faults, waited, strayed, taken, wasted>>

Off == [pc |-> "off", turn |-> 1, step |-> 1, balances |-> {},
        recent |-> {}, sweep |-> FALSE, gate |-> TRUE]

Phases == {"open", "market", "collect", "collecting", "again", "asset",
           "send", "distributing"}

TypeOK ==
  /\ clock \in 0..(Period - 1) /\ fired \in BOOLEAN
  /\ pool \in [Markets -> BOOLEAN]
  /\ held \in [Markets -> SUBSET AssetSet]
  /\ indexed \in [Markets -> 0..(Lookback + 1)]
  /\ unseen \in [Markets -> BOOLEAN]
  /\ mempool \in Seq([by : Keepers \cup {Nobody}, market : Markets,
                     asset : AssetSet \cup {"all"}])
  /\ receipt \in [Keepers -> {"none", "success", "reverted"}]
  /\ lock \in Keepers \cup {Nobody}
  /\ \A k \in Keepers : run[k].pc = "off" => run[k] = Off /\ lock # k
  /\ run \in [Keepers ->
       [pc : Phases \cup {"off"}, turn : 1..(Len(MarketOrder) + 1),
        step : 1..Len(Assets), balances : SUBSET AssetSet,
        recent : SUBSET Markets, sweep : BOOLEAN, gate : BOOLEAN]]
  /\ trades \in 0..MaxTrades /\ faults \in 0..FaultBudget
  /\ waited \in [Markets -> 0..(Period + 3)]
  /\ strayed \in BOOLEAN /\ wasted \in BOOLEAN
  /\ taken \subseteq Markets \X AssetSet

Init ==
  /\ clock = 0 /\ fired = FALSE
  /\ pool = [m \in Markets |-> FALSE]
  /\ held = [m \in Markets |-> {}]
  /\ indexed = [m \in Markets |-> Lookback + 1]
  /\ unseen = [m \in Markets |-> FALSE]
  /\ mempool = <<>>
  /\ receipt = [k \in Keepers |-> "none"]
  /\ lock = Nobody
  /\ run = [k \in Keepers |-> Off]
  /\ trades = 0 /\ faults = 0
  /\ waited = [m \in Markets |-> 0]
  /\ strayed = FALSE /\ taken = {} /\ wasted = FALSE

-----------------------------------------------------------------------------
(* decide.ts *)

\* The window opens one run late.
isFallbackSweepActiveSlip(t) == t % Period > 0 /\ t % Period < Window

\* The first Window of every Period.
isFallbackSweepActive(t) == t % Period < Window

\* Balances first, then activity or the sweep.
decideMarketService(r, m) ==
  CASE r.balances # {}            -> "distribute_only"
    [] r.balances = {} /\ (m \in r.recent \/ r.sweep) -> "collect_and_distribute"
    [] OTHER                      -> "skip"

-----------------------------------------------------------------------------
(* The process *)

At(k, pc) == run[k].pc = pc
Market(k) == MarketOrder[run[k].turn]
Asset(k) == Assets[run[k].step]

Step(k, r) == run' = [run EXCEPT ![k] = r]
Goto(k, pc) == Step(k, [run[k] EXCEPT !.pc = pc])

\* serviceMarket returns: the loop of runFeeKeeper goes on with the next one.
NextMarket(k) ==
  Step(k, [run[k] EXCEPT !.pc = "market", !.turn = @ + 1, !.step = 1,
                         !.balances = {}])

\* The next asset of the market, or the next market after the last one.
NextAsset(k) ==
  IF run[k].step < Len(Assets)
  THEN Step(k, [run[k] EXCEPT !.pc = "asset", !.step = @ + 1])
  ELSE NextMarket(k)

\* A transaction is mined whether or not its process still waits for it.
Abandon(k) ==
  /\ mempool' = [i \in DOMAIN mempool |->
       IF mempool[i].by = k THEN [mempool[i] EXCEPT !.by = Nobody]
                            ELSE mempool[i]]
  /\ receipt' = [receipt EXCEPT ![k] = "none"]
  /\ strayed' = (strayed \/ \E i \in DOMAIN mempool : mempool[i].by = k)

\* The run ends and leaves the lock to its session.
EndSlip(k) ==
  /\ run' = [run EXCEPT ![k] = Off]
  /\ UNCHANGED lock

\* finally { lock.release() } and the end of the process.
End(k) ==
  /\ run' = [run EXCEPT ![k] = Off]
  /\ lock' = IF lock = k THEN Nobody ELSE lock

Fault == faults < FaultBudget /\ faults' = faults + 1

world == <<clock, indexed, unseen, trades, waited>>

\* The answer of pg_try_advisory_lock is ignored.
tryAcquireFeeKeeperLockSlip(k) ==
  /\ lock' = k
  /\ Goto(k, "open")

\* One attempt: a process that finds the lock taken exits without servicing.
tryAcquireFeeKeeperLock(k) ==
  IF lock = Nobody
  THEN lock' = k /\ Goto(k, "open")
  ELSE UNCHANGED <<lock, run>>

\* The cron starts one process per tick.
Fire(k) ==
  /\ At(k, "off") /\ ~fired
  /\ fired' = TRUE
  /\ tryAcquireFeeKeeperLock(k)
  /\ UNCHANGED <<world, chain, faults>>

\* The chain id and the keeper's gas are read, the markets are listed, and the
\* clock is sampled once for the whole run.
Open(k) ==
  /\ At(k, "open")
  /\ Step(k, [run[k] EXCEPT !.pc = "market",
                            !.recent = {m \in Markets : indexed[m] <= Lookback},
                            !.sweep = isFallbackSweepActive(clock)])
  /\ UNCHANGED <<world, fired, chain, lock, faults>>

\* Without gas the write gate is closed: nothing is sent in this run.
OpenWithoutGas(k) ==
  /\ At(k, "open") /\ Fault
  /\ Step(k, [run[k] EXCEPT !.pc = "market", !.gate = FALSE,
                            !.recent = {m \in Markets : indexed[m] <= Lookback},
                            !.sweep = isFallbackSweepActive(clock)])
  /\ UNCHANGED <<world, fired, chain, lock>>

\* Balances are read and the market's treatment is decided.
ReadMarket(k) ==
  /\ At(k, "market") /\ run[k].turn <= Len(MarketOrder)
  /\ LET r == [run[k] EXCEPT !.balances = held[Market(k)]]
         decision == decideMarketService(r, Market(k))
     IN  \/ decision = "skip" /\ NextMarket(k)
         \/ decision = "distribute_only" /\ Step(k, [r EXCEPT !.pc = "asset"])
         \/ /\ decision = "collect_and_distribute"
            /\ Step(k, [r EXCEPT !.pc = "collect"])
  /\ UNCHANGED <<world, fired, chain, lock, faults>>

Finish(k) ==
  /\ At(k, "market") /\ run[k].turn > Len(MarketOrder)
  /\ End(k)
  /\ UNCHANGED <<world, fired, chain, faults>>

Send(k, asset) ==
  mempool' = Append(mempool, [by |-> k, market |-> Market(k), asset |-> asset])

\* simulateCollectFees and, behind the write gate, writeCollectFees.
Collect(k) ==
  /\ At(k, "collect")
  /\ \/ run[k].gate /\ Send(k, "all") /\ Goto(k, "collecting")
     \/ ~run[k].gate /\ Goto(k, "asset") /\ UNCHANGED mempool
  /\ UNCHANGED <<world, fired, pool, held, receipt, strayed, taken, wasted, lock,
                 faults>>

CollectReceipt(k) ==
  /\ At(k, "collecting") /\ receipt[k] = "success"
  /\ receipt' = [receipt EXCEPT ![k] = "none"]
  /\ Goto(k, "again")
  /\ UNCHANGED <<world, fired, pool, held, mempool, strayed, taken, wasted, lock,
                 faults>>

ReadAgain(k) ==
  /\ At(k, "again")
  /\ Step(k, [run[k] EXCEPT !.pc = "asset", !.balances = held[Market(k)]])
  /\ UNCHANGED <<world, fired, chain, lock, faults>>

\* The simulation sees a balance; what others do counts from here on.
Simulated(k) ==
  taken' = IF run'[k].pc = "send" THEN taken \ {<<Market(k), Asset(k)>>}
                                  ELSE taken

\* A revert of the simulation ends the run.
SimulateDistributeSlip(k) ==
  /\ At(k, "asset")
  /\ \/ Asset(k) \notin run[k].balances \cap held[Market(k)] /\ NextAsset(k)
     \/ /\ Asset(k) \in run[k].balances \cap held[Market(k)]
        /\ \/ /\ <<Market(k), Asset(k)>> \in Poisoned
              /\ Step(k, [run[k] EXCEPT !.pc = "market",
                                        !.turn = Len(MarketOrder) + 1])
           \/ <<Market(k), Asset(k)>> \notin Poisoned /\ Goto(k, "send")
  /\ Simulated(k)
  /\ UNCHANGED <<world, fired, pool, held, mempool, receipt, strayed, wasted, lock,
                 faults>>

\* simulateDistribute, repeated by writeDistribute behind the write gate.  A
\* zero balance is skipped, whether the snapshot or a simulation says it; any
\* other revert of a simulation ends the market.
SimulateDistribute(k) ==
  /\ At(k, "asset")
  /\ \/ Asset(k) \notin run[k].balances \cap held[Market(k)] /\ NextAsset(k)
     \/ /\ Asset(k) \in run[k].balances \cap held[Market(k)]
        /\ \/ <<Market(k), Asset(k)>> \in Poisoned /\ NextMarket(k)
           \/ /\ <<Market(k), Asset(k)>> \notin Poisoned
              /\ \/ run[k].gate /\ Goto(k, "send")
                 \/ ~run[k].gate /\ NextAsset(k)
  /\ Simulated(k)
  /\ UNCHANGED <<world, fired, pool, held, mempool, receipt, strayed, wasted, lock,
                 faults>>

SendDistribute(k) ==
  /\ At(k, "send")
  /\ Send(k, Asset(k))
  /\ Goto(k, "distributing")
  /\ UNCHANGED <<world, fired, pool, held, receipt, strayed, taken, wasted, lock,
                 faults>>

\* A reverted receipt, or one that fails verification, ends the market.
DistributeReceipt(k) ==
  /\ At(k, "distributing") /\ receipt[k] # "none"
  /\ receipt' = [receipt EXCEPT ![k] = "none"]
  /\ \/ /\ receipt[k] = "success" /\ Market(k) \notin Unverified
        /\ NextAsset(k)
     \/ /\ receipt[k] = "reverted" \/ Market(k) \in Unverified
        /\ NextMarket(k)
  /\ UNCHANGED <<world, fired, pool, held, mempool, strayed, taken, wasted, lock,
                 faults>>

\* A call that fails outside every try of serviceMarket: the whole run ends.
\* The read of the balances after a collect is one of them.
CallEndsRun(k) ==
  /\ run[k].pc \in {"open", "again"} /\ Fault
  /\ End(k)
  /\ UNCHANGED <<world, fired, chain>>

\* A call that fails where the market is given up: balances, simulations,
\* sends, and receipts that do not come in time.
CallEndsMarket(k) ==
  /\ \/ run[k].pc \in {"collect", "collecting", "asset", "send", "distributing"}
     \/ At(k, "market") /\ run[k].turn <= Len(MarketOrder)
  /\ Fault
  /\ NextMarket(k)
  /\ Abandon(k)
  /\ UNCHANGED <<world, fired, pool, held, taken, wasted, lock>>

\* The process dies; the database closes its session.
Crash(k) ==
  /\ ~At(k, "off") /\ Fault
  /\ End(k)
  /\ Abandon(k)
  /\ UNCHANGED <<world, fired, pool, held, taken, wasted>>

\* The session of the lock is lost; the run does not notice.
LoseLock(k) ==
  /\ lock = k /\ Fault
  /\ lock' = Nobody
  /\ strayed' = TRUE
  /\ UNCHANGED <<world, fired, pool, held, mempool, receipt, taken, wasted,
                 run>>

-----------------------------------------------------------------------------
(* The chain, the indexer and the clock *)

Answer(tx, status) ==
  receipt' = IF tx.by = Nobody THEN receipt
             ELSE [receipt EXCEPT ![tx.by] = status]

\* collectFees moves the fees of the position, in one or both assets.
MineCollect ==
  /\ mempool # <<>> /\ Head(mempool).asset = "all"
  /\ LET tx == Head(mempool)
     IN  /\ \/ /\ pool[tx.market]
               /\ \E got \in SUBSET AssetSet \ {{}} :
                    held' = [held EXCEPT ![tx.market] = @ \cup got]
            \/ ~pool[tx.market] /\ UNCHANGED held
         /\ pool' = [pool EXCEPT ![tx.market] = FALSE]
         /\ waited' = [waited EXCEPT ![tx.market] = 0]
         /\ Answer(tx, "success")
  /\ mempool' = Tail(mempool)
  /\ UNCHANGED <<clock, indexed, unseen, trades, fired, lock, run, faults, strayed,
                 taken, wasted>>

\* distributeETH and distributeToken revert on a zero balance, whoever made
\* it zero.
MineDistribute ==
  /\ mempool # <<>> /\ Head(mempool).asset # "all"
  /\ LET tx == Head(mempool)
         full == tx.asset \in held[tx.market]
     IN  /\ held' = [held EXCEPT ![tx.market] = @ \ {tx.asset}]
         /\ Answer(tx, IF full THEN "success" ELSE "reverted")
         /\ wasted' = (wasted \/ (/\ ~full /\ ~strayed
                                 /\ <<tx.market, tx.asset>> \notin taken))
         /\ taken' = taken \ {<<tx.market, tx.asset>>}
  /\ mempool' = Tail(mempool)
  /\ UNCHANGED <<world, pool, fired, lock, run, faults, strayed>>

\* Anyone may collect the fees of a market into its distributor ...
OutsideCollect(m) ==
  /\ pool[m]
  /\ pool' = [pool EXCEPT ![m] = FALSE]
  /\ \E got \in SUBSET AssetSet \ {{}} : held' = [held EXCEPT ![m] = @ \cup got]
  /\ waited' = [waited EXCEPT ![m] = 0]
  /\ UNCHANGED <<clock, indexed, unseen, trades, fired, lock, run, faults, mempool,
                 receipt, strayed, taken, wasted>>

\* ... and distribute what it holds, also under a transaction of the keeper.
OutsideDistribute(m, a) ==
  /\ a \in held[m] /\ <<m, a>> \notin Poisoned
  /\ held' = [held EXCEPT ![m] = @ \ {a}]
  /\ taken' = IF \E k \in Keepers : /\ run[k].pc \in {"send", "distributing"}
                                    /\ Market(k) = m /\ Asset(k) = a
              THEN taken \cup {<<m, a>>} ELSE taken
  /\ UNCHANGED <<world, fired, pool, mempool, receipt, strayed, wasted, lock, run,
                 faults>>

Trade(m) ==
  /\ trades < MaxTrades
  /\ trades' = trades + 1
  /\ pool' = [pool EXCEPT ![m] = TRUE]
  /\ unseen' = [unseen EXCEPT ![m] = TRUE]
  /\ UNCHANGED <<clock, indexed, waited, fired, held, mempool, receipt, strayed,
                 taken, wasted, lock, run, faults>>

\* last_trade_at of token_market_state, with whatever delay.
Index(m) ==
  /\ unseen[m]
  /\ unseen' = [unseen EXCEPT ![m] = FALSE]
  /\ \E age \in 0..indexed[m] : indexed' = [indexed EXCEPT ![m] = age]
  /\ UNCHANGED <<clock, trades, waited, fired, chain, lock, run, faults>>

Older(n, bound) == IF n < bound THEN n + 1 ELSE bound

Pass ==
  /\ fired /\ fired' = FALSE
  /\ clock' = (clock + 1) % Period
  /\ indexed' = [m \in Markets |-> Older(indexed[m], Lookback + 1)]
  /\ waited' = [m \in Markets |->
       IF pool[m] /\ faults' = 0 THEN Older(waited[m], Period + 3) ELSE 0]
  /\ UNCHANGED <<unseen, trades, chain, lock, run>>

Idle == \A k \in Keepers : At(k, "off")

\* A run takes seconds: it is over before the cron starts the next one.
Tick == Idle /\ UNCHANGED faults /\ Pass

\* A run that is not: the next process starts beside it, or samples the clock
\* outside its window.
SlowTick == ~Idle /\ Fault /\ Pass

Work(k) ==
  \/ Open(k) \/ ReadMarket(k) \/ Finish(k) \/ Collect(k) \/ CollectReceipt(k)
  \/ ReadAgain(k) \/ SimulateDistribute(k) \/ SendDistribute(k)
  \/ DistributeReceipt(k)

Failure(k) ==
  \/ OpenWithoutGas(k) \/ CallEndsRun(k) \/ CallEndsMarket(k) \/ Crash(k)
  \/ LoseLock(k)

Next ==
  \/ \E k \in Keepers : Fire(k) \/ Work(k) \/ Failure(k)
  \/ MineCollect \/ MineDistribute
  \/ \E m \in Markets : \/ Trade(m) \/ Index(m) \/ OutsideCollect(m)
                        \/ \E a \in AssetSet : OutsideDistribute(m, a)
  \/ Tick \/ SlowTick

\* The cron fires, processes go on, the chain mines and time passes.  Nothing
\* says that a trade comes, that it is indexed or that others call the market.
Fairness ==
  /\ WF_vars(\E k \in Keepers : Fire(k))
  /\ \A k \in Keepers : WF_vars(Work(k))
  /\ WF_vars(MineCollect \/ MineDistribute)
  /\ WF_vars(Tick)

Spec == Init /\ [][Next]_vars /\ Fairness

-----------------------------------------------------------------------------
(* Properties *)

\* The markets of which every asset can be distributed and every receipt passes.
Healthy ==
  {m \in Markets \ Unverified : \A a \in AssetSet : <<m, a>> \notin Poisoned}

\* As long as nothing has failed, the fees of a market wait for at most one
\* sweep period and two runs, even if its trades are never indexed and whatever
\* the other markets do (decide.ts:14).  The two runs are what others can cost it:
\* a collect of theirs makes the next run distribute only, and a distribution of
\* theirs under the keeper's transaction ends the market for that run, once per
\* asset (service-market.ts:237).
FeesWaitOnePeriodAndTwoRuns ==
  \A m \in Healthy : waited[m] <= Period + 2

\* A transaction of the keeper is reverted only because another caller
\* distributed the balance between its simulation and its block, until a
\* transaction outlives its run or a run outlives its lock: however late and
\* however close the cron starts its processes, two runs never act on the same
\* balance (lock.ts:18, service-market.ts:206).
OnlyOthersWasteTransactions == ~wasted

\* After finitely many failures, fees stay for ever neither in the position nor
\* in the distributor of a market whose assets can be distributed, with failing
\* markets before it in the list (run.ts:178).
FeesAreDistributed ==
  \A m \in Healthy : []<>(~pool[m]) /\ []<>(held[m] = {})

=============================================================================
