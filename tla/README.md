# SCOOP: a TLA+ verification project

This directory holds TLA+ specifications of the concurrent parts of the
SCOOP monorepo, the TLC configurations that check them on small instances,
and proofs that TLAPS checks. It describes the code as it is: every
definition that models code names, in `PROJECT.json` ("map"), its lines.

| file | what it is | instances (`MC*.tla`, `MC*_*.cfg`) |
| --- | --- | --- |
| `Indexer.tla` | the canonical Robinhood-chain indexer, with the chain it follows | `pons`, `sparse`, `skip` |
| `Ledger.tla` | abstract: what readers of the indexer's rows and checkpoint may rely on; implemented by `Indexer` | |
| `LiveOverlay.tla` | the near-tip observer, its tables and what pages read of them | `tip` |
| `PumpWorker.tla` | the Solana market-data worker, with the ledger and its sockets | `faults` |
| `HolderRewards.tla` | the holder-rewards worker, with the vault it publishes to | `rounds` |
| `FeeKeeper.tla` | the fee keeper's runs, with the contracts it calls | `cron` |
| `MarketPage.tla` | abstract: what a token's page may show and never takes back | |
| `Intents.tla` | display-image and news-link intents with every writer of them; implements `MarketPage` | `live`, `shared` |
| `PonsLaunch.tla` | the launch saga of a browser tab, with the creator's account | `resume`, `overlap` |
| `AuthSession.tla` | sign-in and sign-out of one browser | `shell` |
| `IndexerProofs.tla`, `LiveOverlayProofs.tla`, `PumpWorkerProofs.tla`, `HolderRewardsProofs.tla`, `FeeKeeperProofs.tla`, `IntentsProofs.tla`, `PonsLaunchProofs.tla`, `AuthSessionProofs.tla` | theorems about each model, for every value of its constants: every safety property of every passing run | |

Check a model with `tlc -workers 2 -config MCIndexer_pons.cfg MCIndexer`, the
proofs with `tlapm IndexerProofs.tla`, and so for each component. A definition
that its name or its comment
calls a slip belongs to no specification: it is a plausible mistake in the
definition below it, and `PROJECT.json` ("mutants") names the property that
catches it.

## 1. Inventory of the system

Postgres is the only medium between the server processes; they do not call
each other. Chains (Robinhood chain, Solana) and their nodes are outside.

```
 RH chain ──logs──▶ indexer ──facts, candles, balances──▶ Postgres ◀── web API ◀── browser tab
    ▲  │               ▲                                   ▲   ▲                      │
    │  └─▶ observer (near tip) ──provisional rows──────────┤   └── image, news crons  │
    │                (lock)                                │                          │
    ├── holder-rewards worker ◀── transfers, checkpoint ───┤                          │
    ├── fee keeper ◀── launches, last trade ───────────────┤                          │
    │  Solana ──sockets──▶ pump worker ──trades, candles──▶┘                          │
    └────────────────────── wallet transactions of a launch ──────────────────────────┘
```

**Canonical indexer** (`apps/indexer/src/live`). *State*: checkpoint, hashes
of processed blocks, rows of launches, trades, transfers, fees and locks with
a confirmation status, and projections folded from the rows (candles, holder
balances, market state); in memory the watchlist of tokens, the cursor of a
batch, sampled heads. *Operations*: boot, sample heads, compare stored hashes,
roll a reorganisation back, scan a range's logs, store anchors of empty
ranges, process an interesting block, rescan after a launch, promote statuses.
*Hard*: the chain moves between any two RPC reads; the process dies between
any two transactions; only some hashes are stored; folds are not idempotent.
*Correct when*: no row of an orphaned block survives a reorg check, finalized
rows stay canonical, projections equal what the rows say, no event is skipped,
and it catches up. Its **confirmation heads** (`targetHead.ts`,
`confirmations.ts`: four modes, fallbacks where a node does not know the
`safe` or `finalized` tag) are part of `Indexer`.

**Live tip overlay** (`live/tipOverlay`, `repos/live-overlay.ts`,
`web/src/lib/live`). *State*: an observer checkpoint, rows of events and one
tip per token, each with an expiry; in memory the pools it watches.
*Operations*: scan a window near the head, commit it, expire, delete what the
indexer confirmed, merge with canonical rows when a page is read. *Hard*: two
followers of one chain at different heights, either of which may be ahead.
*Correct when* a reader is offered what either has reached, and the newest
price.

**Pump market-data worker** (`apps/solana-pump-worker`). *State*: recorded
trades, candles, market state and one checkpoint per mint; in memory the
connection, subscriptions in both directions, a bounded set of seen
signatures, calls in flight, one reconciliation. *Operations*: connect,
subscribe, handle a notification, fetch and ingest a transaction, reconcile
from the checkpoint, refresh the watchlist, reconnect with back-off.
*Hard*: callbacks interleave at every await; connections overlap; at-least-once
delivery; the set forgets. *Correct when* every trade counts once, none is
lost, and the worker is subscribed again after a failure. Its **holder-count
refresh** is a separate loop that overwrites one column.

**Holder Rewards worker** (`apps/holder-rewards-worker`). *State*: a row per
vault, round and asset (snapshot block, root, amount, status), rows of
entitlements, and on chain the vault's uncommitted funds, rounds and paid
accounts. *Operations*: choose the snapshot, compute, save, publish, push.
*Hard*: a crash between any two statements and transactions; a transaction
that is mined after the worker stopped waiting; an indexer that lags or rolls
back. *Correct when* a round has one root, that of its saved entitlements at
the hour's last block, and every holder is paid.

**Fee Keeper** (`apps/fee-keeper`). *State*: none of its own; balances of the
distributors, the time of the last indexed trade, the wall clock, an advisory
lock. *Operations*: take the lock, decide per market, collect the position's
fees, distribute asset by asset. *Hard*: receipts time out after a
transaction was sent; others may collect and distribute at any moment; the
lock's session is lost; one market fails before another; a fallback sweep is open for some minutes of some hours. *Correct
when* its processes waste no transaction on each other and no fee stays for
ever.

**Intents** (`repos/token-display-finalize-intents.ts`,
`repos/news-article-market-intents.ts`, the routes and crons around them).
*State*: an intent per pinned image, one per token of a news launch, the
token's image and article. *Operations*: pin, bind, finalize, activate, the
indexer's insert, two crons, expiry. *Hard*: requests, the indexer and two crons write the
same rows, some with what they read before; either side comes first.
*Correct when* a token gets its image and its lore, once, whoever dies.

**Launch flows** (`apps/web/src/lib/launch`, `components/launch`). *State*: a
draft in session storage, the creator's transactions, the page's references.
*Operations*: submit, launch, approve, lock or burn, verify, recover, resume.
*Hard*: a reload between a signature and the save of its hash; an answer of the
wallet that is lost; receipts that come after the wait; two mounts of one page. *Correct when* a launch is sent
once, its allocation settled once, and resuming finishes it.

**Authentication** (`apps/web/src/app/api/auth`,
`components/shell/WalletSlotLive.tsx`). *State*: two sealed cookies, the
connected wallet, what the shell shows, a join under way, requests in flight.
*Operations*: sign in from three places, sign out, refresh, save a profile.
*Hard*: answers arrive in any order, and the cookie changes meanwhile.
*Correct when* the shell shows nobody else and ends on the cookie's session.

**Singleton lock of the indexer** (`guardrails.ts`). A Postgres session lock
with retries; when its session is lost, the current batch is still finished.
**News ingest** (`packages/news`): one at a time under an advisory lock,
upserts by URL. Neither is modelled.

**Left out for good**: read queries and DTO mapping, contract manifests and
ABIs, the rendering of the UI, migrations, scripts, Docker. They keep no state
of their own or are deployment. **Pure arithmetic** (`packages/shared`:
entitlements, Merkle trees, prices) is 256-bit integer arithmetic and hashing;
`HolderRewards` abstracts a root to what determines it.

`PROJECT.json` lists every part with its sources under "components", and the
hazards, each at its line with the properties that watch it, under "hazards".

## 2. Plan

Done, in the order of importance: `Indexer` over `Ledger` (everything
else reads its tables), `PumpWorker` (the rail that is live), `HolderRewards` (money moves),
`Intents` over `MarketPage`, `PonsLaunch`, `FeeKeeper`, `AuthSession`,
`LiveOverlay`, each with a module of proofs.

Left:

1. A stronger `Ledger`, complete up to its height, which `Indexer` implements as
   long as no reorganisation falls between a scan and its anchors; it would join
   `LiveOverlay`, which stands on that abstraction (`Index`, `Rollback`), to
   `Indexer`. What it needs of `Indexer` is proved: `CompleteOK` (section 3).
2. `SingletonLock`: two runners over one database with a session lock; composes
   with `Indexer`'s process-block transaction.
3. The Pump launch of the browser, and `NewsIngest`.
4. `Economics`: entitlements, fee split and Merkle positions as operators,
   checked over bounded inputs.

**How the proofs are made.** Each module of proofs defines one inductive
invariant, `Inv`, as a conjunction of named parts, proves that every action
keeps every part, and draws the properties of the runs from it. Each `Inv` was
itself checked by TLC, on the instance of the component's run and on wider
ones, before it was proved. The assumptions are the `ASSUME`s of the
component's module, which TLC evaluates on every run; a theorem with a further
hypothesis states it (`NoBareTransfers`, `LaunchesAlone`, `~Detached`).

## 3. Indexer

**Correspondence.** `tip`, `hashAt`, `txsAt` are the chain as every RPC call
sees it; a hash is the number of reorganisations before the block was mined,
so that two blocks at one height differ exactly when one replaced the other.
`checkpoint`, `processedBlocks`, `facts`, `launchBlock`, `candle`, `balance`
are tables; `pc`, `watchlist`, `heads`, `cursor`, `batchEnd`, `pending`,
`header` are the locals of the loop in `runner.ts` and `processBlock.ts`.

| action | code |
| --- | --- |
| `Boot` | start of `runIndexer`, watchlist and checkpoint |
| `SampleHeads` | sampling of the latest, safe and finalized heads |
| `NoReorg`, `HandleReorg`, `ReorgThrows` | `findReorgFromBlock`, `handleReorgIfNeeded`, the rebuild and its exception |
| `Idle`, `FetchLogs` | choice of a batch, one scan of its logs |
| `AdvanceEmptyRange` | anchors of a range without events, and its checkpoint |
| `ReadHeader`, `ProcessBlock`, `Rescan` | an interesting block: header, one database transaction, launch rescan |
| `PromoteConfirmations` | statuses by height, with the heads of the loop's top |
| `Mine`, `Reorg`, `Finalize`, `Crash` | the chain and the host |

One database transaction is one step. An RPC read whose answer is used by a
later step is a step of its own. The reads of the anchors' hashes are taken
together with the transaction that stores them; the three heads are sampled at
once. The per-block path is not modelled: `rangeThreshold` is
`Math.min(configured, 0)`, so the range path is always taken (runner.ts:581).
The processed-block check in `processBlock` is. A transaction and its log are
one identity; `candle` and `balance` count how often a transaction is folded,
which is what volumes and balances depend on. A `launchBuy` is a launch with an
initial buy. A reorganisation replaces as many blocks as it removes. Left out:
fee, lock and reward facts (folded from the same logs in the same transaction),
market state, USD prices, discovery scores, and the WebSocket tip, which only
decides how long an idle loop sleeps.

**Assumptions.** A token is a contract, deployed by one transaction.
`Window >= MaxDepth` and `2 * ConfirmLag >= MaxDepth`. With
the defaults (window 128, lag 8) the second means that no reorganisation is
deeper than 16 blocks where the node does not answer the `finalized` tag; one
that is would orphan rows marked finalized for good.

**The abstract specification** `Ledger` is what pages, the observer and the
holder-rewards worker rely on when they read rows and checkpoint: entries appear
above the checkpoint only, one that is there goes only with a rollback, which
cuts the end off and takes the checkpoint back with it, or to a place above the
checkpoint, and a sealed entry keeps its place. `LedgerSpec` is its
specification with the checkpoint as `height`, the block of a key's row as
`place` (there is one row per key) and the keys of finalized rows as `sealed`.
Extending is `AdvanceEmptyRange` or `ProcessBlock` (which may move a key that a
reorganisation put into a later block), rolling back `HandleReorg`, sealing
`PromoteConfirmations`; every other step leaves the ledger as it is.

**Runs.**

| run | what it shows |
| --- | --- |
| `indexer_reorg` | two tokens, one reorganisation of up to two blocks, one crash, anywhere: types, rows under the stored hash of their block, no orphan after a reorg check, candles and balances counting exactly the rows, finalized rows canonical, no event skipped as long as there is no reorganisation, and the refinement of `Ledger` (`LedgerSpec`: among others, a finalized row never moves or goes). About 1.1 million states |
| `indexer_sparse` | ranges longer than the anchor spacing, the fixed-lag mode, a crash: sparse hashes miss no orphan, and `CatchesUp` |
| `indexer_skip` | *violated.* A reorganisation between the scan of the logs and the read of the anchors' hashes stores the new hashes beside the old scan; the event is never indexed |

`CandlesMatchTrades` and `BalancesMatchTransfers` speak of Scoop tokens. The
first holds of every chain, the second where no Scoop token is transferred
outside a trade or a launch (section 11), as in the instance of `indexer_reorg`.
The instance also reaches `ReorgThrows`, after which a restart meets it again:
safety holds there, liveness does not (section 11);
`indexer_sparse` has no Pons token.

**Bounds.** Three or four blocks, because the shapes that matter are: a block
below the mismatch, the mismatch, an anchor or an event above it, and a tip the
target lags behind. One reorganisation suffices for the stale-read races: what
they compare is a hash from before and one from after. `Range` 2 to 4 and
`AnchorBlocks` 2 to 4 give batches with and without an anchor inside.

**Fairness.** Weak fairness of the runner as a whole: its loop never stops by
itself and the host restarts it. Nothing is assumed of the chain; `CatchesUp`
is stated for a chain at its bounds.

**Proofs** (`IndexerProofs.tla`, for every chain, window, range, spacing,
mode, number of reorganisations and crashes). The invariant is built in layers,
each inductive relative to the ones before.

- `TypeInv` is `TypeOK` with `CursorOK`: where a batch is walked, the cursor in
  memory equals the checkpoint, because both move in one step. (`TypeSafe`)
- `FactsAnchored`: a row lies at or below the checkpoint, under the hash that
  is stored for its block. `AnchoredStep` goes through the transactions that
  write rows or remove hashes. (`AnchoredSafe`)
  From it follows that there is one row per table and transaction (`OneRowPerKey`,
  by `KeySafe`), which the refinement needs.
- `ChainInv` relates the rows to the chain, in five parts. `BoundsOK`: before
  its next reorg check the indexer goes no higher than the tip, and no
  reorganisation reaches the finalized head it sampled. `HashesOK`: no hash is
  newer than the last fork, and the transaction of a row under its block's
  present hash is in that block. `DepthOK`: a stale row, or a stale header in
  memory, bounds how far the indexer goes before its next check, by `MaxDepth`;
  so the row is still within `Window` of the checkpoint the check starts from,
  where its block's stored hash differs from the chain's (`OrphanMismatched`).
  That is why comparing sparse hashes is enough. `SettledOK`: without a fork
  since the last check, rows and header are those of the chain. `FinalOK`: rows
  marked finalized are canonical and out of reach, and once the check has been
  made so are the rows up to the sampled finalized head. (`InvCorrect`,
  `OrphanFree`, `FinalizedSafe`)

`NoOrphanFacts` and `FinalizedIsCanonical` are not inductive: a row's hash says
nothing of the chain without `DepthOK` and `SettledOK`, and a promotion uses heads sampled
several steps before, which only `FinalOK` bounds.

- `ProcessedOK` says of every stored hash, the anchors included, what `DepthOK`
  says of rows: a stale one is within reach of the next check, and after a check
  there is none.
- `FinalFresh`: no stored hash at or below a finalized row, or at or below the
  finalized head once the check is made, is ever stale. A rollback starts at a
  stale hash and a replay only meets transactions whose rows are stale, so
  a finalized row is never changed or deleted (`FinalizedStays`, by
  `FinalizedKeeps`), and with `OneRowPerKey` and the rows a step writes
  `LedgerImplemented`, the refinement of `Ledger`, follows action by action.
- `CandlesOK`: a transaction's candle count is 1 or 0 as its trade row is there
  or not, unless a stored hash is stale from which a rollback would rebuild its
  token (`Suspect`). A block is processed once per stored hash, a transaction is
  in one block of the chain, and a rollback refolds the candles of every token
  with a trade among the rows it deletes. `CandlesMatch` follows for every chain, also
  with bare transfers and Pons tokens.
- `PairsOK` and `BalancesOK` say the same of balances. `AffectedTokens` finds
  tokens by trades and launches, so a transfer row must stand beside its trade's
  or at its launch; `PairsOK` keeps it there through upserts and rollbacks. Hence
  the hypothesis of `BalancesMatch`, `NoBareTransfers`.
- `CompleteOK`: while there was no reorganisation, the watchlist holds every
  token launched (`LaunchedWatched`), every Scoop launch up to the checkpoint is
  stored (`LaunchesIndexed`), and what the filter shows of the rest of a batch is
  pending (`BatchCovered`): a launch met in a batch is why `Rescan` scans again
  before the walk goes on. `NoneSkipped` has the hypothesis `LaunchesAlone`: no
  block holds a Scoop token's launch and another transaction of that token, which
  is the case the code loses (section 11).

TLC checked these layers on the instance of `indexer_reorg`, on one with bare
transfers and two reorganisations, and on one with every content of a block.
Only model-checked: `CatchesUp`.

## 4. PumpWorker

**Correspondence.** A trade's number is its place on the ledger and stands for
its signature; `SlotOf` gives its slot, and signatures of one slot come in any
order. `trades`, `candleTrades`, `marketState`, `checkpoint` are the tables that
one ingest transaction writes (`Ingest`). `conns`, `socket`, `waiting`,
`pendingSubscribe`, `subscriptionByMint`, `mintBySubscription`,
`seenSignatures`, `inflight`, `reconcile` are the provider's fields and the
awaits it is in; `watchByMint` belongs to `run.ts`. `Boot`, `Opened`, `Close`,
`ConnectFails`, `Reconnect`, `Ack`, `Notify`, `FetchFails`, `GiveUp`, `Ingest`,
`RefreshWatchlist`, `TimerFires` and the five steps of `Reconcile` are the
callbacks and the parts of functions between awaits.

Three points of the code shape the model. `onClose` of any connection clears
all subscription maps (`LoseSocket`). A failed attempt to connect raises error
and close, and each schedules a reconnect. A failed start leaves a process that
is alive without its loops (`phase = "stuck"`), because open handles keep it
from exiting; a rejected interval reconciliation ends the process. Pages of
`getSignaturesForAddress` are read in one step. Left out: decoding and
transactions that are no trades, the 24-hour figures (recomputed aggregates),
the holder-count refresh, and the disabled idle mode.

**Runs.** `pump_faults` (about 480,000 states) has one mint, two connections,
two trades, a reconciliation that reads one signature, and a set of one
signature, so that eviction, refetch and a full reconciliation happen at once;
each kind of fault once, three in all. It checks:

- `CandleCountsTrades`: each recorded trade counts once, however often it is
  delivered;
- `SubscribedAgain`: a listed mint ends up subscribed while the worker runs;
- `RecordedOrPassed`: a trade is recorded unless a newer one was recorded or
  given up, the mint is unlisted, or the start is stuck.

The last one states how far the code goes, not what one would wish: a trade
that arrives by socket after a disconnect moves the checkpoint past the trades
of the gap, and those are then lost.

`CHECK_DEADLOCK FALSE` is set because all faults spent, all trades made, and a
stuck start leave nothing to do. **Fairness**: weak, of every timer, callback
and commit, each by itself, because they do not wait for each other; faults
have none.

**Proofs** (`PumpWorkerProofs.tla`). The invariant: `Known`, what the worker is
told of is on the ledger; `CandleCountsTrades`, which is inductive with the types
because a commit writes a trade and its candle together and only for an absent
signature; `CheckpointsRecorded`, a mint's checkpoint and the trade whose price
it shows are one recorded trade of that mint; `SubscriptionsOpen`, every
subscription held is of a connection that is open, although any connection's
close clears all maps; `DownIsEmpty`, a stopped process holds nothing. Besides
the run's properties: `CheckpointIsRecorded`, `SubscribedOnOpen`. Only
model-checked: `SubscribedAgain`, `RecordedOrPassed`.

## 5. HolderRewards

**Correspondence.** `rows` is `holder_reward_worker_rounds`, `stored`
`holder_reward_entitlements`; `uncommitted`, `published`, `paid` are the vault;
`sent` is the transaction whose receipt the worker awaits and `pending` those
of earlier calls, which may be mined later or never. A root stands for what
determines it, the snapshot block and the amount, so equal roots mean equal
leaves; a leaf is an account with its root. Blocks stand for hours through
`HourEnd`. `StartRun` is `run.ts` with `resolveRoundWindow`; `SkipTerminal`,
`NotReady`, `Resume`, `Recompute` are the branches of `serviceRoundAsset` up to
the first chain read, taken with their one database write; the other actions
follow it statement by statement: `ReadAmount`, `SkipRound`, `SaveRoot`,
`DeleteEntitlements`, `InsertEntitlement` (one per leaf: the code uses no
transaction), `ReadRound`, `SendPublish`, `Published`, `FilterPaid`,
`SendBatch`, `BatchDone`, `RoundComplete`. `StepFails` is any awaited call that
throws; the loop of `serviceVault` goes on with the next round. `Crash` ends
the run. The vault is external: it commits a round once, only funds it has,
and pays an account of a published root once.

One run at a time: the advisory lock is held, its loss is not modelled. Blocks without a stored hash are taken as processed: the
transfers up to the hour's end are the same. `Regress` covers rollbacks of the
checkpoint; the balances at a block do not change with them. Left out: the
arithmetic of shares, dry-run mode, several vaults and assets (each has rows of
its own), replaced nonces.

**Runs.** `rewards_rounds` (about 230,000 states): two rounds, two holders, two
deposits, batches of one, two faults of any kind.

- `PublishedAsPersisted`: the root on chain, and that of every transaction
  under way, is the one saved in the row;
- `EntitlementsOfRoot`: stored entitlements belong to the saved root, wherever
  a crash falls;
- `StoredArePaid`: a published round that keeps its status pays every stored
  account in the end.

`StoredArePaid` does not speak of entitlements that a crash kept from being
stored: after a crash between `SaveRoot` and the last `InsertEntitlement` the
round is resumed with the rows there are, or skipped at every run when there
are none. It does not speak of rounds before the first deposit's either: a
deposit that is not indexed yet can be committed to the round before it, which
then leaves the window.

**Bounds.** Two rounds are needed for them to compete for the same funds, two
holders and batches of one for a crash between batches, two deposits for a
recomputed amount that differs, two faults for a crash followed by a regress.
The window holds both rounds; with more rounds than `maxRoundsPerRun` the
oldest would leave it. **Fairness**: the schedule starts runs, a run goes on,
transactions the worker waits for are mined, the indexer advances.

**Proofs** (`HolderRewardsProofs.tla`). Neither property is inductive alone: a
publication or an insert is of the root in the worker's memory. `WorkingRoot`
says that from "delete" on this is the saved one, although earlier steps carry a
root that was computed before another write; `RowsOK`, that a row's root and
snapshot go together. `SavedRootStays` adds, of every step, that a saved root
and its snapshot are never replaced. Only model-checked: `StoredArePaid`.

## 6. FeeKeeper

**Correspondence.** `pool[m]` says that the position of market m has fees to
collect, `held[m]` is the set of assets of which its distributor has a balance:
an amount is zero or not, which is all the code decides by. `mempool` holds the
keeper account's transactions in nonce order, `receipt` what a waiting process
is told. `lock` is the session that holds the advisory lock. `run[k]` is a
process: the market and asset it is at, the balances it read, the clock and the
recent markets it sampled at its start. `Fire` is the start with its one attempt
at the lock, `Open` the checks and the listing, `ReadMarket` the balances and
`decideMarketService`, `Collect` to `ReadAgain` the collection, `SimulateDistribute`
to `DistributeReceipt` the distribution, asset by asset. A call that fails
outside every try ends the run (`CallEndsRun`), elsewhere the market
(`CallEndsMarket`); `Crash`, `LoseLock`, `OpenWithoutGas` and `SlowTick` (a run
that lasts beyond its tick) are the other failures. The two simulations before a
distribution are one step. `collectFees`, `distributeETH` and `distributeToken`
are permissionless: `OutsideCollect` and `OutsideDistribute` are calls of other
accounts between any two steps. The one that comes before a simulation makes it
a `distribution_zero_balance_race`, the one after it makes the keeper's
transaction revert, which `taken` remembers. Left out: amounts, gas prices, dry
runs.

**Run** `fees_cron` (about 1.7 million states): two processes; a market whose token
always reverts and whose receipts fail verification, listed before a sound one;
two trades, one failure of any kind.

- `FeesWaitOnePeriodAndTwoRuns`: while nothing failed, the fees of a healthy
  market (every asset can be distributed and receipts verify) wait for at most one
  sweep period and two runs, even if no trade is ever indexed. The two runs are
  what others can cost it: their collect makes the next run distribute only, and
  their distribution under the keeper's transaction ends the market's turn;
- `OnlyOthersWasteTransactions`: a transaction of the keeper reverts only because
  another account distributed its balance after the simulation, until one
  outlives its run or a run its lock, although the decision is several reads old;
- `FeesAreDistributed`: after the failures, the sound market's position and
  distributor are emptied again and again, with a failing market before it.

**Bounds.** Time counts in cron ticks: a period of three with a window of one
has an open tick, a closed one and the wrap; a look-back of one has a recent
and an old trade. Two markets are needed for a failure to reach the next one.
**Fairness**: the cron fires, processes go on, the chain mines, time passes;
nothing is assumed of trades, of other callers or of the indexer.

**Proofs** (`FeeKeeperProofs.tla`). A decision is several reads old when it is
sent, so the properties need what stays true meanwhile. `Exclusive`: as long as
no transaction outlived its run and no run its lock, one process runs and at
most one transaction waits, that of the lock's holder, for a balance that is
still there or `taken` by others. `Timely`: while nothing failed, a run ends
within its tick, what a healthy market's distributor holds between its turns is
what others left it there, and its fees have waited only since the last sweep
and those turns. Assumed: every market is listed
(`KeeperAssumption`). Only model-checked: `FeesAreDistributed`.

## 7. Intents and MarketPage

**Correspondence.** `rows` is `token_display_finalize_intents` ordered by
`updated_at` (every UPDATE moves its row to the end), `news` is
`news_article_market_intents`, `shown` and `link` are the token's image and its
`news_article_markets` row. Every process performs one query, or one group of
queries without an effect in between, per step; `proc[p]` is where it is and what
it has read, which may be stale when it writes. Requests are `StartPin`, `Bind`,
`Display` and `Activate`; `Index` is what the indexer's transaction does to
these tables; `Cron` visits the five stages of `reconcileTokenDisplayImages` row
by row, `StartSweep` and `Sweep` those of `reconcileNewsArticleMarkets`; a
queue is a set of ranked items, visited by rank, equal ranks in any order; `Read`,
`Apply`, `Mark`, `UpsertNews`, `LinkNews`, `SettleNews` are what they share.
`Die` stops a process anywhere (a unique index that refuses a cron's write does
the same), `Lapse` is a week in which the crons did not run and stands for the
look-back of 48 hours, the 72 hours and the seven days at once. A draft has one
article; whether a display copy exists is a Boolean. Left out: image
storage, article texts, editing of drafts.

**The abstract specification** `MarketPage` says what readers rely on: a token
is indexed once and for all, an image is never taken away, and the article is
set at most once, to that of a launch of the same image. `PageSpec` is its
specification under the mapping of `indexed`, `shown` and `link` to themselves,
with `Origins` computed from the images: every step of every process is an
abstract step or a stutter.

**Runs.** `intents_shared_image` (`TypeOK`, `NewsDoneIsLinked`, `PageSpec`): two
launches of the same image from different news drafts, two requests at once, which
is the contention that the fallbacks of `bind` meet. `intents_recovery`
(liveness, one failure of any kind): one Pons launch, whose launch row follows its
image.

- `NewsDoneIsLinked`: no writer calls a news intent done before its token has
  an article;
- `ImageShown`: an indexed token gets its image while the cron looks back to
  it, whatever died or was never recorded;
- `GapCloses`: a done image gets its news intent (the gap of the ZHANG token);
- `LoreKept`: what the pin recorded becomes the token's lore, while attempts are
  left and no process is stopped (section 11 has the stop that loses it).

**Bounds.** Two rows, two requests: a row of one's own and one to be stolen, an
upsert between another's read and write. Attempts 1 to 3 reach every limit.
**Fairness**: the indexer reaches mined launches, both crons are scheduled again
and again, an accepted request is executed. No request needs to come.

**Proofs** (`IntentsProofs.tla`, for any launches, images, drafts, requests and
failures). Processes write by what they read steps before, so the invariant says
what of it is still true (`ProcOK`, `QueuesOK`): the intent in hand has its
number and image for good, a draft carried along is of a launch of the same
image, an article found stays. `TableOK` with the unique indexes (`~Violates`)
keeps one open intent per token, `NewsOK` relates news intents to drafts, `PageOK`
shows images of indexed tokens only. `PageImplemented` is the refinement:
the initial state and each step, action by action, under the mapping above. Only
model-checked: `ImageShown`, `GapCloses`, `LoreKept`.

## 8. PonsLaunch

**Correspondence.** `draft` is the stored draft; `flow[f]` a run of
`runPublicPonsLaunch` or `resumePublicPonsLaunch` with its snapshot, because
every step after an await writes `{...snapshot, field}` back; `page` the mounted
page's draft reference and its flow. An action is the code between two
awaits: `Submit`, `Resume`, `Prepare`, `LaunchConfirmed`, `RecoverLaunch`; for a
lock `SearchLock`, `Preflight`, `ApprovalConfirmed`, `SimulateLock`,
`LockConfirmed`, `VerifyLock`, `RecoverLockId`, `RecoverLockTx`; for a burn
`CheckBurn`, `BurnConfirmed`, `RecoverBurn`. Every transaction goes through
`Sign`, `SaveHash` and a receipt. `SignLost` is the wallet's answer that never
comes although the transaction was sent: the flow throws without a hash
(`run-public-pons-launch.ts:420`). `SaveHashMasked` is a write that falls back to
memory, where the older draft in session storage masks it
(`pending-storage.ts:29`); a failing write of any other field is made up for by
the next write of the whole snapshot, or is the same as a throw. `Throw` is a
failed call, a timeout or a rejected prompt, `Reload` ends the tab's flows (also
between a signature and the save of its hash); what no draft kept is in `lost`.
`page.busy` is a phase that `isLaunchTxBusy` counts after its flow has ended: a
burn that has no receipt yet leaves it (`EndBusy`), and neither `Submit` nor
`Resume` is possible until a reload. `Remount` leaves a flow running behind a new
mount. The chain mines one account's transactions in nonce order.
Amounts are counted in the exact allocation; `Reserve` says that the creator
could pay for a second lock. Phases of the preparation and the pin are one step;
of the form only the policy and the fee are edited. Left out: the Pump and the
Scoop factory launch, the wait for the indexer (see `Intents`).

**Runs.** `pons_resume`: one tab, three policies, three failures of any kind;
`pons_overlap`: two flows over one draft.

- `SettledOnce`: at most one lock or burn takes effect, however often the creator
  resumes, unless its hash reached no draft;
- `VerifiedOnChain`: what the draft calls verified is on chain, of the
  exact allocation and the draft's policy;
- `EvidenceKept`: later flows never lose a stored hash, id, token or verdict;
- `ResumeSettles`: resuming settles a committed launch, or one of the causes
  that `Obstructed` names holds, the busy page among them;
- `LaunchedOnce`: the launch is sent once, with overlapping flows too, unless the
  mount that sent it lost the answer or the write of its hash.

**Bounds.** Three failures cover a lost receipt, a reload and a revert in one
history; nine transactions leave room for every retry they allow, and `MaxTime` 2 a lock
mined after its safety margin. Two flows are what a page left once can have.
**Fairness**: callbacks run, the chain mines, the creator signs what the wallet
shows and resumes an unfinished launch.

**Proofs** (`PonsLaunchProofs.tla`). Of any number of flows, on pages left and
mounted again, with storage that keeps a write or not: `Documents`, every hash in
the draft or in a snapshot is of a transaction of its kind, with what the chain
says of it (`Evidence`), and a flow's snapshot fits the place it has reached
(`Place`); `LaunchOK`, one launch is signed, and whoever may sign one knows of
none. Hence `OneLaunch` and `DraftIsTrue`. `SettledOnce` and `EvidenceKept` are
false of two flows over one draft (section 11); `OneSettlement` and
`NothingForgotten` have the hypothesis `~Detached`, under which `OneMount` is
invariant: one flow, its snapshot is the stored draft or has the hash that a
masked write kept from it (`Alone`), and every lock or
burn signed is known to it or counted as lost (`Accounted`). Only model-checked:
`ResumeSettles`.

## 9. AuthSession

**Correspondence.** The session is a sealed cookie, so the server keeps nothing:
`jar` is both sides' state. A request carries the cookie of the moment it is
sent (`asked`), and what the response sets or clears counts when it arrives.
`shell` holds the state and the refs of `WalletSlotLive`, `refreshes` its calls
of `refreshChrome` that `refreshGen` and the epoch still admit (stale ones are
dropped when they are overtaken: their answers change nothing), `check` the
session read before an automatic sign-in, `attempts` the sign-ins of the shell,
the page and the sheet, `saves` the profile saves and their notification. The
actions carry the handlers' names; effects of React run with the change of the
wallet that triggers them. Two sign-ins at once share one nonce cookie. `sheet`
is SCOOP's connect sheet or, in a build without the custom interface (the
default, `custom = FALSE`, fixed in `Init`), AppKit's modal, with the wallet that is being connected in it: `Choose`, `Connected`,
`ConnectFails`, and left by `DismissSheet` or `CloseModal`, of which only the
second depends on what is connecting. `HostHears` is `ScoopAuthHost`, which
closes the sheet as completed on any sign-in, and that releases no join. Left
out: signatures, expiry of the cookies, the auth snapshot of `wallet-session.ts`.

**Run** `auth_shell` (about 2.1 million states): both interfaces, two EVM wallets,
one Solana wallet (which signs in on the sheet only), three events among sign-ins,
wallet changes, saves, another tab and failures, any sign-outs, answers in any
order.

- `ShowsOnlyTheSession`: the shell never shows another user's profile, nor any
  after a sign-out;
- `ChromeFollowsCookie`: when everything is answered the shell shows the
  cookie's session: no stale answer has the last word;
- `JoinSettles`: the button of a join is released, whether the sheet or the modal
  is left, the wallet refuses or another place signs in. Out are a wallet that
  disconnects during the join (`dropped`), a sign-in elsewhere that closes the
  sheet and whose session is gone when the shell looks, and a connection that
  fails after its modal was closed (`stranded`): section 11.

**Bounds.** Three events are two overlapping sign-ins with a change of the
wallet between them; a second wallet is another user. **Fairness**: requests and
the wallet's prompts are answered, rejection included, and a sheet or modal is
not left open for ever. The code sets no timeout for a prompt: while one is open
the button says so, and it is the user's to answer.

**Proofs** (`AuthSessionProofs.tla`, for any wallets and any number of events).
`ShowsOnlyTheSession` needs `RefreshesOK` (one refresh is valid, and between its
two requests it is of the session shown), `SavesOK` and `AuthedOK` (what a save
or a sign-in may still write). `ChromeFollowsCookie` speaks of quiet states; what
is inductive is `Follows`: whenever shell and cookie differ, a refresh with the
present cookie, or something that will start one, is under way. Only
model-checked: `JoinSettles`.

## 10. LiveOverlay

**Correspondence.** One token, launched by transaction 0 and traded by the next
ones; a trade's price is its number. `events` and `tip` are its rows in
`live_chain_events` and `live_token_tips`, `checkpoint` the observer's,
`watching` whether its pool is in the watchlist, `job` the window that was read
and is not committed. `Scan` is `resolveLiveScanWindow` with the read of
the logs, `Commit` the transaction of `observeRange` with the checkpoint, `Fail`
and `Restart` the error path and the boot of the loop, `Expire` and
`DeleteConfirmed` the cleanup (without its 60-second timer). Expiry is a
watermark over the checkpoint at which a row was last written. `Overlaid`,
`Pending` and `TipVisible` are the queries and merges of the pages: a canonical
trade wins over its live row, live rows the checkpoint has reached are dropped.
`Reorg` replaces blocks by any others, of transactions mined before or not;
`moved` remembers those of the replaced blocks and those that come into a block
some reader is already past. The indexer is reduced to `canon`, with
`anchors`, the heights whose hash is stored: `Rollback` goes to the first stored
hash that differs, and a replaced block without one may stay. `Indexer` models it
in full. Left out: the launch's own event row, the columns of a tip besides price
and source, several tokens; the order of the trades of one block is that of their
numbers, and a reorganisation keeps the length of the chain.

**Run** `overlay_tip` (about 6.7 million states).

- `ReachedTradesShown`: a page offers every trade that the indexer or the observer
  has reached and no other, whichever is ahead; where the read of the checkpoint
  fails (`trades/route.ts:71`), what it offers besides are moved trades. Excepted
  are moved trades, and those the observer jumped over, did not watch, or whose
  row lapsed (`missed`);
- `TipShowsNewest`: the tip has the newest pending trade's price unless that trade
  or the tip's was moved, and a stored launch has a visible tip, by which the
  token API and the discover page list it, until its canonical row exists.

**Bounds.** Four blocks leave room for a jump, a window capped at two blocks and
a reorganisation of two, which reaches below the indexer's position and the
observer's and may bring a trade that was not mined before; with a lag of zero
the indexer may be ahead of the observer as well as behind it. One fault is a
failed commit, a restart or a lapse. `Replay <= StaleLag` is assumed; the
defaults satisfy it, the configuration does not check it. No liveness is stated.

**Proofs** (`LiveOverlayProofs.tla`, for any windows, lags, chains and number of
reorganisations, whatever the replacement blocks hold). A transaction that no
reorganisation moved has one place for good, so whatever read the chain before
has it at that place: the indexer (`CanonOK`, also behind a stored hash that
differs), the window under way (`JobOK`), the stored rows (`EventsOK`).
`RowsKept`: a settled trade up to the observer's checkpoint has a row that pages
show, or is canonical, or `missed`; a window begins past the checkpoint because
`Replay <= StaleLag`, so its row is written once and stays until the indexer has
it or it lapses. `TipOK`: the tip covers every settled row a page shows, it is
not older and of that trade, of a moved one, or of a later row. `LaunchShown`
keeps the launch listed.

## 11. Known limits of the code

Met while modelling; the models contain them, and the properties are stated so
that they say how far the code goes.

- *Indexer*. A transfer or trade in its token's launch block, outside the
  launch transaction, is never indexed (`processBlock.ts:185`). A rollback that
  orphans only transfers of a token does not rebuild its balances
  (`reorg.ts:110`). A rollback that reaches a Pons launch throws in the rebuild
  at every restart (`rebuildAfterReorg.ts:74`).
- *PumpWorker*. Two notifications fetched in parallel can commit in the wrong
  order, so that the older price stays in the market state and in the
  candle's close until the next trade (`alchemy.ts:314`). A failed attempt to
  connect schedules two reconnects (`alchemy.ts:376`). A trade delivered after a
  disconnect moves the checkpoint past the trades missed meanwhile
  (`ingest.ts:142`). A failure of the first connect or reconciliation leaves the
  process alive without its loops (`run.ts:186`).
- *HolderRewards*. A run that meets an indexer before the hour's end saves the
  block it has reached, and the round is computed at that block later
  (`service-vault.ts:271`). When the checkpoint goes back below the snapshot, the
  readiness check overwrites the status, and a published round is computed
  again (`service-vault.ts:258`).
- *FeeKeeper*. A call of others that comes between the keeper's simulation and
  its block costs it the gas of a reverted transaction and the market its turn
  in that run. An asset whose distribution reverts blocks the market's other
  asset and, as the balance stays, later collections; so does a receipt that
  fails verification. The read after a collection is in no try and ends the
  whole run (`service-market.ts:206`).
- *Intents*. A cron that stops between an image it found without an intent and
  its news intent loses the lore (`reconcile-token-display-images.ts:125`). Two
  launches of one image take each other's intents; `MarketPage` allows it. An
  intent marked done by its id need not be the one that was applied.
- *PonsLaunch*. Recovery checks a stored lock id against the default policy of
  six months (`hoodlock-recover.ts:123`, `hoodlock-verify.ts:62`), so that a
  shorter lock interrupted before its verdict is refused for ever. So is a lock
  mined after its safety margin, on one of two paths (`hoodlock-verify.ts:50`). A
  reverted lock keeps its hash and blocks; a lost burn hash leaves a burned
  launch unverifiable. With two flows over one draft an older snapshot may
  overwrite newer evidence (`recover.ts:47`), which is why `EvidenceKept` is
  checked with one. A mount that lost the wallet's answer, or the write of the
  launch hash, can launch again; the code only warns ("Do not relaunch if a
  transaction was already submitted", `run-public-pons-launch.ts:119`). That a
  contract refuses the second launch of the same salt is not assumed. A burn
  without a receipt leaves the page in `burning_dev_tokens`, where neither submit
  nor resume works until it is reloaded (`run-public-pons-launch.ts:623`,
  `LaunchFlowLive.tsx:1057`, `:1173`).
- *AuthSession*. A wallet that connects and disconnects during a join leaves its
  button disabled (`dropped`). So do a sign-in elsewhere that closes the sheet
  under a join (`ScoopAuthHost.tsx:43`) when the session cannot be read or is gone
  afterwards, and a connection that fails after its modal was closed: the effect
  that releases the join has run (`WalletSlotLive.tsx:525`) (`stranded`). A save sent under another user's cookie writes to
  that user (`misfiled`). A sign-in that is under way at a sign-out signs in
  again. Outside the model: an answer of `GET /session` after a sign-out sets the
  auth snapshot again.
- *LiveOverlay*. After a restart or an error between a live launch and its
  canonical row the token is not watched until the next one. The observer never
  scans below its checkpoint again (`observer.ts:369`): what a replacement block
  holds there first is shown only when the indexer has it, and an orphaned row
  stays until the checkpoint passes it. A page reads canonical rows, live rows
  and checkpoint in three concurrent queries (`trades/route.ts:56`), the model at
  one moment: a batch committed between them hides its trades from that one
  response. `/token/[address]` reads the canonical row only
  (`load-token-page.ts:83`) and answers not found until it exists, whatever the
  tip says.

## 12. What is proved, checked and not covered

| | proved for all constants | only model-checked |
| --- | --- | --- |
| Indexer | every safety and action property, the refinement of `Ledger`; `BalancesMatchTransfers` without bare transfers, `NoEventSkippedWithoutReorg` without other transactions of a token in its launch block | `CatchesUp` |
| PumpWorker | every safety property, checkpoints, subscriptions | `SubscribedAgain`, `RecordedOrPassed` |
| HolderRewards | every safety property, a saved root is final | `StoredArePaid` |
| FeeKeeper | every safety property | `FeesAreDistributed` |
| Intents | every safety property, the refinement of `MarketPage` | `ImageShown`, `GapCloses`, `LoreKept` |
| PonsLaunch | every safety and action property; `SettledOnce` and `EvidenceKept` with one flow; none of a launch whose answer was lost | `ResumeSettles` |
| AuthSession | every safety property | `JoinSettles` |
| LiveOverlay | every safety property | (no liveness is stated) |

The right column is liveness under fairness, which the prover does not handle. `CHECK_DEADLOCK FALSE` is set where faults, requests and trades
run out and nothing is left to do.

One documented promise is *violated*: `indexer_skip` shows that a
reorganisation between the scan of a range's logs and the read of its anchors'
hashes skips an event for good; "findings" quotes the promise. Not covered at
all: the parts of section 1 marked so, and within the modelled ones what each
section names as left out.
