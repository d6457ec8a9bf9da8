-------------------------- MODULE FeeKeeperProofs --------------------------
(***************************************************************************)
(* Proofs, for any number of keepers, markets and failures, of the two     *)
(* safety properties of FeeKeeper.  While no transaction and no run has    *)
(* gone on without the lock, one process runs and at most one transaction  *)
(* waits, that of the lock's holder, for a balance that is still there or  *)
(* that others have distributed since.  While nothing has failed, what     *)
(* others leave in the distributor of a healthy market costs it one run    *)
(* per asset, and every other sweep collects from it.                      *)
(***************************************************************************)
EXTENDS FeeKeeper, SequenceTheorems, TLAPS

TxType == [by : Keepers \cup {Nobody}, market : Markets,
           asset : AssetSet \cup {"all"}]

RunType == [pc : Phases \cup {"off"}, turn : 1..(Len(MarketOrder) + 1),
            step : 1..Len(Assets), balances : SUBSET AssetSet,
            recent : SUBSET Markets, sweep : BOOLEAN, gate : BOOLEAN]

Opened == [Off EXCEPT !.pc = "open"]

Serving(k) == run[k].pc \in Phases \ {"open", "market"}

(* A process serves a market of the list, and one that has just taken the  *)
(* lock has decided nothing.                                               *)
RunsOK ==
    \A k \in Keepers :
        /\ At(k, "open") => run[k] = Opened
        /\ Serving(k) => run[k].turn <= Len(MarketOrder)

(* While nothing has strayed, the lock excludes.                           *)
Alone == ~strayed => \A k \in Keepers : At(k, "off") \/ lock = k

(* A balance that was simulated is still there, or others distributed it.  *)
Found(k) == Asset(k) \in held[Market(k)] \/ <<Market(k), Asset(k)>> \in taken

(* What a receipt answers, what a transaction awaits and what it will find. *)
Awaits(k, tx) ==
    /\ k \in Keepers /\ tx.by = k /\ tx.market = Market(k) /\ receipt[k] = "none"
    /\ \/ At(k, "collecting") /\ tx.asset = "all"
       \/ At(k, "distributing") /\ tx.asset = Asset(k) /\ Found(k)

ReceiptsOK ==
    ~strayed =>
        \A k \in Keepers :
            receipt[k] # "none" => At(k, "collecting") \/ At(k, "distributing")

MempoolOK ==
    ~strayed =>
        \/ mempool = <<>>
        \/ Len(mempool) = 1 /\ Awaits(mempool[1].by, mempool[1])

SendOK ==
    ~strayed => \A k \in Keepers : At(k, "send") => Found(k)

(* While nothing has failed: a run lies in one tick of the clock and comes *)
(* to each market's assets from the first, ...                             *)
Early == {"market", "collect", "collecting", "again"}

FirstAsset(k) == run[k].pc \in Early => run[k].step = 1

TickOK ==
    faults = 0 =>
        /\ ~strayed
        /\ \A k \in Keepers : ~At(k, "off") =>
              /\ fired /\ run[k].gate /\ FirstAsset(k)
              /\ At(k, "open") \/ run[k].sweep = isFallbackSweepActive(clock)

(* ... a healthy market is due while it has its turn still to come, ...     *)
Due(k, m) ==
    \/ At(k, "open")
    \/ /\ ~At(k, "off")
       /\ \E i \in run[k].turn..Len(MarketOrder) :
             /\ MarketOrder[i] = m
             /\ i = run[k].turn =>
                   \/ At(k, "market") \/ At(k, "collect")
                   \/ At(k, "collecting") /\ receipt[k] = "none"

(* ... each asset its distributor holds has cost its fees at most one run   *)
(* since they were last collected, or two with the turn of this run, ...    *)
Size(S) == (IF "quote" \in S THEN 1 ELSE 0) + (IF "token" \in S THEN 1 ELSE 0)

Rests(m, runs) == held[m] = {} \/ waited[m] + Size(held[m]) <= runs

Left(k) == {Assets[i] : i \in run[k].step..Len(Assets)}

Holds(k) ==
    /\ run[k].pc \in {"asset", "send", "distributing"}
    /\ held[Market(k)] \subseteq run[k].balances \cap Left(k)
    /\ run[k].pc \in {"send", "distributing"} =>
          waited[Market(k)] + Size(held[Market(k)] \cup {Asset(k)}) <= 3
    /\ At(k, "distributing") /\ receipt[k] # "none" =>
          Asset(k) \notin held[Market(k)]

HeldOK ==
    faults = 0 =>
        \A m \in Healthy :
            \/ Rests(m, 2)
            \/ /\ Rests(m, 3)
               /\ ~fired \/ \E k \in Keepers : Due(k, m) \/ (Market(k) = m /\ Holds(k))

(* ... and its fees have waited since the last sweep and those two runs, or *)
(* since the one before.                                                    *)
WaitOK ==
    faults = 0 =>
        \A m \in Healthy :
            \/ waited[m] <= clock + 2
            \/ /\ clock = 0 /\ waited[m] <= Period + 2
               /\ ~fired \/ \E k \in Keepers : Due(k, m)

Exclusive ==
    /\ Alone /\ ReceiptsOK /\ MempoolOK /\ SendOK /\ OnlyOthersWasteTransactions

Timely == TickOK /\ HeldOK /\ WaitOK /\ FeesWaitOnePeriodAndTwoRuns

Inv == TypeOK /\ RunsOK /\ Exclusive /\ Timely

-----------------------------------------------------------------------------
(* Types, and where the processes are. *)

(* The order of the two distributions.                                     *)
LEMMA AssetsAre ==
    /\ Len(Assets) = 2 /\ Assets[1] = "quote" /\ Assets[2] = "token"
    /\ \A i \in 1..2 : Assets[i] \in AssetSet
BY DEF Assets, AssetSet

(* A process at work names a market and an asset.                          *)
LEMMA Names ==
    ASSUME TypeOK, RunsOK, NEW k \in Keepers
    PROVE  /\ run[k] \in RunType /\ Asset(k) \in AssetSet
           /\ run[k].turn <= Len(MarketOrder) => Market(k) \in Markets
<1>1. run[k] \in RunType
    BY DEF TypeOK, RunType
<1>2. run[k].step \in 1..2 /\ run[k].turn \in 1..(Len(MarketOrder) + 1)
    BY <1>1, AssetsAre DEF RunType
<1>3. MarketOrder \in Seq(Markets)
    BY KeeperAssumption
<1>4. Asset(k) \in AssetSet
    BY <1>2, AssetsAre DEF Asset
<1>5. run[k].turn <= Len(MarketOrder) => Market(k) \in Markets
    BY <1>2, <1>3 DEF Market
<1>6. QED
    BY <1>1, <1>4, <1>5

Placed ==
    /\ run \in [Keepers -> RunType]
    /\ \A k \in Keepers : At(k, "off") => run[k] = Off /\ lock # k
    /\ RunsOK

(* A running process that moves to another place of its run.               *)
LEMMA Moved ==
    ASSUME TypeOK, RunsOK, NEW k \in Keepers, ~At(k, "off"),
           NEW r \in RunType, r.pc \notin {"off", "open"},
           r.pc # "market" => r.turn <= Len(MarketOrder),
           Step(k, r), lock' = lock
    PROVE  Placed'
<1>1. run \in [Keepers -> RunType]
    BY DEF TypeOK, RunType
<1>2. run' \in [Keepers -> RunType]
    BY <1>1 DEF Step
<1>3. \A j \in Keepers : run'[j] = IF j = k THEN r ELSE run[j]
    BY <1>1 DEF Step
<1>4. (\A j \in Keepers : At(j, "off") => run[j] = Off /\ lock # j)'
    BY <1>3 DEF At, TypeOK
<1>5. RunsOK'
    BY <1>3 DEF RunsOK, At, Serving
<1>6. QED
    BY <1>2, <1>4, <1>5 DEF Placed

(* Goto leads there, except back to the opening.                           *)
LEMMA WentTo ==
    ASSUME TypeOK, RunsOK, NEW k \in Keepers, ~At(k, "off"),
           NEW pc \in Phases \ {"open"},
           pc # "market" => run[k].turn <= Len(MarketOrder),
           Goto(k, pc), lock' = lock
    PROVE  Placed'
<1>1. run[k] \in RunType
    BY Names
<1>2. PICK r : r = [run[k] EXCEPT !.pc = pc]
    OBVIOUS
<1>3. r \in RunType
    BY <1>1, <1>2 DEF RunType
<1>4. r.pc = pc /\ r.turn = run[k].turn
    BY <1>1, <1>2 DEF RunType
<1>5. Step(k, r)
    BY <1>2 DEF Goto
<1>6. QED
    BY <1>3, <1>4, <1>5, Moved DEF Phases

(* The next market's turn.                                                 *)
LEMMA WentOn ==
    ASSUME TypeOK, RunsOK, NEW k \in Keepers, ~At(k, "off"),
           run[k].turn <= Len(MarketOrder), NextMarket(k), lock' = lock
    PROVE  Placed'
<1>1. run[k] \in RunType
    BY Names
<1>2. PICK r : r = [run[k] EXCEPT !.pc = "market", !.turn = @ + 1, !.step = 1,
                                  !.balances = {}]
    OBVIOUS
<1>3. run[k].turn + 1 \in 1..(Len(MarketOrder) + 1)
  <2>1. MarketOrder \in Seq(Markets)
      BY KeeperAssumption
  <2>2. run[k].turn \in 1..(Len(MarketOrder) + 1)
      BY <1>1 DEF RunType
  <2>3. QED
      BY <2>1, <2>2
<1>8. 1 \in 1..Len(Assets) /\ {} \in SUBSET AssetSet /\ "market" \in Phases \cup {"off"}
    BY AssetsAre DEF Phases
<1>4. r \in RunType
    BY <1>1, <1>2, <1>3, <1>8 DEF RunType
<1>5. r.pc = "market"
    BY <1>1, <1>2 DEF RunType
<1>6. Step(k, r)
    BY <1>2 DEF NextMarket
<1>7. QED
    BY <1>4, <1>5, <1>6, Moved

(* The next asset, or the next market's turn.                              *)
LEMMA WentOnInMarket ==
    ASSUME TypeOK, RunsOK, NEW k \in Keepers, ~At(k, "off"),
           run[k].turn <= Len(MarketOrder), NextAsset(k), lock' = lock
    PROVE  Placed'
<1>1. CASE run[k].step < Len(Assets)
  <2>1. run[k] \in RunType
      BY Names
  <2>2. PICK r : r = [run[k] EXCEPT !.pc = "asset", !.step = @ + 1]
      OBVIOUS
  <2>3. run[k].step + 1 \in 1..Len(Assets)
      BY <1>1, <2>1, AssetsAre DEF RunType
  <2>4. r \in RunType
      BY <2>1, <2>2, <2>3 DEF RunType, Phases
  <2>5. r.pc = "asset" /\ r.turn = run[k].turn
      BY <2>1, <2>2 DEF RunType
  <2>6. Step(k, r)
      BY <1>1, <2>2 DEF NextAsset
  <2>7. QED
      BY <2>4, <2>5, <2>6, Moved
<1>2. CASE ~(run[k].step < Len(Assets))
    BY <1>2, WentOn DEF NextAsset
<1>3. QED
    BY <1>1, <1>2

(* What a process that is off, or has just the lock, looks like.           *)
LEMMA OffIsRun ==
    /\ Off \in RunType /\ Opened \in RunType
    /\ Off.pc = "off" /\ Opened.pc = "open" /\ Opened.turn = 1 /\ Opened.step = 1
    /\ Opened.gate
<1>1. MarketOrder \in Seq(Markets)
    BY KeeperAssumption
<1>2. /\ 1 \in 1..Len(Assets) /\ 1 \in 1..(Len(MarketOrder) + 1)
      /\ {} \in SUBSET AssetSet /\ {} \in SUBSET Markets
      /\ TRUE \in BOOLEAN /\ FALSE \in BOOLEAN
    BY <1>1, AssetsAre
<1>3. "off" \in Phases \cup {"off"} /\ "open" \in Phases \cup {"off"}
    BY DEF Phases
<1>4. Off \in RunType
    BY <1>2, <1>3 DEF Off, RunType
<1>5. Opened \in RunType
    BY <1>4, <1>3 DEF Opened, RunType
<1>6. QED
    BY <1>4, <1>5 DEF Off, Opened

(* A process that ends is off and does not hold the lock.                  *)
LEMMA Ended ==
    ASSUME TypeOK, RunsOK, NEW k \in Keepers, End(k)
    PROVE  Placed' /\ lock' \in Keepers \cup {Nobody}
<1>1. run \in [Keepers -> RunType]
    BY DEF TypeOK, RunType
<1>2. run' \in [Keepers -> RunType]
    BY <1>1, OffIsRun DEF End
<1>3. \A j \in Keepers : run'[j] = IF j = k THEN Off ELSE run[j]
    BY <1>1 DEF End
<1>4. lock' \in Keepers \cup {Nobody} /\ \A j \in Keepers : lock' = j => lock = j /\ j # k
    BY KeeperAssumption DEF End, TypeOK
<1>5. (\A j \in Keepers : At(j, "off") => run[j] = Off /\ lock # j)'
    BY <1>3, <1>4 DEF At, TypeOK
<1>6. RunsOK'
    BY <1>3, OffIsRun DEF RunsOK, At, Serving, Phases
<1>7. QED
    BY <1>2, <1>4, <1>5, <1>6 DEF Placed

(* A new process opens with the lock, or stays off without it.             *)
LEMMA Fired ==
    ASSUME TypeOK, RunsOK, NEW k \in Keepers, Fire(k)
    PROVE  Placed' /\ lock' \in Keepers \cup {Nobody}
<1>1. run \in [Keepers -> RunType] /\ run[k] = Off
    BY DEF TypeOK, RunType, Fire, At
<1>2. CASE lock = Nobody
  <2>1. run' = [run EXCEPT ![k] = Opened] /\ lock' = k
      BY <1>1, <1>2 DEF Fire, tryAcquireFeeKeeperLock, Goto, Step, Opened
  <2>2. run' \in [Keepers -> RunType]
      BY <1>1, <2>1, OffIsRun
  <2>3. \A j \in Keepers : run'[j] = IF j = k THEN Opened ELSE run[j]
      BY <1>1, <2>1
  <2>4. (\A j \in Keepers : At(j, "off") => run[j] = Off /\ lock # j)'
      BY <2>1, <2>3, OffIsRun DEF At, TypeOK
  <2>5. RunsOK'
      BY <2>3, OffIsRun DEF RunsOK, At, Serving, Phases
  <2>6. QED
      BY <2>1, <2>2, <2>4, <2>5 DEF Placed
<1>3. CASE lock # Nobody
  <2>1. run' = run /\ lock' = lock
      BY <1>3 DEF Fire, tryAcquireFeeKeeperLock
  <2>2. QED
      BY <1>1, <2>1 DEF Placed, RunsOK, At, Serving, TypeOK
<1>4. QED
    BY <1>2, <1>3

(* What becomes of the transactions and receipts of an abandoned market.   *)
LEMMA Abandoned ==
    ASSUME TypeOK, NEW k \in Keepers, Abandon(k)
    PROVE  /\ mempool' \in Seq(TxType)
           /\ receipt' \in [Keepers -> {"none", "success", "reverted"}]
           /\ strayed' \in BOOLEAN
<1>1. mempool \in Seq(TxType)
    BY DEF TypeOK, TxType
<1>2. \A i \in DOMAIN mempool :
          IF mempool[i].by = k THEN [mempool[i] EXCEPT !.by = Nobody] \in TxType
                               ELSE mempool[i] \in TxType
  <2>1. \A tx \in TxType : [tx EXCEPT !.by = Nobody] \in TxType
      BY DEF TxType
  <2>2. \A i \in DOMAIN mempool : mempool[i] \in TxType
      BY <1>1
  <2>3. QED
      BY <2>1, <2>2
<1>3. DOMAIN mempool = 1..Len(mempool) /\ Len(mempool) \in Nat
    BY <1>1
<1>4. mempool' \in [1..Len(mempool) -> TxType]
    BY <1>2, <1>3 DEF Abandon
<1>5. mempool' \in Seq(TxType)
    BY <1>3, <1>4, SeqDef
<1>6. QED
    BY <1>5 DEF Abandon, TypeOK

(* A transaction that is sent is the last one, or the only one.            *)
LEMMA Sent ==
    ASSUME TypeOK, NEW k \in Keepers, Market(k) \in Markets,
           NEW asset \in AssetSet \cup {"all"}, Send(k, asset)
    PROVE  /\ mempool' \in Seq(TxType) /\ Len(mempool') = Len(mempool) + 1
           /\ mempool = <<>> =>
                 /\ mempool'[1].by = k /\ mempool'[1].market = Market(k)
                 /\ mempool'[1].asset = asset
<1>1. mempool \in Seq(TxType)
    BY DEF TypeOK, TxType
<1>2. PICK tx : tx = [by |-> k, market |-> Market(k), asset |-> asset]
    OBVIOUS
<1>3. tx \in TxType /\ tx.by = k /\ tx.market = Market(k) /\ tx.asset = asset
    BY <1>2 DEF TxType
<1>4. mempool' = Append(mempool, tx)
    BY <1>2 DEF Send
<1>5. QED
    BY <1>1, <1>3, <1>4

WorldOK ==
    /\ clock \in 0..(Period - 1) /\ fired \in BOOLEAN
    /\ indexed \in [Markets -> 0..(Lookback + 1)]
    /\ unseen \in [Markets -> BOOLEAN] /\ trades \in 0..MaxTrades
    /\ waited \in [Markets -> 0..(Period + 3)]

ChainOK ==
    /\ pool \in [Markets -> BOOLEAN] /\ held \in [Markets -> SUBSET AssetSet]
    /\ mempool \in Seq(TxType)
    /\ receipt \in [Keepers -> {"none", "success", "reverted"}]
    /\ strayed \in BOOLEAN /\ wasted \in BOOLEAN /\ taken \subseteq Markets \X AssetSet

LockOK == lock \in Keepers \cup {Nobody}

FaultsOK == faults \in 0..FaultBudget

(* The types, by part of the system.                                       *)
LEMMA TypeParts ==
    TypeOK /\ RunsOK <=> WorldOK /\ ChainOK /\ LockOK /\ FaultsOK /\ Placed
BY DEF TypeOK, WorldOK, ChainOK, LockOK, FaultsOK, Placed, TxType, RunType, At

(* The same of the next state.                                             *)
LEMMA TypePartsNext ==
    (TypeOK /\ RunsOK)' <=> WorldOK' /\ ChainOK' /\ LockOK' /\ FaultsOK' /\ Placed'
BY DEF TypeOK, WorldOK, ChainOK, LockOK, FaultsOK, Placed, TxType, RunType, At

(* A failure is counted.                                                   *)
LEMMA FaultTyped ==
    ASSUME FaultsOK, Fault
    PROVE  FaultsOK' /\ faults' # 0
BY KeeperAssumption DEF FaultsOK, Fault

(* Steps that leave a part alone keep its types: the budget, ...           *)
LEMMA FaultsKept ==
    ASSUME FaultsOK, UNCHANGED faults
    PROVE  FaultsOK'
BY DEF FaultsOK

(* ... the clock, the index and the cron, ...                              *)
LEMMA WorldKept ==
    ASSUME WorldOK, UNCHANGED <<world, fired>>
    PROVE  WorldOK'
BY DEF WorldOK, world

(* ... the chain, ...                                                      *)
LEMMA ChainKept ==
    ASSUME ChainOK, UNCHANGED chain
    PROVE  ChainOK'
BY DEF ChainOK, chain

(* ... and the lock.                                                       *)
LEMMA LockKept ==
    ASSUME LockOK, UNCHANGED lock
    PROVE  LockOK'
BY DEF LockOK

(* The steps of a run keep the types.                                      *)
LEMMA WorkTypes ==
    ASSUME TypeOK, RunsOK, NEW k \in Keepers, Work(k)
    PROVE  TypeOK' /\ RunsOK'
<1>1. WorldOK /\ ChainOK /\ LockOK /\ FaultsOK /\ Placed
    BY TypeParts
<1> USE <1>1, Names
<1>2. CASE Open(k)
  <2>1. PICK r : r = [run[k] EXCEPT !.pc = "market",
                          !.recent = {m \in Markets : indexed[m] <= Lookback},
                          !.sweep = isFallbackSweepActive(clock)]
      OBVIOUS
  <2>2. {m \in Markets : indexed[m] <= Lookback} \in SUBSET Markets
        /\ isFallbackSweepActive(clock) \in BOOLEAN /\ "market" \in Phases \cup {"off"}
      BY DEF isFallbackSweepActive, Phases
  <2>3. r \in RunType /\ r.pc = "market"
      BY <2>1, <2>2 DEF RunType
  <2>4. Placed'
      BY <1>2, <2>1, <2>3, Moved DEF Open, At
  <2>5. QED
      BY <1>2, <2>4, TypePartsNext, WorldKept, ChainKept, LockKept, FaultsKept DEF Open
<1>3. CASE ReadMarket(k)
  <2>1. PICK r : r = [run[k] EXCEPT !.balances = held[Market(k)]]
      OBVIOUS
  <2>2. ~At(k, "off") /\ run[k].turn <= Len(MarketOrder) /\ lock' = lock
      BY <1>3 DEF ReadMarket, At
  <2>3. held[Market(k)] \in SUBSET AssetSet
      BY <2>2 DEF ChainOK
  <2>4. \/ NextMarket(k) \/ Step(k, [r EXCEPT !.pc = "asset"])
        \/ Step(k, [r EXCEPT !.pc = "collect"])
      BY <1>3, <2>1 DEF ReadMarket
  <2>5. r \in RunType
      BY <2>1, <2>3 DEF RunType
  <2>6. r.turn = run[k].turn
      BY <2>1 DEF RunType
  <2>7. \A pc \in {"asset", "collect"} :
            /\ [r EXCEPT !.pc = pc] \in RunType
            /\ [r EXCEPT !.pc = pc].pc = pc /\ [r EXCEPT !.pc = pc].turn = run[k].turn
      BY <2>5, <2>6 DEF RunType, Phases
  <2>8. Placed'
    <3>1. CASE NextMarket(k)
        BY <3>1, <2>2, WentOn
    <3>2. ASSUME NEW pc \in {"asset", "collect"}, Step(k, [r EXCEPT !.pc = pc])
          PROVE  Placed'
      <4>1. PICK q : q = [r EXCEPT !.pc = pc]
          OBVIOUS
      <4>2. q \in RunType /\ q.pc = pc /\ q.turn = run[k].turn
          BY <4>1, <2>7
      <4>3. Step(k, q)
          BY <3>2, <4>1
      <4>4. QED
          BY <4>2, <4>3, <2>2, Moved
    <3>3. QED
        BY <2>4, <3>1, <3>2
  <2>9. QED
      BY <1>3, <2>8, TypePartsNext, WorldKept, ChainKept, LockKept, FaultsKept
      DEF ReadMarket
<1>4. CASE Finish(k)
  <2>1. Placed' /\ LockOK'
      BY <1>4, Ended DEF Finish, LockOK
  <2>2. QED
      BY <1>4, <2>1, TypePartsNext, WorldKept, ChainKept, FaultsKept DEF Finish
<1>5. CASE Collect(k)
  <2>1. ~At(k, "off") /\ run[k].turn <= Len(MarketOrder) /\ lock' = lock
      BY <1>5 DEF Collect, At, RunsOK, Serving, Phases
  <2>2. Placed'
      BY <1>5, <2>1, WentTo DEF Collect, Phases
  <2>3. mempool' \in Seq(TxType)
    <3>1. mempool \in Seq(TxType)
        BY DEF ChainOK
    <3>2. Send(k, "all") \/ UNCHANGED mempool
        BY <1>5 DEF Collect
    <3>3. QED
        BY <2>1, <3>1, <3>2, Sent
  <2>4. ChainOK'
      BY <1>5, <2>3 DEF ChainOK, Collect
  <2>5. QED
      BY <1>5, <2>2, <2>4, TypePartsNext, WorldKept, LockKept, FaultsKept DEF Collect
<1>6. CASE CollectReceipt(k)
  <2>1. ~At(k, "off") /\ run[k].turn <= Len(MarketOrder) /\ lock' = lock
      BY <1>6 DEF CollectReceipt, At, RunsOK, Serving, Phases
  <2>2. Placed'
      BY <1>6, <2>1, WentTo DEF CollectReceipt, Phases
  <2>3. ChainOK'
      BY <1>6 DEF ChainOK, CollectReceipt
  <2>4. QED
      BY <1>6, <2>2, <2>3, TypePartsNext, WorldKept, LockKept, FaultsKept
      DEF CollectReceipt
<1>7. CASE ReadAgain(k)
  <2>1. ~At(k, "off") /\ run[k].turn <= Len(MarketOrder) /\ lock' = lock
      BY <1>7 DEF ReadAgain, At, RunsOK, Serving, Phases
  <2>2. PICK r : r = [run[k] EXCEPT !.pc = "asset", !.balances = held[Market(k)]]
      OBVIOUS
  <2>3. held[Market(k)] \in SUBSET AssetSet
      BY <2>1 DEF ChainOK
  <2>4. r \in RunType /\ r.pc = "asset"
      BY <2>2, <2>3 DEF RunType, Phases
  <2>5. r.turn = run[k].turn
      BY <2>2 DEF RunType
  <2>6. Placed'
      BY <1>7, <2>1, <2>2, <2>4, <2>5, Moved DEF ReadAgain
  <2>7. QED
      BY <1>7, <2>6, TypePartsNext, WorldKept, ChainKept, LockKept, FaultsKept
      DEF ReadAgain
<1>8. CASE SimulateDistribute(k)
  <2>1. ~At(k, "off") /\ run[k].turn <= Len(MarketOrder) /\ lock' = lock
      BY <1>8 DEF SimulateDistribute, At, RunsOK, Serving, Phases
  <2>2. NextAsset(k) \/ NextMarket(k) \/ Goto(k, "send")
      BY <1>8 DEF SimulateDistribute
  <2>3. Placed'
      BY <2>1, <2>2, WentTo, WentOn, WentOnInMarket DEF Phases
  <2>4. ChainOK'
      BY <1>8 DEF ChainOK, SimulateDistribute, Simulated
  <2>5. QED
      BY <1>8, <2>3, <2>4, TypePartsNext, WorldKept, LockKept, FaultsKept
      DEF SimulateDistribute
<1>9. CASE SendDistribute(k)
  <2>1. ~At(k, "off") /\ run[k].turn <= Len(MarketOrder) /\ lock' = lock
      BY <1>9 DEF SendDistribute, At, RunsOK, Serving, Phases
  <2>2. Placed'
      BY <1>9, <2>1, WentTo DEF SendDistribute, Phases
  <2>3. mempool' \in Seq(TxType)
      BY <1>9, <2>1, Sent DEF SendDistribute
  <2>4. ChainOK'
      BY <1>9, <2>3 DEF ChainOK, SendDistribute
  <2>5. QED
      BY <1>9, <2>2, <2>4, TypePartsNext, WorldKept, LockKept, FaultsKept
      DEF SendDistribute
<1>10. CASE DistributeReceipt(k)
  <2>1. ~At(k, "off") /\ run[k].turn <= Len(MarketOrder) /\ lock' = lock
      BY <1>10 DEF DistributeReceipt, At, RunsOK, Serving, Phases
  <2>2. NextAsset(k) \/ NextMarket(k)
      BY <1>10 DEF DistributeReceipt
  <2>3. Placed'
      BY <2>1, <2>2, WentOn, WentOnInMarket
  <2>4. ChainOK'
      BY <1>10 DEF ChainOK, DistributeReceipt
  <2>5. QED
      BY <1>10, <2>3, <2>4, TypePartsNext, WorldKept, LockKept, FaultsKept
      DEF DistributeReceipt
<1>11. QED
    BY <1>2, <1>3, <1>4, <1>5, <1>6, <1>7, <1>8, <1>9, <1>10 DEF Work

(* So do its failures, which are counted.                                  *)
LEMMA FailureTypes ==
    ASSUME TypeOK, RunsOK, NEW k \in Keepers, Failure(k)
    PROVE  TypeOK' /\ RunsOK' /\ faults' # 0
<1>1. WorldOK /\ ChainOK /\ LockOK /\ FaultsOK /\ Placed
    BY TypeParts
<1> USE <1>1, Names
<1>2. CASE OpenWithoutGas(k)
  <2>1. PICK r : r = [run[k] EXCEPT !.pc = "market", !.gate = FALSE,
                          !.recent = {m \in Markets : indexed[m] <= Lookback},
                          !.sweep = isFallbackSweepActive(clock)]
      OBVIOUS
  <2>2. {m \in Markets : indexed[m] <= Lookback} \in SUBSET Markets
        /\ isFallbackSweepActive(clock) \in BOOLEAN /\ "market" \in Phases \cup {"off"}
      BY DEF isFallbackSweepActive, Phases
  <2>3. r \in RunType /\ r.pc = "market"
      BY <2>1, <2>2 DEF RunType
  <2>4. Placed'
      BY <1>2, <2>1, <2>3, Moved DEF OpenWithoutGas, At
  <2>5. QED
      BY <1>2, <2>4, TypePartsNext, WorldKept, ChainKept, LockKept, FaultTyped
      DEF OpenWithoutGas
<1>3. CASE CallEndsRun(k)
  <2>1. Placed' /\ LockOK'
      BY <1>3, Ended DEF CallEndsRun, LockOK
  <2>2. QED
      BY <1>3, <2>1, TypePartsNext, WorldKept, ChainKept, FaultTyped DEF CallEndsRun
<1>4. CASE CallEndsMarket(k)
  <2>1. ~At(k, "off") /\ run[k].turn <= Len(MarketOrder) /\ lock' = lock
      BY <1>4 DEF CallEndsMarket, At, RunsOK, Serving, Phases
  <2>2. Placed'
      BY <1>4, <2>1, WentOn DEF CallEndsMarket
  <2>3. ChainOK'
      BY <1>4, Abandoned DEF ChainOK, CallEndsMarket
  <2>4. QED
      BY <1>4, <2>2, <2>3, TypePartsNext, WorldKept, LockKept, FaultTyped
      DEF CallEndsMarket
<1>5. CASE Crash(k)
  <2>1. Placed' /\ LockOK'
      BY <1>5, Ended DEF Crash, LockOK
  <2>2. ChainOK'
      BY <1>5, Abandoned DEF ChainOK, Crash
  <2>3. QED
      BY <1>5, <2>1, <2>2, TypePartsNext, WorldKept, FaultTyped DEF Crash
<1>6. CASE LoseLock(k)
  <2>1. Placed' /\ LockOK'
    <3>1. run' = run /\ lock' = Nobody /\ Nobody \notin Keepers
        BY <1>6, KeeperAssumption DEF LoseLock
    <3>2. QED
        BY <3>1 DEF Placed, RunsOK, At, Serving, LockOK
  <2>2. ChainOK'
      BY <1>6 DEF ChainOK, LoseLock
  <2>3. QED
      BY <1>6, <2>1, <2>2, TypePartsNext, WorldKept, FaultTyped DEF LoseLock
<1>7. QED
    BY <1>2, <1>3, <1>4, <1>5, <1>6 DEF Failure

(* A receipt is a success or a revert.                                     *)
LEMMA AnswerTyped ==
    ASSUME ChainOK, NEW tx, NEW status \in {"success", "reverted"}, Answer(tx, status)
    PROVE  receipt' \in [Keepers -> {"none", "success", "reverted"}]
BY DEF ChainOK, Answer

(* So does the chain.                                                      *)
LEMMA MineTypes ==
    ASSUME TypeOK, RunsOK, MineCollect \/ MineDistribute
    PROVE  TypeOK' /\ RunsOK'
<1>1. WorldOK /\ ChainOK /\ LockOK /\ FaultsOK /\ Placed
    BY TypeParts
<1>2. mempool \in Seq(TxType) /\ mempool # <<>> /\ mempool' = Tail(mempool)
    BY <1>1 DEF ChainOK, MineCollect, MineDistribute
<1>3. Head(mempool) \in TxType /\ Tail(mempool) \in Seq(TxType)
    BY <1>2
<1>4. Head(mempool).market \in Markets
    BY <1>3 DEF TxType
<1>5. Placed' /\ LockOK' /\ FaultsOK'
    BY <1>1 DEF Placed, RunsOK, Serving, At, LockOK, FaultsOK, MineCollect, MineDistribute
<1>6. CASE MineCollect
  <2>1. held' \in [Markets -> SUBSET AssetSet]
    <3>1. \/ \E got \in SUBSET AssetSet \ {{}} :
                held' = [held EXCEPT ![Head(mempool).market] = @ \cup got]
          \/ held' = held
        BY <1>6 DEF MineCollect
    <3>2. QED
        BY <1>1, <1>4, <3>1 DEF ChainOK
  <2>2. receipt' \in [Keepers -> {"none", "success", "reverted"}]
      BY <1>1, <1>6, AnswerTyped DEF MineCollect
  <2>3. pool' \in [Markets -> BOOLEAN] /\ waited' \in [Markets -> 0..(Period + 3)]
    <3>1. 0 \in 0..(Period + 3)
        BY KeeperAssumption
    <3>2. QED
        BY <1>1, <1>4, <1>6, <3>1 DEF MineCollect, ChainOK, WorldOK
  <2>4. ChainOK' /\ WorldOK'
      BY <1>1, <1>2, <1>3, <1>6, <2>1, <2>2, <2>3 DEF MineCollect, ChainOK, WorldOK
  <2>5. QED
      BY <1>5, <2>4, TypePartsNext
<1>7. CASE MineDistribute
  <2>1. held' \in [Markets -> SUBSET AssetSet]
      BY <1>1, <1>4, <1>7 DEF MineDistribute, ChainOK
  <2>2. receipt' \in [Keepers -> {"none", "success", "reverted"}]
    <3>1. \E status \in {"success", "reverted"} : Answer(Head(mempool), status)
        BY <1>7 DEF MineDistribute
    <3>2. QED
        BY <1>1, <3>1, AnswerTyped
  <2>3. wasted' \in BOOLEAN /\ taken' \subseteq Markets \X AssetSet
      BY <1>1, <1>7 DEF MineDistribute, ChainOK
  <2>4. ChainOK' /\ WorldOK'
      BY <1>1, <1>2, <1>3, <1>7, <2>1, <2>2, <2>3
      DEF MineDistribute, ChainOK, WorldOK, world
  <2>5. QED
      BY <1>5, <2>4, TypePartsNext
<1>8. QED
    BY <1>6, <1>7

(* So do the calls of others.                                              *)
LEMMA OutsideTypes ==
    ASSUME TypeOK, RunsOK, NEW m \in Markets,
           OutsideCollect(m) \/ \E a \in AssetSet : OutsideDistribute(m, a)
    PROVE  TypeOK' /\ RunsOK'
<1>1. WorldOK /\ ChainOK /\ LockOK /\ FaultsOK /\ Placed
    BY TypeParts
<1>2. Placed' /\ LockOK' /\ FaultsOK'
    BY <1>1 DEF Placed, RunsOK, Serving, At, LockOK, FaultsOK, OutsideCollect,
                OutsideDistribute
<1>3. CASE OutsideCollect(m)
  <2>1. held' \in [Markets -> SUBSET AssetSet] /\ pool' \in [Markets -> BOOLEAN]
      BY <1>1, <1>3 DEF ChainOK, OutsideCollect
  <2>2. waited' \in [Markets -> 0..(Period + 3)]
    <3>1. 0 \in 0..(Period + 3)
        BY KeeperAssumption
    <3>2. QED
        BY <1>1, <1>3, <3>1 DEF WorldOK, OutsideCollect
  <2>3. ChainOK' /\ WorldOK'
      BY <1>1, <1>3, <2>1, <2>2 DEF ChainOK, WorldOK, OutsideCollect
  <2>4. QED
      BY <1>2, <2>3, TypePartsNext
<1>4. ASSUME NEW a \in AssetSet, OutsideDistribute(m, a)
      PROVE  TypeOK' /\ RunsOK'
  <2>1. held' \in [Markets -> SUBSET AssetSet]
      BY <1>1, <1>4 DEF ChainOK, OutsideDistribute
  <2>2. taken' \subseteq Markets \X AssetSet
      BY <1>1, <1>4 DEF ChainOK, OutsideDistribute
  <2>3. ChainOK' /\ WorldOK'
      BY <1>1, <1>4, <2>1, <2>2, WorldKept DEF ChainOK, OutsideDistribute
  <2>4. QED
      BY <1>2, <2>3, TypePartsNext
<1>5. QED
    BY <1>3, <1>4

(* So do the cron, the trades, the index and the clock.                    *)
LEMMA RestTypes ==
    ASSUME TypeOK, RunsOK,
           \/ \E k \in Keepers : Fire(k)
           \/ \E m \in Markets : Trade(m) \/ Index(m)
           \/ Tick \/ SlowTick
    PROVE  TypeOK' /\ RunsOK'
<1>1. WorldOK /\ ChainOK /\ LockOK /\ FaultsOK /\ Placed
    BY TypeParts
<1>2. ASSUME NEW k \in Keepers, Fire(k)
      PROVE  TypeOK' /\ RunsOK'
  <2>1. Placed' /\ LockOK'
      BY <1>2, Fired DEF LockOK
  <2>2. WorldOK' /\ ChainOK' /\ FaultsOK'
      BY <1>1, <1>2, ChainKept DEF Fire, WorldOK, world, FaultsOK
  <2>3. QED
      BY <2>1, <2>2, TypePartsNext
<1>3. ASSUME NEW m \in Markets, Trade(m)
      PROVE  TypeOK' /\ RunsOK'
  <2>1. Placed' /\ LockOK' /\ FaultsOK'
      BY <1>1, <1>3 DEF Placed, RunsOK, Serving, At, LockOK, FaultsOK, Trade
  <2>2. trades' \in 0..MaxTrades
      BY <1>1, <1>3, KeeperAssumption DEF WorldOK, Trade
  <2>3. WorldOK' /\ ChainOK'
      BY <1>1, <1>3, <2>2 DEF Trade, WorldOK, ChainOK
  <2>4. QED
      BY <2>1, <2>3, TypePartsNext
<1>4. ASSUME NEW m \in Markets, Index(m)
      PROVE  TypeOK' /\ RunsOK'
  <2>1. Placed' /\ LockOK' /\ FaultsOK'
      BY <1>1, <1>4 DEF Placed, RunsOK, Serving, At, LockOK, FaultsOK, Index
  <2>2. PICK age \in 0..indexed[m] : indexed' = [indexed EXCEPT ![m] = age]
      BY <1>4 DEF Index
  <2>3. age \in 0..(Lookback + 1)
      BY <1>1, KeeperAssumption DEF WorldOK
  <2>4. indexed' \in [Markets -> 0..(Lookback + 1)]
      BY <1>1, <2>2, <2>3 DEF WorldOK
  <2>5. WorldOK' /\ ChainOK'
      BY <1>1, <1>4, <2>4 DEF Index, WorldOK, ChainOK, chain
  <2>6. QED
      BY <2>1, <2>5, TypePartsNext
<1>5. CASE Tick \/ SlowTick
  <2>1. Pass /\ (UNCHANGED faults \/ Fault)
      BY <1>5 DEF Tick, SlowTick
  <2>2. Placed' /\ LockOK' /\ FaultsOK'
      BY <1>1, <2>1, FaultTyped DEF Placed, RunsOK, Serving, At, LockOK, FaultsOK, Pass
  <2>3. clock' \in 0..(Period - 1)
      BY <1>1, <2>1, KeeperAssumption DEF WorldOK, Pass
  <2>4. indexed' \in [Markets -> 0..(Lookback + 1)]
      BY SMTT(30), <1>1, <2>1, KeeperAssumption DEF WorldOK, Pass, Older
  <2>5. waited' \in [Markets -> 0..(Period + 3)]
      BY SMTT(30), <1>1, <2>1, KeeperAssumption DEF WorldOK, Pass, Older
  <2>6. WorldOK' /\ ChainOK'
      BY <1>1, <2>1, <2>3, <2>4, <2>5 DEF Pass, WorldOK, ChainOK, chain
  <2>7. QED
      BY <2>2, <2>6, TypePartsNext
<1>6. QED
    BY <1>2, <1>3, <1>4, <1>5

(* So does a step that changes nothing.                                    *)
LEMMA StutterTypes ==
    ASSUME TypeOK, RunsOK, UNCHANGED vars
    PROVE  TypeOK' /\ RunsOK'
BY DEF TypeOK, RunsOK, At, Serving, vars

(* The types are inductive.                                                *)
LEMMA TypesStep ==
    ASSUME TypeOK, RunsOK, [Next]_vars
    PROVE  TypeOK' /\ RunsOK'
BY WorkTypes, FailureTypes, MineTypes, OutsideTypes, RestTypes, StutterTypes DEF Next

-----------------------------------------------------------------------------
(* The lock excludes. *)

ExclusiveType == TypeOK /\ RunsOK /\ Exclusive

(* While nothing has strayed, the process at work has the lock, the others *)
(* are off, and what waits in the mempool is its transaction.              *)
LEMMA OnlyOwner ==
    ASSUME ExclusiveType, ~strayed, NEW k \in Keepers, ~At(k, "off")
    PROVE  /\ lock = k /\ \A j \in Keepers \ {k} : At(j, "off") /\ ~At(j, "send")
           /\ \/ mempool = <<>>
              \/ Len(mempool) = 1 /\ mempool[1].by = k /\ Awaits(k, mempool[1])
           /\ \A j \in Keepers \ {k} : receipt[j] = "none"
<1>1. lock = k
    BY DEF ExclusiveType, Exclusive, Alone
<1>2. \A j \in Keepers \ {k} : At(j, "off")
    BY <1>1 DEF ExclusiveType, Exclusive, Alone
<1>3. \A j \in Keepers \ {k} : ~At(j, "send") /\ receipt[j] = "none"
    BY <1>2 DEF ExclusiveType, Exclusive, ReceiptsOK, At, TypeOK
<1>4. \/ mempool = <<>>
      \/ Len(mempool) = 1 /\ mempool[1].by = k /\ Awaits(k, mempool[1])
    BY <1>2 DEF ExclusiveType, Exclusive, MempoolOK, Awaits, At
<1>5. QED
    BY <1>1, <1>2, <1>3, <1>4

(* A process that waits for nothing has nothing in the mempool.            *)
LEMMA OwnerWaits ==
    ASSUME ExclusiveType, ~strayed, NEW k \in Keepers,
           run[k].pc \notin {"off", "collecting", "distributing"}
    PROVE  mempool = <<>> /\ \A j \in Keepers : receipt[j] = "none"
<1>1. ~At(k, "off")
    BY DEF At
<1>2. mempool = <<>>
    BY <1>1, OnlyOwner DEF Awaits, At
<1>3. receipt[k] = "none"
    BY DEF ExclusiveType, Exclusive, ReceiptsOK, At, TypeOK
<1>4. QED
    BY <1>1, <1>2, <1>3, OnlyOwner

(* What a step of the process at work has to leave behind.                 *)
LEMMA ExclusiveAfter ==
    ASSUME ExclusiveType, NEW k \in Keepers, ~At(k, "off"),
           ~strayed' => ~strayed, wasted' = wasted,
           \A j \in Keepers \ {k} : run'[j] = run[j],
           lock' = lock \/ At(k, "off")',
           ~strayed' =>
              /\ \A j \in Keepers \ {k} : receipt'[j] = receipt[j]
              /\ receipt'[k] # "none" =>
                   At(k, "collecting")' \/ At(k, "distributing")'
              /\ At(k, "send")' => Found(k)'
              /\ mempool' = <<>> \/ (Len(mempool) = 1 /\ Awaits(mempool[1].by, mempool[1]))'
    PROVE  Exclusive'
<1>1. OnlyOthersWasteTransactions'
    BY DEF ExclusiveType, Exclusive, OnlyOthersWasteTransactions
<1>2. ASSUME ~strayed'
      PROVE  Exclusive'
  <2>1. ~strayed
      BY <1>2
  <2>2. lock = k /\ \A j \in Keepers \ {k} : At(j, "off") /\ receipt[j] = "none"
      BY <2>1, OnlyOwner
  <2>3. \A j \in Keepers \ {k} : At(j, "off")' /\ receipt'[j] = "none"
      BY <1>2, <2>2 DEF At
  <2>4. Alone'
      BY <2>2, <2>3 DEF Alone
  <2>5. ReceiptsOK'
      BY <1>2, <2>3 DEF ReceiptsOK
  <2>6. MempoolOK'
      BY <1>2 DEF MempoolOK
  <2>7. SendOK'
      BY <1>2, <2>3 DEF SendOK, At
  <2>8. QED
      BY <1>1, <2>4, <2>5, <2>6, <2>7 DEF Exclusive
<1>3. QED
    BY <1>1, <1>2 DEF Exclusive, Alone, ReceiptsOK, MempoolOK, SendOK

(* Where a step of a run leads, as far as the others can see.              *)
LEMMA StepsApart ==
    ASSUME TypeOK, RunsOK, NEW k \in Keepers,
           \/ NextMarket(k) \/ NextAsset(k) \/ (\E r : Step(k, r)) \/ End(k)
           \/ \E pc \in Phases : Goto(k, pc)
    PROVE  /\ \A j \in Keepers \ {k} : run'[j] = run[j]
           /\ NextMarket(k) => run'[k].pc = "market"
           /\ NextAsset(k) => run'[k].pc \in {"asset", "market"}
           /\ End(k) => run'[k].pc = "off"
           /\ \A r : Step(k, r) => run'[k] = r
           /\ \A pc \in Phases : Goto(k, pc) =>
                 /\ run'[k].pc = pc
                 /\ run'[k].turn = run[k].turn /\ run'[k].step = run[k].step
                 /\ Market(k)' = Market(k) /\ Asset(k)' = Asset(k)
<1>1. run \in [Keepers -> RunType]
    BY DEF TypeOK, RunType
<1>2. PICK r : run' = [run EXCEPT ![k] = r]
    BY DEF NextMarket, NextAsset, Step, End, Goto
<1>3. \A j \in Keepers \ {k} : run'[j] = run[j]
    BY <1>1, <1>2
<1>4. NextMarket(k) => run'[k].pc = "market"
    BY <1>1 DEF NextMarket, Step, RunType
<1>5. NextAsset(k) => run'[k].pc \in {"asset", "market"}
    BY <1>1, <1>4 DEF NextAsset, Step, RunType
<1>6. End(k) => run'[k].pc = "off"
    BY <1>1, OffIsRun DEF End
<1>7. \A q : Step(k, q) => run'[k] = q
    BY <1>1 DEF Step
<1>8. ASSUME NEW pc \in Phases, Goto(k, pc)
      PROVE  /\ run'[k].pc = pc
             /\ run'[k].turn = run[k].turn /\ run'[k].step = run[k].step
             /\ Market(k)' = Market(k) /\ Asset(k)' = Asset(k)
  <2>1. run'[k] = [run[k] EXCEPT !.pc = pc]
      BY <1>7, <1>8 DEF Goto
  <2>2. run'[k].pc = pc /\ run'[k].turn = run[k].turn /\ run'[k].step = run[k].step
      BY <1>1, <2>1 DEF RunType
  <2>3. QED
      BY <2>2 DEF Market, Asset
<1>9. QED
    BY <1>3, <1>4, <1>5, <1>6, <1>7, <1>8

(* The steps of a run keep the exclusion.                                  *)
LEMMA ExclusiveWork ==
    ASSUME ExclusiveType, NEW k \in Keepers, Work(k)
    PROVE  Exclusive'
<1>1. ~At(k, "off") /\ wasted' = wasted /\ strayed' = strayed
    BY DEF Work, Open, ReadMarket, Finish, Collect, CollectReceipt, ReadAgain,
           SimulateDistribute, SendDistribute, DistributeReceipt, At, chain
<1>2. TypeOK /\ RunsOK
    BY DEF ExclusiveType
<1>3. \A j \in Keepers \ {k} : run'[j] = run[j]
  <2>1. \/ NextMarket(k) \/ NextAsset(k) \/ (\E r : Step(k, r)) \/ End(k)
        \/ \E pc \in Phases : Goto(k, pc)
    <3>1. CASE Open(k)
        BY <3>1 DEF Open
    <3>2. CASE ReadMarket(k)
        BY <3>2 DEF ReadMarket
    <3>3. CASE Finish(k)
        BY <3>3 DEF Finish
    <3>4. CASE ReadAgain(k)
        BY <3>4 DEF ReadAgain
    <3>5. CASE Collect(k) \/ CollectReceipt(k)
        BY <3>5 DEF Collect, CollectReceipt, Phases
    <3>6. CASE SimulateDistribute(k) \/ SendDistribute(k) \/ DistributeReceipt(k)
        BY <3>6 DEF SimulateDistribute, SendDistribute, DistributeReceipt, Phases
    <3>7. QED
        BY <3>1, <3>2, <3>3, <3>4, <3>5, <3>6 DEF Work
  <2>2. QED
      BY <1>2, <2>1, StepsApart
<1>4. CASE Open(k)
  <2>1. run'[k].pc = "market"
    <3>1. \E r : Step(k, r) /\ r.pc = "market"
      <4>1. run[k] \in RunType
          BY <1>2, Names
      <4>2. [run[k] EXCEPT !.pc = "market",
                            !.recent = {m \in Markets : indexed[m] <= Lookback},
                            !.sweep = isFallbackSweepActive(clock)].pc = "market"
          BY <4>1 DEF RunType
      <4>3. QED
          BY <1>4, <4>2 DEF Open
    <3>2. QED
        BY <1>2, <3>1, StepsApart
  <2>2. ~strayed => mempool = <<>> /\ \A j \in Keepers : receipt[j] = "none"
      BY <1>4, OwnerWaits DEF Open, At
  <2>3. QED
      BY <1>1, <1>3, <1>4, <2>1, <2>2, ExclusiveAfter DEF Open, chain, At
<1>5. CASE ReadMarket(k)
  <2>1. run'[k].pc \in {"market", "asset", "collect"}
    <3>1. run[k] \in RunType
        BY <1>2, Names
    <3>2. \A b : /\ [[run[k] EXCEPT !.balances = b] EXCEPT !.pc = "asset"].pc = "asset"
                 /\ [[run[k] EXCEPT !.balances = b] EXCEPT !.pc = "collect"].pc = "collect"
        BY <3>1 DEF RunType
    <3>3. \/ NextMarket(k)
          \/ \E r : Step(k, r) /\ r.pc \in {"asset", "collect"}
        BY <1>5, <3>2 DEF ReadMarket
    <3>4. QED
        BY <1>2, <3>3, StepsApart
  <2>2. ~strayed => mempool = <<>> /\ \A j \in Keepers : receipt[j] = "none"
      BY <1>5, OwnerWaits DEF ReadMarket, At
  <2>3. QED
      BY <1>1, <1>3, <1>5, <2>1, <2>2, ExclusiveAfter DEF ReadMarket, chain, At
<1>6. CASE Finish(k)
  <2>1. run'[k].pc = "off"
      BY <1>2, <1>6, StepsApart DEF Finish
  <2>2. ~strayed => mempool = <<>> /\ \A j \in Keepers : receipt[j] = "none"
      BY <1>6, OwnerWaits DEF Finish, At
  <2>3. QED
      BY <1>1, <1>3, <1>6, <2>1, <2>2, ExclusiveAfter DEF Finish, chain, At
<1>7. CASE Collect(k)
  <2>1. run[k].turn <= Len(MarketOrder)
      BY <1>2, <1>7 DEF Collect, At, RunsOK, Serving, Phases
  <2>2. Market(k) \in Markets
      BY <1>2, <2>1, Names
  <2>3. ~strayed => mempool = <<>> /\ \A j \in Keepers : receipt[j] = "none"
      BY <1>7, OwnerWaits DEF Collect, At
  <2>4. CASE Send(k, "all") /\ Goto(k, "collecting")
    <3>1. run'[k].pc = "collecting" /\ Market(k)' = Market(k)
        BY <1>2, <2>4, StepsApart DEF Phases
    <3>2. ~strayed' =>
              /\ Len(mempool') = 1 /\ mempool'[1].by = k
              /\ mempool'[1].market = Market(k) /\ mempool'[1].asset = "all"
        BY <1>1, <1>2, <2>2, <2>3, <2>4, Sent
    <3>3. ~strayed' => Awaits(mempool[1].by, mempool[1])'
        BY <1>1, <1>7, <2>3, <3>1, <3>2 DEF Awaits, At, Collect
    <3>4. QED
        BY <1>1, <1>3, <1>7, <2>3, <3>1, <3>2, <3>3, ExclusiveAfter DEF Collect, At
  <2>5. CASE Goto(k, "asset") /\ UNCHANGED mempool
    <3>1. run'[k].pc = "asset"
        BY <1>2, <2>5, StepsApart DEF Phases
    <3>2. QED
        BY <1>1, <1>3, <1>7, <2>3, <2>5, <3>1, ExclusiveAfter DEF Collect, At
  <2>6. QED
      BY <1>7, <2>4, <2>5 DEF Collect
<1>8. CASE CollectReceipt(k)
  <2>1. run'[k].pc = "again"
      BY <1>2, <1>8, StepsApart DEF CollectReceipt, Phases
  <2>2. ~strayed => mempool = <<>> /\ \A j \in Keepers \ {k} : receipt[j] = "none"
      BY <1>1, <1>8, OnlyOwner DEF CollectReceipt, Awaits
  <2>3. receipt' = [receipt EXCEPT ![k] = "none"] /\ mempool' = mempool /\ lock' = lock
      BY <1>8 DEF CollectReceipt
  <2>4. receipt'[k] = "none" /\ \A j \in Keepers \ {k} : receipt'[j] = receipt[j]
      BY <1>2, <2>3 DEF TypeOK
  <2>5. QED
      BY <1>1, <1>3, <2>1, <2>2, <2>3, <2>4, ExclusiveAfter DEF At
<1>9. CASE ReadAgain(k)
  <2>1. run'[k].pc = "asset"
    <3>1. run[k] \in RunType
        BY <1>2, Names
    <3>2. \A b : [run[k] EXCEPT !.pc = "asset", !.balances = b].pc = "asset"
        BY <3>1 DEF RunType
    <3>3. \E r : Step(k, r) /\ r.pc = "asset"
        BY <1>9, <3>2 DEF ReadAgain
    <3>4. QED
        BY <1>2, <3>3, StepsApart
  <2>2. ~strayed => mempool = <<>> /\ \A j \in Keepers : receipt[j] = "none"
      BY <1>9, OwnerWaits DEF ReadAgain, At
  <2>3. QED
      BY <1>1, <1>3, <1>9, <2>1, <2>2, ExclusiveAfter DEF ReadAgain, chain, At
<1>10. CASE SimulateDistribute(k)
  <2>1. \/ run'[k].pc \in {"asset", "market"}
        \/ /\ run'[k].pc = "send" /\ Asset(k)' = Asset(k) /\ Market(k)' = Market(k)
           /\ Asset(k) \in held[Market(k)]
      BY <1>2, <1>10, StepsApart DEF SimulateDistribute, Phases
  <2>2. ~strayed => mempool = <<>> /\ \A j \in Keepers : receipt[j] = "none"
      BY <1>10, OwnerWaits DEF SimulateDistribute, At
  <2>3. UNCHANGED <<held, mempool, receipt, lock>>
      BY <1>10 DEF SimulateDistribute
  <2>4. At(k, "send")' => Found(k)'
      BY <2>1, <2>3 DEF At, Found
  <2>5. QED
      BY <1>1, <1>3, <2>1, <2>2, <2>3, <2>4, ExclusiveAfter DEF At
<1>11. CASE SendDistribute(k)
  <2>1. run[k].turn <= Len(MarketOrder)
      BY <1>2, <1>11 DEF SendDistribute, At, RunsOK, Serving, Phases
  <2>2. Market(k) \in Markets /\ Asset(k) \in AssetSet
      BY <1>2, <2>1, Names
  <2>3. ~strayed => mempool = <<>> /\ \A j \in Keepers : receipt[j] = "none"
      BY <1>11, OwnerWaits DEF SendDistribute, At
  <2>4. ~strayed => Found(k)
      BY <1>11 DEF ExclusiveType, Exclusive, SendOK, SendDistribute
  <2>5. /\ run'[k].pc = "distributing" /\ Market(k)' = Market(k) /\ Asset(k)' = Asset(k)
      BY <1>2, <1>11, StepsApart DEF SendDistribute, Phases
  <2>6. ~strayed' =>
            /\ Len(mempool') = 1 /\ mempool'[1].by = k
            /\ mempool'[1].market = Market(k) /\ mempool'[1].asset = Asset(k)
      BY <1>1, <1>2, <1>11, <2>2, <2>3, Sent DEF SendDistribute
  <2>7. ~strayed' => Awaits(mempool[1].by, mempool[1])'
      BY <1>1, <1>11, <2>3, <2>4, <2>5, <2>6 DEF Awaits, Found, At, SendDistribute
  <2>8. QED
      BY <1>1, <1>3, <1>11, <2>3, <2>5, <2>6, <2>7, ExclusiveAfter DEF SendDistribute, At
<1>12. CASE DistributeReceipt(k)
  <2>1. run'[k].pc \in {"asset", "market"}
      BY <1>2, <1>12, StepsApart DEF DistributeReceipt
  <2>2. ~strayed => mempool = <<>> /\ \A j \in Keepers \ {k} : receipt[j] = "none"
      BY <1>1, <1>12, OnlyOwner DEF DistributeReceipt, Awaits
  <2>3. receipt' = [receipt EXCEPT ![k] = "none"] /\ mempool' = mempool /\ lock' = lock
      BY <1>12 DEF DistributeReceipt
  <2>4. receipt'[k] = "none" /\ \A j \in Keepers \ {k} : receipt'[j] = receipt[j]
      BY <1>2, <2>3 DEF TypeOK
  <2>5. QED
      BY <1>1, <1>3, <2>1, <2>2, <2>3, <2>4, ExclusiveAfter DEF At
<1>13. QED
    BY <1>4, <1>5, <1>6, <1>7, <1>8, <1>9, <1>10, <1>11, <1>12 DEF Work

(* A run that abandons nothing had no transaction.                         *)
LEMMA AbandonedAlone ==
    ASSUME ExclusiveType, NEW k \in Keepers, ~At(k, "off"), Abandon(k), ~strayed'
    PROVE  /\ ~strayed /\ mempool' = <<>> /\ receipt'[k] = "none"
           /\ \A j \in Keepers \ {k} : receipt'[j] = receipt[j]
<1>1. ~strayed /\ ~\E i \in DOMAIN mempool : mempool[i].by = k
    BY DEF Abandon
<1>2. mempool \in Seq(TxType)
    BY DEF ExclusiveType, TypeOK, TxType
<1>3. Len(mempool) = 1 => 1 \in DOMAIN mempool
    BY <1>2
<1>4. mempool = <<>>
    BY <1>1, <1>3, OnlyOwner
<1>5. mempool' \in Seq(TxType)
    BY Abandoned DEF ExclusiveType
<1>6. DOMAIN mempool' = DOMAIN mempool
    BY DEF Abandon
<1>7. mempool' = <<>>
    BY <1>4, <1>5, <1>6
<1>8. receipt'[k] = "none" /\ \A j \in Keepers \ {k} : receipt'[j] = receipt[j]
    BY DEF Abandon, ExclusiveType, TypeOK
<1>9. QED
    BY <1>1, <1>7, <1>8

(* So do its failures, or something has strayed.                           *)
LEMMA ExclusiveFailure ==
    ASSUME ExclusiveType, NEW k \in Keepers, Failure(k)
    PROVE  Exclusive'
<1>1. TypeOK /\ RunsOK
    BY DEF ExclusiveType
<1>2. CASE OpenWithoutGas(k)
  <2>1. run'[k].pc = "market"
    <3>1. run[k] \in RunType
        BY <1>1, Names
    <3>2. [run[k] EXCEPT !.pc = "market", !.gate = FALSE,
                         !.recent = {m \in Markets : indexed[m] <= Lookback},
                         !.sweep = isFallbackSweepActive(clock)].pc = "market"
        BY <3>1 DEF RunType
    <3>3. \E r : Step(k, r) /\ r.pc = "market"
        BY <1>2, <3>2 DEF OpenWithoutGas
    <3>4. QED
        BY <1>1, <3>3, StepsApart
  <2>2. ~strayed => mempool = <<>> /\ \A j \in Keepers : receipt[j] = "none"
      BY <1>2, OwnerWaits DEF OpenWithoutGas, At
  <2>3. \A j \in Keepers \ {k} : run'[j] = run[j]
      BY <1>1, <1>2, StepsApart DEF OpenWithoutGas
  <2>4. QED
      BY <1>2, <2>1, <2>2, <2>3, ExclusiveAfter DEF OpenWithoutGas, chain, At
<1>3. CASE CallEndsRun(k)
  <2>1. run'[k].pc = "off" /\ \A j \in Keepers \ {k} : run'[j] = run[j]
      BY <1>1, <1>3, StepsApart DEF CallEndsRun
  <2>2. ~strayed => mempool = <<>> /\ \A j \in Keepers : receipt[j] = "none"
      BY <1>3, OwnerWaits DEF CallEndsRun
  <2>3. ~At(k, "off") /\ UNCHANGED chain
      BY <1>3 DEF CallEndsRun, At
  <2>4. QED
      BY <2>1, <2>2, <2>3, ExclusiveAfter DEF chain, At
<1>4. CASE CallEndsMarket(k)
  <2>1. ~At(k, "off")
      BY <1>4 DEF CallEndsMarket, At
  <2>2. run'[k].pc = "market" /\ \A j \in Keepers \ {k} : run'[j] = run[j]
      BY <1>1, <1>4, StepsApart DEF CallEndsMarket
  <2>3. Abandon(k) /\ lock' = lock /\ wasted' = wasted
      BY <1>4 DEF CallEndsMarket
  <2>4. QED
      BY <2>1, <2>2, <2>3, AbandonedAlone, ExclusiveAfter DEF At
<1>5. CASE Crash(k)
  <2>1. ~At(k, "off")
      BY <1>5 DEF Crash
  <2>2. run'[k].pc = "off" /\ \A j \in Keepers \ {k} : run'[j] = run[j]
      BY <1>1, <1>5, StepsApart DEF Crash
  <2>3. Abandon(k) /\ wasted' = wasted
      BY <1>5 DEF Crash
  <2>4. QED
      BY <2>1, <2>2, <2>3, AbandonedAlone, ExclusiveAfter DEF At
<1>6. CASE LoseLock(k)
    BY <1>6 DEF LoseLock, ExclusiveType, Exclusive, Alone, ReceiptsOK, MempoolOK, SendOK,
                OnlyOthersWasteTransactions
<1>7. QED
    BY <1>2, <1>3, <1>4, <1>5, <1>6 DEF Failure

(* While nothing has strayed, the transaction that is mined is awaited by  *)
(* the one process at work.                                                *)
LEMMA Mined ==
    ASSUME ExclusiveType, ~strayed, mempool # <<>>
    PROVE  /\ Tail(mempool) = <<>>
           /\ \E k \in Keepers :
                 /\ ~At(k, "off") /\ Awaits(k, Head(mempool)) /\ Head(mempool).by = k
                 /\ \A j \in Keepers \ {k} : At(j, "off") /\ receipt[j] = "none"
<1>1. mempool \in Seq(TxType)
    BY DEF ExclusiveType, TypeOK, TxType
<1>2. Len(mempool) = 1 /\ Awaits(mempool[1].by, mempool[1])
    BY DEF ExclusiveType, Exclusive, MempoolOK
<1>3. Tail(mempool) = <<>> /\ Head(mempool) = mempool[1]
  <2>1. Tail(mempool) \in Seq(TxType) /\ Len(Tail(mempool)) = 0
      BY <1>1, <1>2, HeadTailProperties
  <2>2. Head(mempool) = mempool[1]
      BY <1>1, <1>2
  <2>3. QED
      BY <2>1, <2>2, EmptySeq
<1>4. PICK k : k = mempool[1].by
    OBVIOUS
<1>5. k \in Keepers /\ ~At(k, "off")
    BY <1>2, <1>4 DEF Awaits, At
<1>6. \A j \in Keepers \ {k} : At(j, "off") /\ receipt[j] = "none"
    BY <1>5, OnlyOwner
<1>7. QED
    BY <1>2, <1>3, <1>4, <1>5, <1>6

(* The chain keeps it: what is mined finds its balance.                    *)
LEMMA ExclusiveMine ==
    ASSUME ExclusiveType, MineCollect \/ MineDistribute
    PROVE  Exclusive'
<1>1. /\ run' = run /\ lock' = lock /\ strayed' = strayed /\ mempool' = Tail(mempool)
      /\ mempool # <<>>
    BY DEF MineCollect, MineDistribute
<1>2. CASE strayed
  <2>1. wasted' = wasted
      BY <1>2 DEF MineCollect, MineDistribute, ExclusiveType, TypeOK
  <2>2. QED
      BY <1>1, <1>2, <2>1
      DEF ExclusiveType, Exclusive, Alone, ReceiptsOK, MempoolOK, SendOK, OnlyOthersWasteTransactions
<1>3. CASE ~strayed
  <2>1. PICK k \in Keepers :
            /\ ~At(k, "off") /\ Awaits(k, Head(mempool)) /\ Head(mempool).by = k
            /\ \A j \in Keepers \ {k} : At(j, "off") /\ receipt[j] = "none"
      BY <1>1, <1>3, Mined
  <2>2. mempool' = <<>>
      BY <1>1, <1>3, Mined
  <2>3. PICK status \in {"success", "reverted"} : Answer(Head(mempool), status)
      BY DEF MineCollect, MineDistribute
  <2>4. wasted' = wasted
    <3>1. CASE MineCollect
        BY <3>1 DEF MineCollect
    <3>2. CASE MineDistribute
        BY <1>3, <2>1, <3>2 DEF MineDistribute, Awaits, Found, ExclusiveType, TypeOK
    <3>3. QED
        BY <3>1, <3>2
  <2>5. receipt' = [receipt EXCEPT ![k] = status]
      BY <2>1, <2>3, KeeperAssumption DEF Answer
  <2>6. \A j \in Keepers \ {k} : receipt'[j] = receipt[j]
      BY <2>5 DEF ExclusiveType, TypeOK
  <2>7. At(k, "collecting") \/ At(k, "distributing")
      BY <2>1 DEF Awaits
  <2>8. QED
      BY <1>1, <1>3, <2>1, <2>2, <2>4, <2>6, <2>7, ExclusiveAfter DEF At
<1>4. QED
    BY <1>2, <1>3

(* So do others: what they distribute under the keeper's transaction is     *)
(* taken.                                                                   *)
LEMMA ExclusiveOutside ==
    ASSUME ExclusiveType, NEW m \in Markets,
           OutsideCollect(m) \/ \E a \in AssetSet : OutsideDistribute(m, a)
    PROVE  Exclusive'
<1>1. UNCHANGED <<mempool, receipt, strayed, wasted, lock, run>>
    BY DEF OutsideCollect, OutsideDistribute
<1>2. TypeOK
    BY DEF ExclusiveType
<1>3. ASSUME NEW k \in Keepers, run[k].pc \in {"send", "distributing"}, Found(k)
      PROVE  Found(k)'
  <2>1. Market(k)' = Market(k) /\ Asset(k)' = Asset(k)
      BY <1>1 DEF Market, Asset
  <2>2. CASE OutsideCollect(m)
      BY <1>2, <1>3, <2>1, <2>2 DEF Found, OutsideCollect, TypeOK
  <2>3. ASSUME NEW a \in AssetSet, OutsideDistribute(m, a)
        PROVE  Found(k)'
    <3>1. taken \subseteq taken'
        BY <2>3 DEF OutsideDistribute
    <3>2. CASE Market(k) = m /\ Asset(k) = a
        BY <1>3, <2>1, <2>3, <3>2 DEF Found, OutsideDistribute
    <3>3. CASE ~(Market(k) = m /\ Asset(k) = a)
        BY SMTT(30), <1>2, <1>3, <2>1, <2>3, <3>1, <3>3 DEF Found, OutsideDistribute, TypeOK
    <3>4. QED
        BY <3>2, <3>3
  <2>4. QED
      BY <2>2, <2>3
<1>4. \A k \in Keepers : \A tx : Awaits(k, tx) => Awaits(k, tx)'
    BY <1>1, <1>3 DEF Awaits, At, Market, Asset
<1>5. SendOK'
    BY <1>1, <1>3 DEF ExclusiveType, Exclusive, SendOK, At
<1>6. MempoolOK'
  <2>1. ~strayed /\ mempool # <<>> =>
            /\ Len(mempool) = 1 /\ mempool[1].by \in Keepers
            /\ Awaits(mempool[1].by, mempool[1])
      BY DEF ExclusiveType, Exclusive, MempoolOK, Awaits
  <2>2. ASSUME ~strayed, mempool # <<>>
        PROVE  Awaits(mempool[1].by, mempool[1])'
      BY <1>1, <1>4, <2>1, <2>2
  <2>3. QED
      BY <1>1, <2>1, <2>2 DEF MempoolOK
<1>7. Alone' /\ ReceiptsOK' /\ OnlyOthersWasteTransactions'
    BY <1>1 DEF ExclusiveType, Exclusive, Alone, ReceiptsOK, At,
                OnlyOthersWasteTransactions
<1>8. QED
    BY <1>5, <1>6, <1>7 DEF Exclusive

(* So do the cron, the trades, the index and the clock.                    *)
LEMMA ExclusiveRest ==
    ASSUME ExclusiveType,
           \/ \E k \in Keepers : Fire(k)
           \/ \E m \in Markets : Trade(m) \/ Index(m)
           \/ Tick \/ SlowTick \/ UNCHANGED vars
    PROVE  Exclusive'
<1>1. ASSUME UNCHANGED <<held, mempool, receipt, strayed, taken, wasted, lock, run>>
      PROVE  Exclusive'
    BY <1>1 DEF ExclusiveType, Exclusive, Alone, ReceiptsOK, MempoolOK, SendOK,
                OnlyOthersWasteTransactions, Awaits, Found, At, Market, Asset
<1>2. ASSUME NEW k \in Keepers, Fire(k)
      PROVE  Exclusive'
  <2>1. UNCHANGED chain /\ At(k, "off")
      BY <1>2 DEF Fire
  <2>2. CASE lock # Nobody
    <3>1. UNCHANGED <<lock, run>>
        BY <1>2, <2>2 DEF Fire, tryAcquireFeeKeeperLock
    <3>2. QED
        BY <1>1, <2>1, <3>1 DEF chain
  <2>3. CASE lock = Nobody
    <3>1. lock' = k /\ Goto(k, "open")
        BY <1>2, <2>3 DEF Fire, tryAcquireFeeKeeperLock
    <3>2. run'[k].pc = "open" /\ \A j \in Keepers \ {k} : run'[j] = run[j]
        BY <3>1, StepsApart DEF ExclusiveType, Phases
    <3>3. ~strayed => \A j \in Keepers : At(j, "off")
        BY <2>3, KeeperAssumption DEF ExclusiveType, Exclusive, Alone
    <3>4. ~strayed => mempool = <<>> /\ \A j \in Keepers : receipt[j] = "none"
        BY <3>3 DEF ExclusiveType, Exclusive, MempoolOK, ReceiptsOK, Awaits, At, TypeOK
    <3>5. ~strayed => \A j \in Keepers : run'[j].pc \in {"off", "open"}
        BY <3>2, <3>3 DEF At
    <3>6. Alone'
        BY <2>1, <3>1, <3>2, <3>3 DEF Alone, At, chain
    <3>7. ReceiptsOK' /\ MempoolOK' /\ SendOK' /\ OnlyOthersWasteTransactions'
        BY <2>1, <3>4, <3>5 DEF ReceiptsOK, MempoolOK, SendOK, OnlyOthersWasteTransactions, At,
                                chain, ExclusiveType, Exclusive
    <3>8. QED
        BY <3>6, <3>7 DEF Exclusive
  <2>4. QED
      BY <2>2, <2>3
<1>3. CASE \E m \in Markets : Trade(m) \/ Index(m)
    BY <1>1, <1>3 DEF Trade, Index, chain
<1>4. CASE Tick \/ SlowTick
    BY <1>1, <1>4 DEF Tick, SlowTick, Pass, chain
<1>5. CASE UNCHANGED vars
    BY <1>1, <1>5 DEF vars
<1>6. QED
    BY <1>2, <1>3, <1>4, <1>5

(* The exclusion is inductive.                                             *)
LEMMA ExclusiveStep ==
    ASSUME ExclusiveType, [Next]_vars
    PROVE  Exclusive'
BY ExclusiveWork, ExclusiveFailure, ExclusiveMine, ExclusiveOutside, ExclusiveRest
DEF Next

-----------------------------------------------------------------------------
(* A healthy market's turn comes. *)

TimelyType == ExclusiveType /\ Timely

(* What a healthy market is.                                               *)
LEMMA HealthyAre ==
    \A m \in Healthy :
        m \in Markets /\ m \notin Unverified /\ \A a \in AssetSet : <<m, a>> \notin Poisoned
BY DEF Healthy

(* How many runs what a distributor holds can cost.                        *)
LEMMA Sizes ==
    ASSUME NEW S, NEW T, S \subseteq T, T \subseteq AssetSet
    PROVE  /\ Size(S) \in 0..2 /\ Size(T) \in 0..2 /\ Size(S) <= Size(T)
           /\ S # {} => Size(S) >= 1
           /\ \A a \in AssetSet : a \notin S => Size(S \cup {a}) = Size(S) + 1
           /\ \A a \in AssetSet : a \in S => S \cup {a} = S
<1>1. /\ Size(S) \in 0..2 /\ Size(T) \in 0..2 /\ Size(S) <= Size(T)
      /\ S # {} => Size(S) >= 1
  <2>1. /\ "quote" \in S => "quote" \in T
        /\ "token" \in S => "token" \in T
      OBVIOUS
  <2>2. S # {} => "quote" \in S \/ "token" \in S
      BY DEF AssetSet
  <2>3. QED
      BY <2>1, <2>2 DEF Size
<1>2. \A a \in AssetSet : a \notin S => Size(S \cup {a}) = Size(S) + 1
    BY DEF Size, AssetSet
<1>3. \A a \in AssetSet : a \in S => S \cup {a} = S
    OBVIOUS
<1>4. QED
    BY <1>1, <1>2, <1>3

(* What is waited and what is held, of one market.                         *)
LEMMA Amounts ==
    ASSUME TypeOK, NEW m \in Markets
    PROVE  waited[m] \in Nat /\ waited[m] <= Period + 3 /\ held[m] \subseteq AssetSet
<1>1. waited \in [Markets -> 0..(Period + 3)] /\ held \in [Markets -> SUBSET AssetSet]
    BY DEF TypeOK
<1>2. Period + 3 \in Nat
    BY KeeperAssumption
<1>3. QED
    BY <1>1, <1>2

(* The same after a step.                                                  *)
LEMMA AmountsNext ==
    ASSUME TypeOK', NEW m \in Markets
    PROVE  waited'[m] \in Nat /\ held'[m] \subseteq AssetSet
<1>1. waited' \in [Markets -> 0..(Period + 3)] /\ held' \in [Markets -> SUBSET AssetSet]
    BY DEF TypeOK
<1>2. Period + 3 \in Nat
    BY KeeperAssumption
<1>3. QED
    BY <1>1, <1>2

(* A balance that shrinks costs no more, and just collected fees rest.     *)
LEMMA RestsOn ==
    ASSUME TypeOK, TypeOK', NEW m \in Markets
    PROVE  /\ waited'[m] = waited[m] /\ held'[m] \subseteq held[m] =>
                 (Rests(m, 2) => Rests(m, 2)') /\ (Rests(m, 3) => Rests(m, 3)')
           /\ waited'[m] = 0 => Rests(m, 2)' /\ Rests(m, 3)'
           /\ Rests(m, 2) => Rests(m, 3)
<1>1. /\ waited[m] \in Nat /\ waited'[m] \in Nat
      /\ held[m] \subseteq AssetSet /\ held'[m] \subseteq AssetSet
    BY Amounts, AmountsNext
<1>2. /\ Size(held[m]) \in 0..2 /\ Size(held'[m]) \in 0..2
      /\ held'[m] \subseteq held[m] => Size(held'[m]) <= Size(held[m])
    BY <1>1, Sizes
<1>3. QED
    BY <1>1, <1>2 DEF Rests

(* Once something has failed, only the bound on what was waited remains.   *)
LEMMA TimelyAfterFault ==
    ASSUME faults' # 0, FeesWaitOnePeriodAndTwoRuns,
           \A m \in Markets : waited'[m] \in {0, waited[m]}
    PROVE  Timely'
<1>1. \A m \in Healthy : waited'[m] <= Period + 2
    BY HealthyAre, KeeperAssumption DEF FeesWaitOnePeriodAndTwoRuns
<1>2. QED
    BY <1>1 DEF Timely, TickOK, HeldOK, WaitOK, FeesWaitOnePeriodAndTwoRuns

InTurn(k, m) == Due(k, m) \/ (Market(k) = m /\ Holds(k))

(* While nothing has failed, a healthy distributor rests outside its turn, *)
(* and before it but for one run.                                          *)
LEMMA OneRun ==
    ASSUME TimelyType, faults = 0, NEW k \in Keepers, ~At(k, "off")
    PROVE  /\ ~strayed /\ fired /\ run[k].gate /\ FirstAsset(k) /\ lock = k
           /\ At(k, "open") \/ run[k].sweep = isFallbackSweepActive(clock)
           /\ \A j \in Keepers \ {k} : At(j, "off")
           /\ \A m \in Healthy : Rests(m, 2) \/ (Rests(m, 3) /\ InTurn(k, m))
           /\ \A m \in Healthy :
                 \/ waited[m] <= clock + 2
                 \/ clock = 0 /\ waited[m] <= Period + 2 /\ Due(k, m)
<1>1. /\ ~strayed /\ fired /\ run[k].gate /\ FirstAsset(k)
      /\ At(k, "open") \/ run[k].sweep = isFallbackSweepActive(clock)
    BY DEF TimelyType, Timely, TickOK
<1>2. lock = k /\ \A j \in Keepers \ {k} : At(j, "off")
    BY <1>1, OnlyOwner DEF TimelyType
<1>3. \A j \in Keepers \ {k} : ~Holds(j) /\ \A m : ~Due(j, m)
    BY <1>2 DEF Holds, Due, At
<1>4. \A m \in Healthy : Rests(m, 2) \/ (Rests(m, 3) /\ InTurn(k, m))
    BY <1>1, <1>3 DEF TimelyType, Timely, HeldOK, InTurn
<1>5. \A m \in Healthy :
          \/ waited[m] <= clock + 2
          \/ clock = 0 /\ waited[m] <= Period + 2 /\ Due(k, m)
    BY <1>1, <1>3 DEF TimelyType, Timely, WaitOK
<1>6. QED
    BY <1>1, <1>2, <1>4, <1>5

(* What a step of that run has to leave behind.                            *)
LEMMA TimelyAfter ==
    ASSUME TimelyType, faults = 0, faults' = 0, NEW k \in Keepers, ~At(k, "off"),
           UNCHANGED <<strayed, clock, waited, held, fired>>,
           \A j \in Keepers \ {k} : run'[j] = run[j],
           At(k, "off")' \/ (run'[k].gate /\ run'[k].sweep = isFallbackSweepActive(clock)),
           FirstAsset(k)',
           \A m \in Healthy : Due(k, m) => InTurn(k, m)' \/ Rests(m, 2),
           \A m \in Healthy :
               Market(k) = m /\ Holds(k) => InTurn(k, m)' \/ Rests(m, 2),
           \A m \in Healthy : clock = 0 /\ Due(k, m) => Due(k, m)' \/ waited[m] <= 2
    PROVE  Timely'
<1>1. ~strayed /\ fired /\ \A j \in Keepers \ {k} : At(j, "off")
    BY OneRun
<1>2. TickOK'
    BY <1>1 DEF TickOK, At, isFallbackSweepActive
<1>3. HeldOK'
  <2>1. \A m \in Healthy : Rests(m, 2) \/ (Rests(m, 3) /\ InTurn(k, m)')
      BY OneRun DEF InTurn
  <2>2. QED
      BY <2>1 DEF HeldOK, InTurn, Rests
<1>4. WaitOK'
    BY OneRun DEF WaitOK
<1>5. FeesWaitOnePeriodAndTwoRuns'
    BY DEF TimelyType, Timely, FeesWaitOnePeriodAndTwoRuns
<1>6. QED
    BY <1>2, <1>3, <1>4, <1>5 DEF Timely

(* What the moves of a run keep of it.                                     *)
LEMMA Keeps ==
    ASSUME TypeOK, RunsOK, NEW k \in Keepers
    PROVE  /\ NextMarket(k) =>
                 /\ run'[k].turn = run[k].turn + 1 /\ run'[k].step = 1
                 /\ run'[k].gate = run[k].gate /\ run'[k].sweep = run[k].sweep
           /\ NextAsset(k) =>
                 \/ NextMarket(k) /\ run[k].step = 2
                 \/ /\ run[k].step = 1 /\ run'[k].step = 2 /\ run'[k].turn = run[k].turn
                    /\ run'[k].pc = "asset" /\ run'[k].balances = run[k].balances
                    /\ run'[k].gate = run[k].gate /\ run'[k].sweep = run[k].sweep
           /\ \A pc \in Phases : Goto(k, pc) =>
                 /\ run'[k].balances = run[k].balances
                 /\ run'[k].gate = run[k].gate /\ run'[k].sweep = run[k].sweep
<1>1. run \in [Keepers -> RunType] /\ run[k] \in RunType
    BY DEF TypeOK, RunType
<1>2. run[k].step \in 1..2 /\ Len(Assets) = 2
    BY <1>1, AssetsAre DEF RunType
<1>3. ASSUME NextMarket(k)
      PROVE  /\ run'[k].turn = run[k].turn + 1 /\ run'[k].step = 1
             /\ run'[k].gate = run[k].gate /\ run'[k].sweep = run[k].sweep
    BY <1>1, <1>3 DEF NextMarket, Step, RunType
<1>4. ASSUME NextAsset(k)
      PROVE  \/ NextMarket(k) /\ run[k].step = 2
             \/ /\ run[k].step = 1 /\ run'[k].step = 2 /\ run'[k].turn = run[k].turn
                /\ run'[k].pc = "asset" /\ run'[k].balances = run[k].balances
                /\ run'[k].gate = run[k].gate /\ run'[k].sweep = run[k].sweep
  <2>1. CASE run[k].step = 2
      BY <1>2, <1>4, <2>1 DEF NextAsset
  <2>2. CASE run[k].step = 1
    <3>1. run'[k] = [run[k] EXCEPT !.pc = "asset", !.step = @ + 1]
        BY <1>1, <1>2, <1>4, <2>2 DEF NextAsset, Step
    <3>2. QED
        BY <1>1, <2>2, <3>1 DEF RunType
  <2>3. QED
      BY <1>2, <2>1, <2>2
<1>5. ASSUME NEW pc \in Phases, Goto(k, pc)
      PROVE  /\ run'[k].balances = run[k].balances
             /\ run'[k].gate = run[k].gate /\ run'[k].sweep = run[k].sweep
    BY <1>1, <1>5 DEF Goto, Step, RunType
<1>6. QED
    BY <1>3, <1>4, <1>5

(* In the order of the distributions, the rest after the first of what is  *)
(* left.                                                                   *)
LEMMA LeftAre ==
    ASSUME TypeOK, NEW k \in Keepers
    PROVE  /\ run[k].step = 1 => Left(k) = AssetSet /\ Asset(k) = "quote"
           /\ run[k].step = 2 => Left(k) = {"token"} /\ Asset(k) = "token"
           /\ (run[k].step = 2)' => Left(k)' = {"token"}
           /\ (run[k].step = 1)' => Left(k)' = AssetSet
<1>1. {Assets[i] : i \in 1..2} = AssetSet /\ {Assets[i] : i \in 2..2} = {"token"}
    BY AssetsAre DEF AssetSet
<1>2. QED
    BY <1>1, AssetsAre DEF Left, Asset

(* A distribution that is over leaves the assets that come after it.       *)
LEMMA DistributedThis ==
    ASSUME TypeOK, RunsOK, NEW k \in Keepers, NEW m \in Healthy, Market(k) = m,
           held[m] \subseteq run[k].balances \cap Left(k), Asset(k) \notin held[m],
           NextAsset(k), held' = held
    PROVE  InTurn(k, m)' \/ Rests(m, 2)
<1>1. CASE NextMarket(k) /\ run[k].step = 2
    BY <1>1, LeftAre DEF Rests
<1>2. CASE /\ run[k].step = 1 /\ run'[k].step = 2 /\ run'[k].turn = run[k].turn
           /\ run'[k].pc = "asset" /\ run'[k].balances = run[k].balances
  <2>1. held[m] \subseteq run[k].balances \cap {"token"}
      BY <1>2, LeftAre DEF AssetSet
  <2>2. Left(k)' = {"token"} /\ Market(k)' = m
      BY <1>2, LeftAre DEF Market
  <2>3. QED
      BY <1>2, <2>1, <2>2 DEF InTurn, Holds, At
<1>3. QED
    BY <1>1, <1>2, Keeps

(* A market whose turn has not come is still due as the run goes on.       *)
LEMMA DueLater ==
    ASSUME TypeOK, NEW k \in Keepers, NEW m \in Markets, Due(k, m),
           ~At(k, "open"), run'[k].pc # "off",
           \/ run'[k].turn = run[k].turn
           \/ run'[k].turn = run[k].turn + 1 /\ run'[k].pc = "market",
           \/ Market(k) # m
           \/ run[k].pc \notin {"market", "collect", "collecting"}
           \/ At(k, "collecting") /\ receipt[k] # "none"
    PROVE  Due(k, m)'
<1>1. PICK i \in run[k].turn..Len(MarketOrder) : MarketOrder[i] = m /\ i # run[k].turn
    BY DEF Due, At, Market
<1>2. run[k].turn \in Nat /\ i \in Nat /\ i > run[k].turn /\ i <= Len(MarketOrder)
  <2>1. MarketOrder \in Seq(Markets)
      BY KeeperAssumption
  <2>2. run[k].turn \in 1..(Len(MarketOrder) + 1)
      BY DEF TypeOK
  <2>3. QED
      BY <1>1, <2>1, <2>2
<1>3. i \in run'[k].turn..Len(MarketOrder) /\ (i = run'[k].turn => run'[k].pc = "market")
  <2>1. Len(MarketOrder) \in Nat
      BY KeeperAssumption
  <2>2. QED
      BY <1>2, <2>1
<1>4. QED
    BY <1>1, <1>3 DEF Due, At

(* The steps of a run, by the treatment of a healthy market.               *)
LEMMA TimelyWork ==
    ASSUME TimelyType, NEW k \in Keepers, Work(k)
    PROVE  Timely'
<1>1. /\ ~At(k, "off") /\ UNCHANGED <<world, fired, faults, strayed>>
      /\ lock' = lock \/ At(k, "market")
    BY DEF Work, Open, ReadMarket, Finish, Collect, CollectReceipt, ReadAgain,
           SimulateDistribute, SendDistribute, DistributeReceipt, At, chain
<1>2. UNCHANGED held
    BY DEF Work, Open, ReadMarket, Finish, Collect, CollectReceipt, ReadAgain,
           SimulateDistribute, SendDistribute, DistributeReceipt, chain
<1>3. CASE faults # 0
    BY <1>1, <1>3, TimelyAfterFault DEF TimelyType, Timely, world
<1>4. CASE faults = 0
  <2>1. TypeOK /\ RunsOK /\ run[k] \in RunType
      BY Names DEF TimelyType, ExclusiveType
  <2>2. /\ ~strayed /\ fired /\ run[k].gate /\ FirstAsset(k)
        /\ At(k, "open") \/ run[k].sweep = isFallbackSweepActive(clock)
      BY <1>1, <1>4, OneRun
  <2>3. faults' = 0 /\ UNCHANGED <<strayed, clock, waited, held, fired>>
      BY <1>1, <1>2, <1>4 DEF world
  <2>4. MarketOrder \in Seq(Markets)
      BY KeeperAssumption
  <2>5. Serving(k) => run[k].turn <= Len(MarketOrder)
      BY <2>1 DEF RunsOK
  <2> USE <1>1, <1>2, <1>4, <2>1, <2>2, <2>3
  <2>6. CASE Open(k)
    <3>1. PICK r : r = [run[k] EXCEPT !.pc = "market",
                            !.recent = {m \in Markets : indexed[m] <= Lookback},
                            !.sweep = isFallbackSweepActive(clock)]
        OBVIOUS
    <3>2. /\ r.pc = "market" /\ r.turn = run[k].turn /\ r.gate = run[k].gate
          /\ r.step = run[k].step /\ r.sweep = isFallbackSweepActive(clock)
        BY <3>1 DEF RunType
    <3>3. run'[k] = r /\ \A j \in Keepers \ {k} : run'[j] = run[j]
        BY <2>6, <3>1, StepsApart DEF Open
    <3>4. run[k].turn = 1 /\ run[k].step = 1
        BY <2>6, OffIsRun DEF Open, RunsOK
    <3>5. ~Holds(k)
        BY <2>6 DEF Open, Holds, At
    <3>6. ASSUME NEW m \in Healthy
          PROVE  Due(k, m)'
      <4>1. PICK i \in DOMAIN MarketOrder : MarketOrder[i] = m
          BY HealthyAre, KeeperAssumption
      <4>2. i \in 1..Len(MarketOrder)
          BY <2>4, <4>1
      <4>3. QED
          BY <3>2, <3>3, <3>4, <4>1, <4>2 DEF Due, At
    <3>7. QED
        BY <3>2, <3>3, <3>4, <3>5, <3>6, TimelyAfter DEF FirstAsset, InTurn
  <2>7. CASE ReadMarket(k)
    <3>1. PICK r : r = [run[k] EXCEPT !.balances = held[Market(k)]]
        OBVIOUS
    <3>2. /\ r.balances = held[Market(k)] /\ r.sweep = run[k].sweep
          /\ r.recent = run[k].recent /\ r.turn = run[k].turn /\ r.gate = run[k].gate
          /\ r.step = run[k].step
        BY <3>1 DEF RunType
    <3>9. r \in RunType /\ held[Market(k)] \in SUBSET AssetSet
      <4>1. held[Market(k)] \in SUBSET AssetSet
          BY <2>7, Names DEF ReadMarket, TypeOK
      <4>2. QED
          BY <3>1, <4>1 DEF RunType
    <3>3. \/ decideMarketService(r, Market(k)) = "skip" /\ NextMarket(k)
          \/ /\ decideMarketService(r, Market(k)) = "distribute_only"
             /\ Step(k, [r EXCEPT !.pc = "asset"])
          \/ Step(k, [r EXCEPT !.pc = "collect"])
        BY <2>7, <3>1 DEF ReadMarket
    <3>4. /\ \A j \in Keepers \ {k} : run'[j] = run[j]
          /\ run'[k].gate = run[k].gate /\ run'[k].sweep = run[k].sweep
          /\ run'[k].step = 1
          /\ \/ /\ run'[k].turn = run[k].turn + 1 /\ run'[k].pc = "market"
                /\ decideMarketService(r, Market(k)) = "skip"
             \/ /\ run'[k].turn = run[k].turn /\ run'[k].pc = "asset"
                /\ run'[k].balances = held[Market(k)]
                /\ decideMarketService(r, Market(k)) = "distribute_only"
             \/ run'[k].turn = run[k].turn /\ run'[k].pc = "collect"
      <4>1. CASE decideMarketService(r, Market(k)) = "skip" /\ NextMarket(k)
          BY <4>1, StepsApart, Keeps
      <4>2. ASSUME NEW pc \in {"asset", "collect"}, Step(k, [r EXCEPT !.pc = pc])
            PROVE  /\ \A j \in Keepers \ {k} : run'[j] = run[j]
                   /\ run'[k].gate = run[k].gate /\ run'[k].sweep = run[k].sweep
                   /\ run'[k].turn = run[k].turn /\ run'[k].pc = pc
                   /\ run'[k].step = run[k].step
                   /\ run'[k].balances = held[Market(k)]
        <5>1. run'[k] = [r EXCEPT !.pc = pc] /\ \A j \in Keepers \ {k} : run'[j] = run[j]
            BY <4>2, StepsApart
        <5>2. QED
            BY <3>2, <3>9, <5>1 DEF RunType
      <4>4. run[k].step = 1
          BY <2>7 DEF ReadMarket, At, FirstAsset, Early
      <4>3. QED
          BY <3>3, <4>1, <4>2, <4>4
    <3>5. At(k, "market") /\ ~At(k, "open") /\ ~Holds(k)
        BY <2>7 DEF ReadMarket, At, Holds
    <3>6. ASSUME NEW m \in Healthy, Due(k, m), Market(k) # m
          PROVE  Due(k, m)'
        BY <3>4, <3>5, <3>6, DueLater, HealthyAre DEF At
    <3>7. ASSUME NEW m \in Healthy, Market(k) = m, held[m] # {}
          PROVE  /\ (Market(k) = m /\ Holds(k))'
                 /\ waited[m] <= 2
      <4>1. decideMarketService(r, Market(k)) = "distribute_only"
          BY <3>2, <3>7 DEF decideMarketService
      <4>2. /\ run'[k].turn = run[k].turn /\ run'[k].pc = "asset"
            /\ run'[k].balances = held[Market(k)] /\ run'[k].step = 1
        <5>1. decideMarketService(r, Market(k)) # "collect_and_distribute"
            BY <4>1
        <5>2. \/ decideMarketService(r, Market(k)) = "skip"
              \/ Step(k, [r EXCEPT !.pc = "asset"])
            BY <2>7, <3>1, <5>1 DEF ReadMarket
        <5>3. run'[k] = [r EXCEPT !.pc = "asset"]
            BY <4>1, <5>2, StepsApart
        <5>4. run'[k].pc = "asset"
            BY <3>9, <5>3 DEF RunType
        <5>5. QED
            BY <3>4, <5>4
      <4>3. Left(k)' = AssetSet /\ Market(k)' = m
          BY <3>7, <4>2, LeftAre DEF Market
      <4>4. held'[m] \subseteq (run[k].balances \cap Left(k))'
          BY <3>7, <3>9, <4>2, <4>3
      <4>5. (Market(k) = m /\ Holds(k))'
          BY <4>2, <4>3, <4>4 DEF Holds, At
      <4>6. waited[m] + Size(held[m]) <= 3
        <5>1. Rests(m, 2) \/ Rests(m, 3)
            BY OneRun
        <5>2. waited[m] \in Nat /\ Size(held[m]) \in 0..2
            BY HealthyAre, Amounts, Sizes
        <5>3. QED
            BY <3>7, <5>1, <5>2 DEF Rests
      <4>7. Size(held[m]) \in 1..2 /\ waited[m] \in Nat
        <5>1. Size(held[m]) \in 0..2 /\ Size(held[m]) >= 1 /\ waited[m] \in Nat
            BY <3>7, HealthyAre, Amounts, Sizes
        <5>2. QED
            BY <5>1
      <4>8. waited[m] <= 2
          BY <4>6, <4>7
      <4>9. QED
          BY <4>5, <4>8
    <3>8. ASSUME NEW m \in Healthy, clock = 0, Due(k, m), Market(k) = m, held[m] = {}
          PROVE  Due(k, m)'
      <4>1. run[k].sweep
        <5>1. 0 % Period = 0
            BY KeeperAssumption
        <5>2. run[k].sweep = isFallbackSweepActive(0)
            BY <3>5, <3>8
        <5>3. isFallbackSweepActive(0)
          <6>1. 0 < Window
              BY KeeperAssumption
          <6>2. QED
              BY <5>1, <6>1 DEF isFallbackSweepActive
        <5>4. QED
            BY <5>2, <5>3, Zenon
      <4>2. decideMarketService(r, Market(k)) = "collect_and_distribute"
          BY <3>2, <3>8, <4>1 DEF decideMarketService
      <4>3. run'[k].turn = run[k].turn /\ run'[k].pc = "collect"
          BY <3>4, <4>2
      <4>4. PICK i \in run[k].turn..Len(MarketOrder) : MarketOrder[i] = m
          BY <3>5, <3>8 DEF Due
      <4>5. QED
          BY <4>3, <4>4 DEF Due, At
    <3>10. \A m \in Healthy : Due(k, m) => InTurn(k, m)' \/ Rests(m, 2)
        BY <3>6, <3>7 DEF InTurn, Rests
    <3>11. \A m \in Healthy : clock = 0 /\ Due(k, m) => Due(k, m)' \/ waited[m] <= 2
        BY <3>6, <3>7, <3>8
    <3>12. QED
        BY <3>4, <3>5, <3>10, <3>11, TimelyAfter DEF At, FirstAsset
  <2>8. CASE Finish(k)
    <3>1. run'[k].pc = "off" /\ \A j \in Keepers \ {k} : run'[j] = run[j]
        BY <2>8, StepsApart DEF Finish
    <3>2. ~Holds(k)
        BY <2>8 DEF Finish, Holds, At
    <3>3. \A m \in Healthy : ~Due(k, m)
      <4>1. run[k].turn \in Nat /\ run[k].turn > Len(MarketOrder)
          BY <2>4, <2>8 DEF Finish, RunType
      <4>2. run[k].turn..Len(MarketOrder) = {}
          BY <2>4, <4>1
      <4>3. QED
          BY <2>8, <4>2 DEF Due, Finish, At
    <3>4. QED
        BY <3>1, <3>2, <3>3, TimelyAfter DEF At, FirstAsset, Early
  <2>9. CASE Collect(k)
    <3>1. Goto(k, "collecting") /\ receipt' = receipt
        BY <2>9 DEF Collect
    <3>2. /\ run'[k].pc = "collecting" /\ run'[k].turn = run[k].turn
          /\ run'[k].step = run[k].step
          /\ run'[k].gate = run[k].gate /\ run'[k].sweep = run[k].sweep
          /\ \A j \in Keepers \ {k} : run'[j] = run[j]
        BY <3>1, StepsApart, Keeps DEF Phases
    <3>3. ~Holds(k)
        BY <2>9 DEF Collect, Holds, At
    <3>4. receipt[k] = "none"
        BY <2>9, OwnerWaits DEF TimelyType, Collect, At
    <3>5. \A m \in Healthy : Due(k, m) => Due(k, m)'
        BY <2>9, <3>1, <3>2, <3>4 DEF Due, At, Collect
    <3>6. QED
        BY <2>9, <3>2, <3>3, <3>5, TimelyAfter DEF Collect, At, FirstAsset, Early, InTurn
  <2>10. CASE CollectReceipt(k)
    <3>1. /\ run'[k].pc = "again" /\ run'[k].turn = run[k].turn
          /\ run'[k].step = run[k].step /\ Market(k)' = Market(k)
          /\ run'[k].gate = run[k].gate /\ run'[k].sweep = run[k].sweep
          /\ \A j \in Keepers \ {k} : run'[j] = run[j]
        BY <2>10, StepsApart, Keeps DEF CollectReceipt, Phases
    <3>2. At(k, "collecting") /\ receipt[k] = "success" /\ ~At(k, "open")
        BY <2>10 DEF CollectReceipt, At
    <3>3. ~Holds(k)
        BY <3>2 DEF Holds, At
    <3>4. \A m \in Healthy : Due(k, m) => Due(k, m)'
        BY <3>1, <3>2, DueLater, HealthyAre
    <3>5. QED
        BY <3>1, <3>2, <3>3, <3>4, TimelyAfter DEF At, FirstAsset, Early, InTurn
  <2>11. CASE ReadAgain(k)
    <3>1. PICK r : r = [run[k] EXCEPT !.pc = "asset", !.balances = held[Market(k)]]
        OBVIOUS
    <3>2. /\ r.pc = "asset" /\ r.turn = run[k].turn /\ r.gate = run[k].gate
          /\ r.sweep = run[k].sweep /\ r.step = run[k].step
        BY <3>1 DEF RunType
    <3>3. run'[k] = r /\ \A j \in Keepers \ {k} : run'[j] = run[j]
        BY <2>11, <3>1, StepsApart DEF ReadAgain
    <3>4. At(k, "again") /\ ~At(k, "open") /\ ~Holds(k)
        BY <2>11 DEF ReadAgain, At, Holds
    <3>5. \A m \in Healthy : Due(k, m) => Due(k, m)'
        BY <3>2, <3>3, <3>4, DueLater, HealthyAre DEF At
    <3>6. QED
        BY <3>2, <3>3, <3>4, <3>5, TimelyAfter DEF FirstAsset, Early, InTurn
  <2>12. CASE SimulateDistribute(k)
    <3>1. At(k, "asset") /\ ~At(k, "open") /\ run[k].turn <= Len(MarketOrder)
        BY <2>5, <2>12 DEF SimulateDistribute, At, Serving, Phases
    <3>2. \/ Asset(k) \notin run[k].balances \cap held[Market(k)] /\ NextAsset(k)
          \/ <<Market(k), Asset(k)>> \in Poisoned /\ NextMarket(k)
          \/ Asset(k) \in held[Market(k)] /\ Goto(k, "send")
        BY <2>12 DEF SimulateDistribute
    <3>3. /\ run'[k].gate = run[k].gate /\ run'[k].sweep = run[k].sweep
          /\ run'[k].pc # "off" /\ \A j \in Keepers \ {k} : run'[j] = run[j]
          /\ \/ run'[k].turn = run[k].turn
             \/ run'[k].turn = run[k].turn + 1 /\ run'[k].pc = "market"
          /\ FirstAsset(k)'
        BY <3>2, StepsApart, Keeps DEF Phases, FirstAsset, Early
    <3>4. ASSUME NEW m \in Healthy, Market(k) = m, Holds(k)
          PROVE  InTurn(k, m)' \/ Rests(m, 2)
      <4>1. held[m] \subseteq run[k].balances \cap Left(k)
          BY <3>4 DEF Holds
      <4>2. CASE Asset(k) \notin run[k].balances \cap held[Market(k)] /\ NextAsset(k)
          BY <3>4, <4>1, <4>2, DistributedThis
      <4>3. <<Market(k), Asset(k)>> \notin Poisoned
          BY <3>4, HealthyAre, Names
      <4>4. CASE Asset(k) \in held[Market(k)] /\ Goto(k, "send")
        <5>1. /\ run'[k].pc = "send" /\ run'[k].step = run[k].step
              /\ run'[k].balances = run[k].balances /\ Market(k)' = Market(k)
              /\ Asset(k)' = Asset(k)
            BY <4>4, StepsApart, Keeps DEF Phases
        <5>2. waited[m] + Size(held[m]) <= 3
          <6>1. Rests(m, 2) \/ Rests(m, 3)
              BY OneRun
          <6>2. waited[m] \in Nat /\ Size(held[m]) \in 0..2
              BY HealthyAre, Amounts, Sizes
          <6>3. QED
              BY <3>4, <4>4, <6>1, <6>2 DEF Rests
        <5>3. held[m] \cup {Asset(k)} = held[m]
            BY <3>4, <4>4
        <5>4. Holds(k)'
            BY <3>4, <4>1, <5>1, <5>2, <5>3 DEF Holds, At, Left
        <5>5. QED
            BY <3>4, <5>1, <5>4 DEF InTurn
      <4>5. QED
          BY <3>2, <4>2, <4>3, <4>4
    <3>5. \A m \in Healthy : Due(k, m) => Due(k, m)'
        BY <3>1, <3>3, DueLater, HealthyAre DEF At
    <3>6. QED
        BY <3>1, <3>3, <3>4, <3>5, TimelyAfter DEF InTurn
  <2>13. CASE SendDistribute(k)
    <3>1. At(k, "send") /\ ~At(k, "open") /\ receipt' = receipt
        BY <2>13 DEF SendDistribute, At
    <3>2. /\ run'[k].pc = "distributing" /\ run'[k].turn = run[k].turn
          /\ run'[k].step = run[k].step /\ run'[k].balances = run[k].balances
          /\ Market(k)' = Market(k) /\ Asset(k)' = Asset(k)
          /\ run'[k].gate = run[k].gate /\ run'[k].sweep = run[k].sweep
          /\ \A j \in Keepers \ {k} : run'[j] = run[j]
        BY <2>13, StepsApart, Keeps DEF SendDistribute, Phases
    <3>3. receipt[k] = "none"
        BY <3>1, OwnerWaits DEF TimelyType, At
    <3>4. Holds(k) => Holds(k)'
        BY <3>1, <3>2, <3>3 DEF Holds, At, Left
    <3>5. \A m \in Healthy : Due(k, m) => Due(k, m)'
        BY <3>1, <3>2, DueLater, HealthyAre DEF At
    <3>6. QED
        BY <3>1, <3>2, <3>4, <3>5, TimelyAfter DEF FirstAsset, Early, InTurn
  <2>14. CASE DistributeReceipt(k)
    <3>1. At(k, "distributing") /\ ~At(k, "open") /\ run[k].turn <= Len(MarketOrder)
        BY <2>5, <2>14 DEF DistributeReceipt, At, Serving, Phases
    <3>2. receipt[k] \in {"success", "reverted"}
        BY <2>14 DEF DistributeReceipt, TypeOK
    <3>3. NextAsset(k) \/ NextMarket(k)
        BY <2>14 DEF DistributeReceipt
    <3>4. /\ run'[k].gate = run[k].gate /\ run'[k].sweep = run[k].sweep
          /\ run'[k].pc # "off" /\ \A j \in Keepers \ {k} : run'[j] = run[j]
          /\ \/ run'[k].turn = run[k].turn
             \/ run'[k].turn = run[k].turn + 1 /\ run'[k].pc = "market"
          /\ FirstAsset(k)'
        BY <3>3, StepsApart, Keeps DEF FirstAsset, Early
    <3>5. ASSUME NEW m \in Healthy, Market(k) = m, Holds(k)
          PROVE  InTurn(k, m)' \/ Rests(m, 2)
      <4>1. /\ held[m] \subseteq run[k].balances \cap Left(k) /\ Asset(k) \notin held[m]
            /\ waited[m] + Size(held[m] \cup {Asset(k)}) <= 3
          BY <3>1, <3>2, <3>5 DEF Holds, At
      <4>2. CASE NextAsset(k)
          BY <3>5, <4>1, <4>2, DistributedThis
      <4>3. CASE NextMarket(k)
        <5>1. held[m] \subseteq AssetSet /\ waited[m] \in Nat /\ Asset(k) \in AssetSet
            BY HealthyAre, Names, Amounts
        <5>2. Size(held[m] \cup {Asset(k)}) = Size(held[m]) + 1 /\ Size(held[m]) \in 0..2
            BY <4>1, <5>1, Sizes
        <5>3. QED
            BY <4>1, <5>1, <5>2 DEF Rests
      <4>4. QED
          BY <3>3, <4>2, <4>3
    <3>6. \A m \in Healthy : Due(k, m) => Due(k, m)'
        BY <3>1, <3>4, DueLater, HealthyAre DEF At
    <3>7. QED
        BY <3>1, <3>4, <3>5, <3>6, TimelyAfter DEF InTurn
  <2>15. QED
      BY <2>6, <2>7, <2>8, <2>9, <2>10, <2>11, <2>12, <2>13, <2>14 DEF Work
<1>5. QED
    BY <1>3, <1>4

(* A failure ends the promise and keeps the bound.                         *)
LEMMA TimelyFailure ==
    ASSUME TimelyType, NEW k \in Keepers, Failure(k)
    PROVE  Timely'
<1>1. faults' # 0
    BY FailureTypes DEF TimelyType, ExclusiveType
<1>2. waited' = waited
    BY DEF Failure, OpenWithoutGas, CallEndsRun, CallEndsMarket, Crash, LoseLock, world
<1>3. QED
    BY <1>1, <1>2, TimelyAfterFault DEF TimelyType, Timely

(* What a call on the chain leaves of the promise for one market.          *)
LEMMA TimelyCall ==
    ASSUME TimelyType, TypeOK', faults = 0, UNCHANGED <<faults, clock, fired, run, strayed>>,
           \A m \in Healthy :
               \/ waited'[m] = 0
               \/ waited'[m] = waited[m] /\ held'[m] \subseteq held[m],
           \A k \in Keepers, m \in Healthy :
               /\ Due(k, m) => Due(k, m)' \/ waited'[m] = 0
               /\ Market(k) = m /\ Holds(k) => Holds(k)' \/ waited'[m] = 0
    PROVE  Timely'
<1>1. TypeOK /\ TypeOK'
    BY DEF TimelyType, ExclusiveType
<1>2. TickOK'
    BY DEF TimelyType, Timely, TickOK, At, FirstAsset
<1>3. HeldOK'
  <2> SUFFICES ASSUME NEW m \in Healthy, ~Rests(m, 2)'
               PROVE  /\ Rests(m, 3)'
                      /\ ~fired' \/ \E k \in Keepers :
                                       (Due(k, m) \/ (Market(k) = m /\ Holds(k)))'
      BY DEF HeldOK
  <2>1. waited'[m] # 0 /\ ~Rests(m, 2)
      BY <1>1, RestsOn, HealthyAre
  <2>2. /\ Rests(m, 3)
        /\ ~fired \/ \E k \in Keepers : Due(k, m) \/ (Market(k) = m /\ Holds(k))
      BY <2>1 DEF TimelyType, Timely, HeldOK
  <2>3. Rests(m, 3)'
      BY <1>1, <2>1, <2>2, RestsOn, HealthyAre
  <2>4. \A k \in Keepers : Market(k)' = Market(k)
      BY DEF Market
  <2>5. QED
      BY <2>1, <2>2, <2>3, <2>4
<1>4. WaitOK'
  <2> SUFFICES ASSUME NEW m \in Healthy, ~(waited'[m] <= clock' + 2)
               PROVE  /\ clock' = 0 /\ waited'[m] <= Period + 2
                      /\ ~fired' \/ \E k \in Keepers : Due(k, m)'
      BY DEF WaitOK
  <2>1. waited'[m] = waited[m] /\ waited'[m] # 0
    <3>1. clock' \in Nat
        BY <1>1 DEF TypeOK
    <3>2. waited'[m] # 0
        BY <3>1
    <3>3. QED
        BY <3>2
  <2>2. /\ clock = 0 /\ waited[m] <= Period + 2
        /\ ~fired \/ \E k \in Keepers : Due(k, m)
      BY <2>1 DEF TimelyType, Timely, WaitOK
  <2>3. QED
      BY <2>1, <2>2
<1>5. FeesWaitOnePeriodAndTwoRuns'
    BY KeeperAssumption DEF TimelyType, Timely, FeesWaitOnePeriodAndTwoRuns
<1>6. QED
    BY <1>2, <1>3, <1>4, <1>5 DEF Timely

(* Collected fees wait no longer; distributed ones are gone.               *)
LEMMA TimelyMine ==
    ASSUME TimelyType, MineCollect \/ MineDistribute
    PROVE  Timely'
<1>1. /\ faults' = faults /\ mempool # <<>>
      /\ UNCHANGED <<clock, fired, run, strayed, lock>>
    BY DEF MineCollect, MineDistribute, world
<1>2. TypeOK /\ RunsOK /\ TypeOK'
    BY MineTypes DEF TimelyType, ExclusiveType
<1>3. CASE faults # 0
  <2>1. \A m \in Markets : waited'[m] \in {0, waited[m]}
      BY <1>2 DEF MineCollect, MineDistribute, world, TypeOK
  <2>2. QED
      BY <1>1, <1>3, <2>1, TimelyAfterFault DEF TimelyType, Timely
<1>4. CASE faults = 0
  <2>1. ~strayed
      BY <1>4 DEF TimelyType, Timely, TickOK
  <2>2. PICK k \in Keepers :
            /\ ~At(k, "off") /\ Awaits(k, Head(mempool)) /\ Head(mempool).by = k
            /\ \A j \in Keepers \ {k} : At(j, "off") /\ receipt[j] = "none"
      BY <1>1, <2>1, Mined DEF TimelyType
  <2>3. \A j \in Keepers \ {k} : ~Holds(j) /\ \A m : ~Due(j, m)
      BY <2>2 DEF Holds, Due, At
  <2>4. Market(k) = Head(mempool).market /\ Market(k)' = Market(k) /\ Asset(k)' = Asset(k)
      BY <1>1, <2>2 DEF Awaits, Market, Asset
  <2>5. CASE MineCollect
    <3>1. At(k, "collecting")
        BY <1>2, <2>2, <2>5, Names DEF Awaits, MineCollect, AssetSet
    <3>2. waited' = [waited EXCEPT ![Market(k)] = 0]
        BY <2>4, <2>5 DEF MineCollect
    <3>3. ~Holds(k)
        BY <3>1 DEF Holds, At
    <3>4. ASSUME NEW m \in Healthy
          PROVE  /\ \/ waited'[m] = 0
                    \/ waited'[m] = waited[m] /\ held'[m] \subseteq held[m]
                 /\ Due(k, m) => Due(k, m)' \/ waited'[m] = 0
      <4>1. CASE Market(k) = m
          BY <1>2, <3>2, <4>1, HealthyAre DEF TypeOK
      <4>2. CASE Market(k) # m
        <5>1. waited'[m] = waited[m] /\ held'[m] = held[m]
            BY <1>2, <2>4, <2>5, <3>2, <4>2, HealthyAre DEF TypeOK, MineCollect
        <5>2. Due(k, m) => Due(k, m)'
            BY <1>1, <1>2, <2>2, <3>1, <4>2, DueLater, HealthyAre DEF At
        <5>3. QED
            BY <5>1, <5>2
      <4>3. QED
          BY <4>1, <4>2
    <3>5. QED
        BY <1>1, <1>2, <1>4, <2>3, <3>3, <3>4, TimelyCall
  <2>6. CASE MineDistribute
    <3>1. At(k, "distributing") /\ Head(mempool).asset = Asset(k)
        BY <2>2, <2>6 DEF Awaits, MineDistribute
    <3>2. held' = [held EXCEPT ![Market(k)] = @ \ {Asset(k)}] /\ waited' = waited
        BY <2>4, <2>6, <3>1 DEF MineDistribute, world
    <3>3. \A m \in Healthy : held'[m] \subseteq held[m]
        BY <1>2, <3>2, HealthyAre DEF TypeOK
    <3>4. \A m \in Healthy : Due(k, m) => Due(k, m)'
        BY <1>1, <1>2, <2>2, <3>1, DueLater, HealthyAre DEF At
    <3>5. ASSUME NEW m \in Healthy, Market(k) = m, Holds(k)
          PROVE  Holds(k)'
      <4>1. held'[m] = held[m] \ {Asset(k)}
          BY <1>2, <3>2, <3>5, HealthyAre DEF TypeOK
      <4>2. held'[m] \cup {Asset(k)} = held[m] \cup {Asset(k)}
          BY <4>1
      <4>3. Left(k)' = Left(k)
          BY <1>1 DEF Left
      <4>4. QED
          BY <1>1, <2>4, <3>1, <3>2, <3>5, <4>1, <4>2, <4>3 DEF Holds, At
    <3>6. QED
        BY <1>1, <1>2, <1>4, <2>3, <3>2, <3>3, <3>4, <3>5, TimelyCall
  <2>7. QED
      BY <2>5, <2>6
<1>5. QED
    BY <1>3, <1>4

(* Others collect, which ends the wait, or take from what a run has to     *)
(* distribute.                                                             *)
LEMMA TimelyOutside ==
    ASSUME TimelyType, NEW m \in Markets,
           OutsideCollect(m) \/ \E a \in AssetSet : OutsideDistribute(m, a)
    PROVE  Timely'
<1>1. UNCHANGED <<faults, clock, fired, run, strayed, receipt>>
    BY DEF OutsideCollect, OutsideDistribute, world
<1>2. TypeOK /\ RunsOK /\ TypeOK'
    BY OutsideTypes DEF TimelyType, ExclusiveType
<1>3. \A k \in Keepers : \A n : Due(k, n) => Due(k, n)'
    BY <1>1 DEF Due, At
<1>4. \A k \in Keepers :
          Market(k)' = Market(k) /\ Asset(k)' = Asset(k) /\ Left(k)' = Left(k)
    BY <1>1 DEF Market, Asset, Left
<1>5. CASE OutsideCollect(m)
  <2>1. /\ waited'[m] = 0
        /\ \A n \in Markets \ {m} : waited'[n] = waited[n] /\ held'[n] = held[n]
      BY <1>2, <1>5 DEF OutsideCollect, TypeOK
  <2>2. \A k \in Keepers, n \in Healthy :
            Market(k) = n /\ Holds(k) => Holds(k)' \/ waited'[n] = 0
      BY <1>1, <1>4, <2>1, HealthyAre DEF Holds, At
  <2>3. CASE faults # 0
    <3>1. \A n \in Markets : waited'[n] \in {0, waited[n]}
        BY <2>1
    <3>2. QED
        BY <1>1, <2>3, <3>1, TimelyAfterFault DEF TimelyType, Timely
  <2>4. CASE faults = 0
      BY <1>1, <1>2, <1>3, <2>1, <2>2, <2>4, HealthyAre, TimelyCall
  <2>5. QED
      BY <2>3, <2>4
<1>6. ASSUME NEW a \in AssetSet, OutsideDistribute(m, a)
      PROVE  Timely'
  <2>1. /\ waited' = waited
        /\ \A n \in Markets : held'[n] \subseteq held[n]
      BY <1>2, <1>6 DEF OutsideDistribute, world, TypeOK
  <2>2. ASSUME NEW k \in Keepers, NEW n \in Healthy, Market(k) = n, Holds(k)
        PROVE  Holds(k)'
    <3>1. held'[n] \subseteq held[n] /\ n \in Markets
        BY <2>1, HealthyAre
    <3>2. held[n] \subseteq AssetSet /\ Asset(k) \in AssetSet /\ waited[n] \in Nat
        BY <1>2, <3>1, Names, Amounts
    <3>3. /\ held'[n] \cup {Asset(k)} \subseteq held[n] \cup {Asset(k)}
          /\ held[n] \cup {Asset(k)} \subseteq AssetSet
        BY <3>1, <3>2
    <3>4. /\ Size(held'[n] \cup {Asset(k)}) <= Size(held[n] \cup {Asset(k)})
          /\ Size(held[n] \cup {Asset(k)}) \in 0..2
          /\ Size(held'[n] \cup {Asset(k)}) \in 0..2
        BY <3>3, Sizes
    <3>5. waited[n] + Size(held[n] \cup {Asset(k)}) <= 3 =>
              waited'[n] + Size(held'[n] \cup {Asset(k)}) <= 3
        BY <2>1, <3>2, <3>4
    <3>6. QED
        BY <1>1, <1>4, <2>1, <2>2, <3>1, <3>5 DEF Holds, At
  <2>3. CASE faults # 0
      BY <1>1, <2>1, <2>3, TimelyAfterFault DEF TimelyType, Timely
  <2>4. CASE faults = 0
      BY <1>1, <1>2, <1>3, <2>1, <2>2, <2>4, HealthyAre, TimelyCall
  <2>5. QED
      BY <2>3, <2>4
<1>7. QED
    BY <1>5, <1>6

(* The run of a tick finds every market due.                               *)
LEMMA TimelyFire ==
    ASSUME TimelyType, NEW k \in Keepers, Fire(k)
    PROVE  Timely'
<1>1. /\ At(k, "off") /\ ~fired /\ fired' /\ UNCHANGED <<world, chain, faults>>
      /\ TypeOK /\ RunsOK
    BY DEF Fire, TimelyType, ExclusiveType
<1>2. CASE faults # 0
    BY <1>1, <1>2, TimelyAfterFault DEF TimelyType, Timely, world
<1>3. CASE faults = 0
  <2>1. \A j \in Keepers : At(j, "off")
      BY <1>1, <1>3 DEF TimelyType, Timely, TickOK
  <2>2. lock = Nobody
      BY <1>1, <2>1 DEF TypeOK, At
  <2>3. Goto(k, "open")
      BY <1>1, <2>2 DEF Fire, tryAcquireFeeKeeperLock
  <2>4. /\ run'[k].pc = "open" /\ run'[k].gate = run[k].gate
        /\ \A j \in Keepers \ {k} : run'[j] = run[j]
      BY <1>1, <2>3, StepsApart, Keeps DEF Phases
  <2>5. run[k].gate
    <3>1. run[k] = Off
        BY <1>1 DEF TypeOK, At
    <3>2. QED
        BY <3>1 DEF Off
  <2>6. TickOK'
    <3>1. ~strayed' /\ ~At(k, "off")' /\ \A j \in Keepers \ {k} : At(j, "off")'
        BY <1>1, <1>3, <2>1, <2>4 DEF TimelyType, Timely, TickOK, chain, At
    <3>2. run'[k].gate /\ FirstAsset(k)' /\ At(k, "open")'
        BY <2>4, <2>5 DEF FirstAsset, Early, At
    <3>3. QED
        BY <1>1, <3>1, <3>2 DEF TickOK
  <2>8. \A m : Due(k, m)'
      BY <2>4 DEF Due, At
  <2>7. HeldOK'
    <3>1. \A m \in Healthy : Rests(m, 2) \/ Rests(m, 3)
        BY <1>3 DEF TimelyType, Timely, HeldOK
    <3>2. QED
        BY <1>1, <2>8, <3>1 DEF HeldOK, Rests, world, chain
  <2>9. WaitOK'
      BY <1>1, <1>3, <2>8 DEF TimelyType, Timely, WaitOK, world
  <2>10. FeesWaitOnePeriodAndTwoRuns'
      BY <1>1 DEF TimelyType, Timely, FeesWaitOnePeriodAndTwoRuns, world
  <2>11. QED
      BY <2>6, <2>7, <2>9, <2>10 DEF Timely
<1>4. QED
    BY <1>2, <1>3

(* A tick passes after its run: in the first one all were collected.       *)
LEMMA TimelyPass ==
    ASSUME TimelyType, Tick \/ SlowTick
    PROVE  Timely'
<1>1. Pass /\ TypeOK /\ RunsOK
    BY DEF Tick, SlowTick, TimelyType, ExclusiveType
<1>2. faults' = 0 => faults = 0 /\ Idle
    BY DEF Tick, SlowTick, Fault, TypeOK, TimelyType, ExclusiveType
<1>3. \A m \in Healthy : waited[m] \in Nat /\ waited[m] <= Period + 2
    BY <1>1, HealthyAre, KeeperAssumption
    DEF TimelyType, Timely, FeesWaitOnePeriodAndTwoRuns, TypeOK
<1>4. CASE faults' # 0
  <2>1. \A m \in Markets : waited'[m] = 0
      BY <1>1, <1>4 DEF Pass
  <2>2. QED
      BY <1>4, <2>1, TimelyAfterFault DEF TimelyType, Timely
<1>5. CASE faults' = 0
  <2>1. faults = 0 /\ \A k \in Keepers : At(k, "off")
      BY <1>2, <1>5 DEF Idle
  <2>2. /\ \A k \in Keepers : ~Holds(k) /\ \A m : ~Due(k, m)
      BY <2>1 DEF Holds, Due, At
  <2>3. ~fired' /\ fired /\ UNCHANGED <<chain, run>>
      BY <1>1 DEF Pass
  <2>4. \A m \in Healthy : waited[m] <= clock + 2 /\ Rests(m, 2)
      BY <2>1, <2>2, <2>3 DEF TimelyType, Timely, WaitOK, HeldOK
  <2>5. \A m \in Healthy : waited'[m] \in {0, waited[m] + 1}
    <3>1. \A m \in Healthy : waited'[m] \in {0, Older(waited[m], Period + 3)}
        BY <1>1, HealthyAre DEF Pass
    <3>2. \A m \in Healthy : Older(waited[m], Period + 3) = waited[m] + 1
        BY <1>3, KeeperAssumption DEF Older
    <3>3. QED
        BY <3>1, <3>2
  <2>6. clock \in 0..(Period - 1) /\ clock' = (clock + 1) % Period
      BY <1>1 DEF TypeOK, Pass
  <2>7. clock' = clock + 1 \/ (clock' = 0 /\ clock + 1 = Period)
      BY <2>6, KeeperAssumption
  <2>8. \A m \in Healthy :
            waited'[m] <= Period + 2 /\ (waited'[m] <= clock' + 2 \/ clock' = 0)
    <3>1. TAKE m \in Healthy
    <3>2. /\ waited[m] \in Nat /\ waited[m] <= Period + 2 /\ waited[m] <= clock + 2
          /\ waited'[m] = 0 \/ waited'[m] = waited[m] + 1
        BY <1>3, <2>4, <2>5
    <3>3. QED
        BY <2>6, <2>7, <3>2, KeeperAssumption
  <2>9. TickOK'
      BY <2>1, <2>3 DEF TimelyType, Timely, TickOK, At, chain
  <2>10. HeldOK'
    <3>1. ASSUME NEW m \in Healthy
          PROVE  Rests(m, 3)'
      <4>1. held'[m] = held[m] /\ held[m] \subseteq AssetSet
          BY <1>1, <2>3, HealthyAre DEF chain, TypeOK
      <4>2. Size(held[m]) \in 0..2
          BY <4>1, Sizes
      <4>3. QED
          BY <1>3, <2>4, <2>5, <4>1, <4>2 DEF Rests
    <3>2. QED
        BY <2>3, <3>1 DEF HeldOK
  <2>11. WaitOK' /\ FeesWaitOnePeriodAndTwoRuns'
      BY <2>3, <2>8 DEF WaitOK, FeesWaitOnePeriodAndTwoRuns
  <2>12. QED
      BY <2>9, <2>10, <2>11 DEF Timely
<1>6. QED
    BY <1>4, <1>5

(* Trades and the index do not matter.                                     *)
LEMMA TimelyBeside ==
    ASSUME TimelyType, (\E m \in Markets : Trade(m) \/ Index(m)) \/ UNCHANGED vars
    PROVE  Timely'
<1>1. UNCHANGED <<clock, fired, held, receipt, run, faults, waited, strayed>>
    BY DEF Trade, Index, chain, vars
<1>2. \A k \in Keepers :
          /\ Market(k)' = Market(k) /\ Holds(k)' = Holds(k) /\ FirstAsset(k)' = FirstAsset(k)
          /\ At(k, "off")' = At(k, "off") /\ At(k, "open")' = At(k, "open")
    BY <1>1 DEF Market, Holds, Left, Asset, FirstAsset, At
<1>3. \A k \in Keepers, m \in Healthy : Due(k, m) => Due(k, m)'
    BY <1>1 DEF Due, At
<1>4. TickOK'
    BY <1>1, <1>2 DEF TimelyType, Timely, TickOK
<1>5. HeldOK'
    BY <1>1, <1>2, <1>3 DEF TimelyType, Timely, HeldOK, Rests
<1>6. WaitOK'
    BY <1>1, <1>3 DEF TimelyType, Timely, WaitOK
<1>7. FeesWaitOnePeriodAndTwoRuns'
    BY <1>1 DEF TimelyType, Timely, FeesWaitOnePeriodAndTwoRuns
<1>8. QED
    BY <1>4, <1>5, <1>6, <1>7 DEF Timely

(* The promise is inductive.                                               *)
LEMMA TimelyStep ==
    ASSUME TimelyType, [Next]_vars
    PROVE  Timely'
BY TimelyWork, TimelyFailure, TimelyMine, TimelyOutside, TimelyFire, TimelyPass,
   TimelyBeside
DEF Next

-----------------------------------------------------------------------------
(* The theorems. *)

(* The inductive invariant holds in every state.                           *)
THEOREM Invariance == Spec => []Inv
<1>1. Init => Inv
  <2> SUFFICES ASSUME Init PROVE Inv
      OBVIOUS
  <2>1. WorldOK /\ FaultsOK /\ LockOK
    <3>1. /\ 0 \in 0..(Period - 1) /\ 0 \in 0..(Period + 3) /\ 0 \in 0..MaxTrades
          /\ 0 \in 0..FaultBudget /\ Lookback + 1 \in 0..(Lookback + 1)
        BY KeeperAssumption
    <3>2. QED
        BY <3>1 DEF Init, WorldOK, FaultsOK, LockOK
  <2>2. ChainOK
    <3>1. mempool \in Seq(TxType)
        BY EmptySeq DEF Init
    <3>2. QED
        BY <3>1 DEF Init, ChainOK
  <2>3. \A k \in Keepers : run[k] = Off
      BY DEF Init
  <2>4. Placed
    <3>1. run \in [Keepers -> RunType] /\ \A k \in Keepers : lock # k
        BY OffIsRun, KeeperAssumption DEF Init
    <3>2. QED
        BY <2>3, <3>1, OffIsRun DEF Placed, RunsOK, At, Serving, Phases
  <2>5. \A k \in Keepers : At(k, "off") /\ ~At(k, "send") /\ receipt[k] = "none"
      BY <2>3, OffIsRun DEF Init, At
  <2>6. Exclusive
      BY <2>5 DEF Init, Exclusive, Alone, ReceiptsOK, MempoolOK, SendOK, OnlyOthersWasteTransactions
  <2>7. Timely
      BY <2>5, HealthyAre, KeeperAssumption
      DEF Init, Timely, TickOK, HeldOK, WaitOK, Rests, FeesWaitOnePeriodAndTwoRuns
  <2>8. QED
      BY <2>1, <2>2, <2>4, <2>6, <2>7, TypeParts DEF Inv
<1>2. Inv /\ [Next]_vars => Inv'
    BY TypesStep, ExclusiveStep, TimelyStep DEF Inv, TimelyType, ExclusiveType
<1>3. QED
    BY <1>1, <1>2, PTL DEF Spec

(* Type correctness: a process that is off has the state of a fresh one    *)
(* and not the lock, whatever ended it (run.ts, finally).                  *)
THEOREM TypeCorrect == Spec => []TypeOK
<1>1. Inv => TypeOK
    BY DEF Inv
<1>2. QED
    BY <1>1, Invariance, PTL

(* However many processes the cron starts, however late, and whatever      *)
(* others call: as long as no transaction has outlived its run and no run  *)
(* its lock, a transaction of the keeper is reverted only because others   *)
(* distributed its balance after the simulation (lock.ts,                  *)
(* service-market.ts).                                                     *)
THEOREM KeepersDoNotRace == Spec => []OnlyOthersWasteTransactions
<1>1. Inv => OnlyOthersWasteTransactions
    BY DEF Inv, Exclusive
<1>2. QED
    BY <1>1, Invariance, PTL

(* For every period and every window of the cron: as long as nothing has   *)
(* failed, the fees of a healthy market wait for at most one period and    *)
(* the two runs the calls of others can cost it, even if no trade of it is *)
(* ever indexed (decide.ts).                                               *)
THEOREM WaitsOnePeriod == Spec => []FeesWaitOnePeriodAndTwoRuns
<1>1. Inv => FeesWaitOnePeriodAndTwoRuns
    BY DEF Inv, Timely
<1>2. QED
    BY <1>1, Invariance, PTL

=============================================================================
