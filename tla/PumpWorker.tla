------------------------------ MODULE PumpWorker ------------------------------
(***************************************************************************)
(* The Solana market-data worker (apps/solana-pump-worker): one process    *)
(* that follows the trades of the listed Pump mints over a WebSocket,      *)
(* fetches each transaction it is told of, and records it in one database  *)
(* transaction; a reconciliation fetches what the socket missed since the  *)
(* mint's checkpoint.  Callbacks of the socket, the reconciliation and the *)
(* watchlist loop interleave at every await.                               *)
(***************************************************************************)
EXTENDS Integers, FiniteSets, Sequences, SequencesExt

CONSTANTS
    Mints,           \* Pump mints
    Sockets,         \* bound: connections that exist at the same time
    MaxTrades,       \* bound: trades on the ledger
    ReconcileLimit,  \* SCOOP_SOLANA_PUMP_RECONCILE_LIMIT, signatures per mint
    SeenLimit,       \* entries of seenSignatures (5000 in the code)
    MaxFaults,       \* bound: how often each kind of fault and listing happens
    FaultBudget      \* bound: how many of them in all

FaultKinds == {"listing", "close", "connect", "rpc", "drop", "crash"}

ASSUME PumpAssumption ==
    /\ MaxTrades \in Nat /\ ReconcileLimit \in Nat \ {0} /\ SeenLimit \in Nat \ {0}
    /\ MaxFaults \in [FaultKinds -> Nat] /\ FaultBudget \in Nat

VARIABLES
    \* Outside: the ledger's trades in order (a trade's number is its signature)
    \* and the mints that launches list.
    ledger, listed,
    \* Postgres.
    trades,          \* pump_trades: recorded signatures
    candleTrades,    \* mint -> trade_count summed over its candles
    marketState,     \* mint -> trade whose price the market state shows, or 0
    checkpoint,      \* mint -> pump_worker_checkpoints.last_signature, or 0
    \* Memory of the process.
    phase,           \* "stuck": the start failed but open handles keep it alive
    watchByMint,     \* run.ts: the watchlist of the last refresh
    watched,         \* alchemy.ts: the provider's mints
    status,          \* alchemy.ts: status, as far as subscribeMint reads it
    conns,           \* connection -> free, connecting for a start or a reconnect, open
    socket,          \* this.socket
    waiting,         \* reconnects that sleep before they connect
    pendingSubscribe,    \* <<connection, mint>> sent and not acknowledged
    subscriptionByMint,  \* mint -> connection of its subscription
    mintBySubscription,  \* <<connection, mint>> whose notifications are not dropped
    notices,         \* <<connection, trade>> on the wire
    seenSignatures,  \* oldest first
    inflight,        \* signatures between the check of seenSignatures and the end
    reconcile,       \* the reconciliation that runs, or Idle
    \* History and bounds.
    dropped,         \* signatures given up while they stay in seenSignatures
    faults

outVars == <<ledger, listed>>
dbVars == <<trades, candleTrades, marketState, checkpoint>>
watchVars == <<watchByMint, watched>>
connVars == <<status, conns, socket, waiting>>
subVars == <<pendingSubscribe, subscriptionByMint, mintBySubscription, notices>>
workVars == <<seenSignatures, inflight, reconcile>>
memVars == <<phase, watchVars, connVars, subVars, workVars>>
vars == <<outVars, dbVars, memVars, dropped, faults>>

None == "none"
Idle == [by |-> None, stage |-> "next", left |-> {}, mint |-> None, until |-> 0, todo |-> {}]
Trades == 1..MaxTrades
MintOf(i) == ledger[i].mint
SlotOf(i) == ledger[i].slot
TradesOf(m) == {i \in 1..Len(ledger) : MintOf(i) = m}
Seen(i) == \E k \in 1..Len(seenSignatures) : seenSignatures[k] = i

Fault(kind) ==
    /\ faults[kind] < MaxFaults[kind]
    /\ SumFunction(faults) < FaultBudget
    /\ faults' = [faults EXCEPT ![kind] = @ + 1]

-----------------------------------------------------------------------------
(* Outside the worker. *)

(* A trade is confirmed in the last slot or in a new one; whoever is         *)
(* subscribed to its mint is told.                                           *)
Trade(m) ==
    /\ Len(ledger) < MaxTrades
    /\ LET last == IF ledger = <<>> THEN 1 ELSE ledger[Len(ledger)].slot
       IN  \E slot \in {last, last + 1} :
               ledger' = Append(ledger, [mint |-> m, slot |-> slot])
    /\ notices' = notices \union
                  {<<s, Len(ledger')>> : s \in {c \in Sockets : <<c, m>> \in mintBySubscription}}
    /\ UNCHANGED <<listed, dbVars, phase, watchVars, connVars, pendingSubscribe,
                   subscriptionByMint, mintBySubscription, workVars, dropped, faults>>

(* A launch is completed, or its market removed. *)
ChangeListing(m) ==
    /\ Fault("listing")
    /\ listed' = IF m \in listed THEN listed \ {m} ELSE listed \union {m}
    /\ UNCHANGED <<ledger, dbVars, memVars, dropped>>

-----------------------------------------------------------------------------
(* Connections. *)

Begin(by) == [Idle EXCEPT !.by = by, !.left = watched]

(* runPumpMarketDataWorker: load the watchlist, then connect. *)
Boot ==
    /\ phase = "down"
    /\ phase' = "starting"
    /\ watchByMint' = listed
    /\ watched' = listed
    /\ \E s \in Sockets : conns' = [conns EXCEPT ![s] = "startup"]
    /\ status' = "connecting"
    /\ UNCHANGED <<outVars, dbVars, socket, waiting, subVars, workVars, dropped, faults>>

(* onOpen subscribes what has no subscription; then openSocket resolves and  *)
(* a reconciliation starts unless one runs.                                  *)
Opened(s) ==
    /\ conns[s] \in {"startup", "reconnect"}
    /\ conns' = [conns EXCEPT ![s] = "open"]
    /\ socket' = s
    /\ status' = "connected"
    /\ pendingSubscribe' = pendingSubscribe \union
           {<<s, m>> : m \in {w \in watched : subscriptionByMint[w] = None}}
    /\ reconcile' = IF reconcile = Idle THEN Begin(conns[s]) ELSE reconcile
    /\ UNCHANGED <<outVars, dbVars, phase, watchVars, waiting, subscriptionByMint,
                   mintBySubscription, notices, seenSignatures, inflight, dropped, faults>>

(* Slip: subscriptionByMint survives the socket. *)
LoseSocketKeepsMap(s, more) ==
    /\ conns' = [conns EXCEPT ![s] = "free"]
    /\ socket' = None
    /\ status' = "reconnecting"
    /\ waiting' = waiting + more
    /\ pendingSubscribe' = {} /\ mintBySubscription' = {} /\ notices' = {}
    /\ UNCHANGED subscriptionByMint

(* onClose of any connection, whichever this.socket is: the subscriptions of *)
(* all are forgotten, and what is still on the wire will be dropped.         *)
LoseSocket(s, more) ==
    /\ conns' = [conns EXCEPT ![s] = "free"]
    /\ socket' = None
    /\ status' = "reconnecting"
    /\ waiting' = waiting + more
    /\ pendingSubscribe' = {} /\ mintBySubscription' = {} /\ notices' = {}
    /\ subscriptionByMint' = [m \in Mints |-> None]

Close(s) ==
    /\ conns[s] = "open"
    /\ Fault("close")
    /\ LoseSocket(s, 1)
    /\ UNCHANGED <<outVars, dbVars, phase, watchVars, workVars, dropped>>

(* A failed attempt raises error and close: close schedules a reconnect, and *)
(* so does the catch of scheduleReconnect; at the start the error leaves     *)
(* runPumpMarketDataWorker.                                                  *)
ConnectFails(s) ==
    /\ conns[s] \in {"startup", "reconnect"}
    /\ Fault("connect")
    /\ LoseSocket(s, IF conns[s] = "startup" THEN 1 ELSE 2)
    /\ phase' = IF conns[s] = "startup" THEN "stuck" ELSE phase
    /\ UNCHANGED <<outVars, dbVars, watchVars, workVars, dropped>>

(* scheduleReconnect after its sleep. *)
Reconnect ==
    /\ waiting > 0
    /\ \E s \in Sockets :
          conns[s] = "free" /\ conns' = [conns EXCEPT ![s] = "reconnect"]
    /\ waiting' = waiting - 1
    /\ status' = "connecting"
    /\ UNCHANGED <<outVars, dbVars, phase, watchVars, socket, subVars, workVars,
                   dropped, faults>>

(* The node acknowledges logsSubscribe. *)
Ack(s, m) ==
    /\ <<s, m>> \in pendingSubscribe
    /\ pendingSubscribe' = pendingSubscribe \ {<<s, m>>}
    /\ subscriptionByMint' = [subscriptionByMint EXCEPT ![m] = s]
    /\ mintBySubscription' = mintBySubscription \union {<<s, m>>}
    /\ status' = "connected"
    /\ UNCHANGED <<outVars, dbVars, phase, watchVars, conns, socket, waiting, notices,
                   workVars, dropped, faults>>

(* The watchlist loop: subscribe the mints that are new, unsubscribe those   *)
(* that are gone and whose subscription is acknowledged.                     *)
RefreshWatchlist ==
    /\ phase = "running"
    /\ listed # watchByMint
    /\ watchByMint' = listed
    /\ LET gained == listed \ watchByMint
           lost == watchByMint \ listed
           asked == IF socket = None \/ status = "connecting" THEN {}
                    ELSE {m \in gained : subscriptionByMint[m] = None}
           ended == IF socket = None THEN {}
                    ELSE {m \in lost : subscriptionByMint[m] # None}
       IN  /\ watched' = (watched \union gained) \ lost
           /\ pendingSubscribe' = pendingSubscribe \union {<<socket, m>> : m \in asked}
           /\ subscriptionByMint' =
                [m \in Mints |-> IF m \in ended THEN None ELSE subscriptionByMint[m]]
           /\ mintBySubscription' =
                mintBySubscription \ {<<subscriptionByMint[m], m>> : m \in ended}
    /\ UNCHANGED <<outVars, dbVars, phase, connVars, notices, workVars, dropped, faults>>

-----------------------------------------------------------------------------
(* processSignature and the ingest transaction. *)

(* Slip: the set is never trimmed. *)
RememberAll(i) == Append(seenSignatures, i)

Remember(i) ==
    IF Len(seenSignatures) < SeenLimit THEN Append(seenSignatures, i)
    ELSE Append(Tail(seenSignatures), i)

\* seenSignatures is a set that remembers the order: i is in it once.
Forget(i) ==
    IF Seen(i)
    THEN RemoveAt(seenSignatures, CHOOSE k \in DOMAIN seenSignatures : seenSignatures[k] = i)
    ELSE seenSignatures

Work(i, by) == [id |-> i, by |-> by]

(* The oldest notification of a socket is handled up to its first await. *)
Notify(s, i) ==
    /\ <<s, i>> \in notices
    /\ \A j \in Trades : <<s, j>> \in notices => i <= j
    /\ notices' = notices \ {<<s, i>>}
    /\ IF <<s, MintOf(i)>> \notin mintBySubscription \/ Seen(i)
       THEN UNCHANGED <<seenSignatures, inflight>>
       ELSE /\ seenSignatures' = Remember(i)
            /\ inflight' = inflight \union {Work(i, "websocket")}
    /\ UNCHANGED <<outVars, dbVars, phase, watchVars, connVars, pendingSubscribe,
                   subscriptionByMint, mintBySubscription, reconcile, dropped, faults>>

(* processSignature returns to whoever called it. *)
Return(w) ==
    /\ inflight' = inflight \ {w}
    /\ reconcile' = IF w.by = "reconcile" THEN [reconcile EXCEPT !.stage = "apply"]
                    ELSE reconcile

(* Slip: a signature whose fetch failed is not forgotten. *)
FetchFailsForGood(w) ==
    /\ w \in inflight
    /\ Fault("rpc")
    /\ Return(w)
    /\ UNCHANGED <<outVars, dbVars, phase, watchVars, connVars, subVars, seenSignatures, dropped>>

(* getTransaction throws. *)
FetchFails(w) ==
    /\ w \in inflight
    /\ Fault("rpc")
    /\ seenSignatures' = Forget(w.id)
    /\ Return(w)
    /\ UNCHANGED <<outVars, dbVars, phase, watchVars, connVars, subVars, dropped>>

(* The node does not have the transaction yet, or the ingest transaction     *)
(* fails and the handler logs it: the signature stays in seenSignatures.     *)
GiveUp(w) ==
    /\ w \in inflight
    /\ Fault("drop")
    /\ dropped' = dropped \union {w.id}
    /\ Return(w)
    /\ UNCHANGED <<outVars, dbVars, phase, watchVars, connVars, subVars, seenSignatures>>

(* Slip: ON CONFLICT DO UPDATE, which returns a row for a duplicate too. *)
IngestAgain(w) ==
    /\ w \in inflight
    /\ trades' = trades \union {w.id}
    /\ candleTrades' = [candleTrades EXCEPT ![MintOf(w.id)] = @ + 1]
    /\ marketState' = [marketState EXCEPT ![MintOf(w.id)] = w.id]
    /\ checkpoint' = [checkpoint EXCEPT ![MintOf(w.id)] = w.id]
    /\ Return(w)
    /\ UNCHANGED <<outVars, phase, watchVars, connVars, subVars, seenSignatures, dropped, faults>>

(* ingestNormalizedPumpTrade, one transaction: nothing for a duplicate, else *)
(* the trade, its candles, the market state and the checkpoint.              *)
Ingest(w) ==
    /\ w \in inflight
    /\ IF w.id \in trades THEN UNCHANGED dbVars
       ELSE /\ trades' = trades \union {w.id}
            /\ candleTrades' = [candleTrades EXCEPT ![MintOf(w.id)] = @ + 1]
            /\ marketState' = [marketState EXCEPT ![MintOf(w.id)] = w.id]
            /\ checkpoint' = [checkpoint EXCEPT ![MintOf(w.id)] = w.id]
    /\ Return(w)
    /\ UNCHANGED <<outVars, phase, watchVars, connVars, subVars, seenSignatures, dropped, faults>>

-----------------------------------------------------------------------------
(* reconcileAll: mint by mint, oldest slot first. *)

(* The interval's timer fires; it does nothing while a reconciliation runs. *)
TimerFires ==
    /\ phase = "running"
    /\ reconcile = Idle
    /\ reconcile' = Begin("interval")
    /\ UNCHANGED <<outVars, dbVars, phase, watchVars, connVars, subVars, seenSignatures,
                   inflight, dropped, faults>>

Reconciling(stage) == reconcile.by # None /\ reconcile.stage = stage

(* reconcileMint reads the mint's checkpoint. *)
NextMint ==
    /\ Reconciling("next")
    /\ \E m \in reconcile.left :
          reconcile' = [reconcile EXCEPT !.stage = "list", !.left = @ \ {m}, !.mint = m,
                                         !.until = checkpoint[m]]
    /\ UNCHANGED <<outVars, dbVars, phase, watchVars, connVars, subVars, seenSignatures,
                   inflight, dropped, faults>>

Newest(n, S) == {i \in S : Cardinality({j \in S : j > i}) < n}

(* getSignaturesForAddress: the newest that are newer than the checkpoint. *)
ListSignatures ==
    /\ Reconciling("list")
    /\ reconcile' = [reconcile EXCEPT !.stage = "apply",
           !.todo = Newest(ReconcileLimit,
                           {i \in TradesOf(reconcile.mint) : i > reconcile.until})]
    /\ UNCHANGED <<outVars, dbVars, phase, watchVars, connVars, subVars, seenSignatures,
                   inflight, dropped, faults>>

(* processSignature of the oldest slot; signatures, hence the order within a *)
(* slot, are arbitrary.  The loop waits for it.                              *)
TakeSignature ==
    /\ Reconciling("apply")
    /\ \E i \in reconcile.todo :
          /\ \A j \in reconcile.todo : SlotOf(i) <= SlotOf(j)
          /\ IF Seen(i)
             THEN /\ reconcile' = [reconcile EXCEPT !.todo = @ \ {i}]
                  /\ UNCHANGED <<seenSignatures, inflight>>
             ELSE /\ reconcile' = [reconcile EXCEPT !.todo = @ \ {i}, !.stage = "wait"]
                  /\ seenSignatures' = Remember(i)
                  /\ inflight' = inflight \union {Work(i, "reconcile")}
    /\ UNCHANGED <<outVars, dbVars, phase, watchVars, connVars, subVars, dropped, faults>>

MintDone ==
    /\ Reconciling("apply")
    /\ reconcile.todo = {}
    /\ reconcile' = [reconcile EXCEPT !.stage = "next"]
    /\ UNCHANGED <<outVars, dbVars, phase, watchVars, connVars, subVars, seenSignatures,
                   inflight, dropped, faults>>

(* After the first one connect returns and the loops start. *)
ReconcileDone ==
    /\ Reconciling("next")
    /\ reconcile.left = {}
    /\ phase' = IF reconcile.by = "startup" THEN "running" ELSE phase
    /\ reconcile' = Idle
    /\ UNCHANGED <<outVars, dbVars, watchVars, connVars, subVars, seenSignatures, inflight,
                   dropped, faults>>

(* The memory of a process that is not running. *)
Reset ==
    /\ phase' = "down" /\ watchByMint' = {} /\ watched' = {}
    /\ status' = "connecting" /\ socket' = None /\ waiting' = 0
    /\ conns' = [s \in Sockets |-> "free"]
    /\ pendingSubscribe' = {} /\ mintBySubscription' = {} /\ notices' = {}
    /\ subscriptionByMint' = [m \in Mints |-> None]
    /\ seenSignatures' = <<>> /\ inflight' = {} /\ reconcile' = Idle
    /\ dropped' = {}

(* The checkpoint or the signatures cannot be read: at the start the error   *)
(* leaves the run, after a reconnect another one is scheduled beside the     *)
(* open socket, in the interval it is an unhandled rejection.                *)
ReconcileFails ==
    /\ Reconciling("list")
    /\ Fault("rpc")
    /\ IF reconcile.by = "interval" THEN Reset
       ELSE /\ reconcile' = Idle
            /\ phase' = IF reconcile.by = "startup" THEN "stuck" ELSE phase
            /\ waiting' = IF reconcile.by = "startup" THEN waiting ELSE waiting + 1
            /\ UNCHANGED <<watchVars, status, conns, socket, subVars, seenSignatures,
                           inflight, dropped>>
    /\ UNCHANGED <<outVars, dbVars>>

(* The host stops or restarts the process. *)
Crash ==
    /\ phase # "down"
    /\ Fault("crash")
    /\ Reset
    /\ UNCHANGED <<outVars, dbVars>>

-----------------------------------------------------------------------------
Init ==
    /\ ledger = <<>> /\ listed = {}
    /\ trades = {}
    /\ candleTrades = [m \in Mints |-> 0]
    /\ marketState = [m \in Mints |-> 0]
    /\ checkpoint = [m \in Mints |-> 0]
    /\ phase = "down" /\ watchByMint = {} /\ watched = {}
    /\ status = "connecting" /\ socket = None /\ waiting = 0
    /\ conns = [s \in Sockets |-> "free"]
    /\ pendingSubscribe = {} /\ mintBySubscription = {} /\ notices = {}
    /\ subscriptionByMint = [m \in Mints |-> None]
    /\ seenSignatures = <<>> /\ inflight = {} /\ reconcile = Idle
    /\ dropped = {}
    /\ faults = [k \in FaultKinds |-> 0]

Reconcile == NextMint \/ ListSignatures \/ TakeSignature \/ MintDone \/ ReconcileDone

Next ==
    \/ \E m \in Mints : Trade(m) \/ ChangeListing(m)
    \/ Boot \/ Reconnect \/ RefreshWatchlist \/ TimerFires
    \/ \E s \in Sockets : Opened(s) \/ Close(s) \/ ConnectFails(s)
    \/ \E s \in Sockets, m \in Mints : Ack(s, m)
    \/ \E s \in Sockets, i \in Trades : Notify(s, i)
    \/ \E w \in inflight : FetchFails(w) \/ GiveUp(w) \/ Ingest(w)
    \/ Reconcile \/ ReconcileFails \/ Crash

Spec == Init /\ [][Next]_vars

(* Timers fire, the node answers and the database commits, unless a fault of *)
(* the bounded kinds happens instead; the host starts a process that exited. *)
FairSpec ==
    /\ Spec
    /\ WF_vars(Boot) /\ WF_vars(Reconnect) /\ WF_vars(RefreshWatchlist) /\ WF_vars(TimerFires)
    /\ WF_vars(Reconcile)
    /\ \A s \in Sockets : WF_vars(Opened(s))
    /\ \A s \in Sockets, m \in Mints : WF_vars(Ack(s, m))
    /\ WF_vars(\E s \in Sockets, i \in Trades : Notify(s, i))
    /\ \A i \in Trades : WF_vars(\E w \in inflight : w.id = i /\ Ingest(w))

-----------------------------------------------------------------------------
(* Type invariant; seenSignatures stays within its limit. *)
TypeOK ==
    /\ ledger \in Seq([mint : Mints, slot : Nat]) /\ Len(ledger) <= MaxTrades
    /\ listed \subseteq Mints
    /\ trades \subseteq 1..Len(ledger)
    /\ candleTrades \in [Mints -> Nat]
    /\ marketState \in [Mints -> 0..MaxTrades]
    /\ checkpoint \in [Mints -> 0..MaxTrades]
    /\ phase \in {"down", "starting", "running", "stuck"}
    /\ watchByMint \subseteq Mints /\ watched \subseteq Mints
    /\ status \in {"connecting", "connected", "reconnecting"}
    /\ conns \in [Sockets -> {"free", "startup", "reconnect", "open"}]
    /\ socket \in Sockets \union {None}
    /\ waiting \in Nat
    /\ pendingSubscribe \subseteq Sockets \X Mints
    /\ subscriptionByMint \in [Mints -> Sockets \union {None}]
    /\ mintBySubscription \subseteq Sockets \X Mints
    /\ notices \subseteq Sockets \X Trades
    /\ seenSignatures \in Seq(Trades) /\ Len(seenSignatures) <= SeenLimit
    /\ inflight \subseteq [id : Trades, by : {"websocket", "reconcile"}]
    /\ reconcile \in [by : {None, "startup", "reconnect", "interval"},
                      stage : {"next", "list", "apply", "wait"}, left : SUBSET Mints,
                      mint : Mints \union {None}, until : 0..MaxTrades, todo : SUBSET Trades]
    /\ dropped \subseteq Trades
    /\ faults \in [FaultKinds -> Nat]

(* The candles count every recorded trade once, however often the socket,    *)
(* a reconciliation and a restarted process deliver it (ingest.ts:1,         *)
(* pump-candles.ts: "Call only for newly inserted trades").                  *)
CandleCountsTrades ==
    \A m \in Mints : candleTrades[m] = Cardinality(trades \intersect TradesOf(m))

(* A mint that stays listed while the worker runs ends up subscribed on an   *)
(* open connection, also when connections overlap and one's close clears the *)
(* other's subscriptions.                                                    *)
SubscribedAgain ==
    \A m \in Mints :
        <>[](m \in listed /\ phase = "running") =>
            <>[](\E s \in Sockets : conns[s] = "open" /\ <<s, m>> \in mintBySubscription)

(* What became of a trade: it is recorded, or a newer one of its mint is,    *)
(* which moved the checkpoint past it; or it or a newer one was given up,    *)
(* which can fill the limit of every later reconciliation; or nobody is to   *)
(* record it.                                                                *)
SettledTrade(i) ==
    \/ \E j \in trades \union dropped : j >= i /\ MintOf(j) = MintOf(i)
    \/ MintOf(i) \notin listed
    \/ phase = "stuck"

(* Reconciliation recovers whatever no newer trade hides: every trade of a   *)
(* listed mint is recorded, or passed by a newer trade that is, unless one   *)
(* was given up, the mint is unlisted or the process is stuck in its start.  *)
RecordedOrPassed ==
    \A i \in Trades :
        (i <= Len(ledger)) ~> (i <= Len(ledger) /\ SettledTrade(i))
=============================================================================
