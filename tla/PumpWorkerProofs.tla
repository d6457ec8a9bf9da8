-------------------------- MODULE PumpWorkerProofs --------------------------
(***************************************************************************)
(* Proofs, for any number of mints, trades, connections and faults, of     *)
(* what PumpWorker's database and subscriptions promise: the candles count *)
(* each trade once, a checkpoint is a recorded trade of its mint, and a    *)
(* subscription belongs to a connection that is open.                      *)
(***************************************************************************)
EXTENDS PumpWorker, FiniteSetTheorems, SequenceTheorems, TLAPS

(* Whatever the worker is told of or looks at is on the ledger.            *)
Known ==
    /\ \A n \in notices : n[2] <= Len(ledger)
    /\ \A i \in reconcile.todo : i <= Len(ledger)
    /\ \A w \in inflight : w.id <= Len(ledger)

(* What a checkpoint and the market state show is a trade of the mint that *)
(* is recorded (ingest.ts: one transaction).                               *)
CheckpointsRecorded ==
    \A m \in Mints :
        /\ checkpoint[m] = marketState[m]
        /\ checkpoint[m] # 0 => checkpoint[m] \in trades \cap TradesOf(m)

(* Whatever the worker holds a subscription on is an open connection, and  *)
(* the subscription of a mint is one whose notifications are taken         *)
(* (alchemy.ts: onClose).                                                  *)
SubscriptionsOpen ==
    /\ socket # None => conns[socket] = "open"
    /\ \A p \in pendingSubscribe \union mintBySubscription : conns[p[1]] = "open"
    /\ \A m \in Mints : subscriptionByMint[m] # None =>
          <<subscriptionByMint[m], m>> \in mintBySubscription

(* A process that is down holds nothing.                                   *)
DownIsEmpty ==
    phase = "down" =>
        /\ \A s \in Sockets : conns[s] = "free"
        /\ waiting = 0 /\ reconcile = Idle /\ inflight = {}

Inv ==
    /\ TypeOK /\ Known /\ CandleCountsTrades /\ CheckpointsRecorded
    /\ SubscriptionsOpen /\ DownIsEmpty

-----------------------------------------------------------------------------
(* Types, and what the worker knows of. *)

ReconcileType ==
    [by : {None, "startup", "reconnect", "interval"},
     stage : {"next", "list", "apply", "wait"}, left : SUBSET Mints,
     mint : Mints \union {None}, until : 0..MaxTrades, todo : SUBSET Trades]

WorkType == [id : Trades, by : {"websocket", "reconcile"}]

(* The types by part of the system: the ledger, the database, ...          *)
OutOK ==
    /\ ledger \in Seq([mint : Mints, slot : Nat]) /\ Len(ledger) <= MaxTrades
    /\ listed \subseteq Mints

DbOK ==
    /\ trades \subseteq 1..Len(ledger)
    /\ candleTrades \in [Mints -> Nat]
    /\ marketState \in [Mints -> 0..MaxTrades]
    /\ checkpoint \in [Mints -> 0..MaxTrades]

(* ... the watchlist and the connections, ...                              *)
WatchOK ==
    /\ phase \in {"down", "starting", "running", "stuck"}
    /\ watchByMint \subseteq Mints /\ watched \subseteq Mints

ConnOK ==
    /\ status \in {"connecting", "connected", "reconnecting"}
    /\ conns \in [Sockets -> {"free", "startup", "reconnect", "open"}]
    /\ socket \in Sockets \union {None}
    /\ waiting \in Nat

(* ... the subscriptions, ...                                              *)
SubOK ==
    /\ pendingSubscribe \subseteq Sockets \X Mints
    /\ subscriptionByMint \in [Mints -> Sockets \union {None}]
    /\ mintBySubscription \subseteq Sockets \X Mints

(* ... and what is on its way into the database.                           *)
NoticesOK ==
    notices \subseteq Sockets \X Trades /\ \A n \in notices : n[2] <= Len(ledger)

SeenOK == seenSignatures \in Seq(Trades) /\ Len(seenSignatures) <= SeenLimit

InflightOK ==
    inflight \subseteq WorkType /\ \A w \in inflight : w.id <= Len(ledger)

ReconcileOK ==
    reconcile \in ReconcileType /\ \A i \in reconcile.todo : i <= Len(ledger)

RestOK == dropped \subseteq Trades /\ faults \in [FaultKinds -> Nat]

(* The parts make the invariant.                                           *)
LEMMA TypeParts ==
    TypeOK /\ Known <=>
        /\ OutOK /\ DbOK /\ WatchOK /\ ConnOK /\ SubOK /\ NoticesOK /\ SeenOK
        /\ InflightOK /\ ReconcileOK /\ RestOK
BY DEF TypeOK, Known, OutOK, DbOK, WatchOK, ConnOK, SubOK, NoticesOK, SeenOK,
       InflightOK, ReconcileOK, RestOK, ReconcileType, WorkType

(* The same of the next state.                                             *)
LEMMA TypePartsNext ==
    (TypeOK /\ Known)' <=>
        /\ OutOK' /\ DbOK' /\ WatchOK' /\ ConnOK' /\ SubOK' /\ NoticesOK' /\ SeenOK'
        /\ InflightOK' /\ ReconcileOK' /\ RestOK'
BY DEF TypeOK, Known, OutOK, DbOK, WatchOK, ConnOK, SubOK, NoticesOK, SeenOK,
       InflightOK, ReconcileOK, RestOK, ReconcileType, WorkType

(* What a step leaves alone keeps its type.                                *)
LEMMA Kept ==
    /\ OutOK /\ UNCHANGED outVars => OutOK'
    /\ DbOK /\ UNCHANGED <<ledger, dbVars>> => DbOK'
    /\ WatchOK /\ UNCHANGED <<phase, watchVars>> => WatchOK'
    /\ ConnOK /\ UNCHANGED connVars => ConnOK'
    /\ SubOK /\ UNCHANGED <<pendingSubscribe, subscriptionByMint, mintBySubscription>>
          => SubOK'
    /\ NoticesOK /\ UNCHANGED <<ledger, notices>> => NoticesOK'
    /\ SeenOK /\ UNCHANGED seenSignatures => SeenOK'
    /\ InflightOK /\ UNCHANGED <<ledger, inflight>> => InflightOK'
    /\ ReconcileOK /\ UNCHANGED <<ledger, reconcile>> => ReconcileOK'
BY DEF OutOK, DbOK, WatchOK, ConnOK, SubOK, NoticesOK, SeenOK, InflightOK,
       ReconcileOK, outVars, dbVars, watchVars, connVars

(* A fault is counted.                                                     *)
LEMMA FaultCounted ==
    ASSUME RestOK, NEW kind \in FaultKinds, Fault(kind)
    PROVE  faults' \in [FaultKinds -> Nat]
BY DEF RestOK, Fault

(* An idle reconciliation, and one that starts.                            *)
LEMMA IdleType ==
    /\ Idle \in ReconcileType /\ Idle.todo = {} /\ Idle.by = None
    /\ Idle.stage = "next"
    /\ \A by \in {"startup", "reconnect", "interval"} :
          WatchOK => Begin(by) \in ReconcileType /\ Begin(by).todo = {}
<1>1. 0 \in 0..MaxTrades /\ {} \in SUBSET Mints /\ {} \in SUBSET Trades
    BY PumpAssumption
<1>2. Idle \in ReconcileType
    BY <1>1 DEF Idle, ReconcileType
<1>3. ASSUME NEW by \in {"startup", "reconnect", "interval"}, WatchOK
      PROVE  Begin(by) \in ReconcileType /\ Begin(by).todo = {}
  <2>1. watched \in SUBSET Mints
      BY <1>3 DEF WatchOK
  <2>2. Begin(by) \in ReconcileType
      BY <1>2, <2>1 DEF Begin, ReconcileType
  <2>3. Begin(by).todo = Idle.todo
      BY <1>2 DEF Begin, ReconcileType
  <2>4. QED
      BY <2>2, <2>3 DEF Idle
<1>4. QED
    BY <1>2, <1>3 DEF Idle

(* A signature that is remembered, or forgotten, keeps the list within its *)
(* limit.                                                                  *)
LEMMA SeenLimited ==
    ASSUME SeenOK, NEW i \in Trades
    PROVE  /\ Remember(i) \in Seq(Trades) /\ Len(Remember(i)) <= SeenLimit
           /\ Forget(i) \in Seq(Trades) /\ Len(Forget(i)) <= SeenLimit
<1>1. SeenLimit \in Nat \ {0} /\ Len(seenSignatures) \in Nat
    BY PumpAssumption DEF SeenOK
<1>2. Remember(i) \in Seq(Trades) /\ Len(Remember(i)) <= SeenLimit
  <2>1. CASE Len(seenSignatures) < SeenLimit
      BY <1>1, <2>1 DEF Remember, SeenOK
  <2>2. CASE ~(Len(seenSignatures) < SeenLimit)
    <3>1. seenSignatures # <<>>
        BY <1>1, <2>2, EmptySeq
    <3>2. Tail(seenSignatures) \in Seq(Trades)
          /\ Len(Tail(seenSignatures)) = Len(seenSignatures) - 1
        BY <3>1, HeadTailProperties DEF SeenOK
    <3>3. QED
        BY <1>1, <2>2, <3>2 DEF Remember, SeenOK
  <2>3. QED
      BY <2>1, <2>2
<1>3. Forget(i) \in Seq(Trades) /\ Len(Forget(i)) <= SeenLimit
  <2>1. CASE ~Seen(i)
      BY <2>1 DEF Forget, SeenOK
  <2>2. CASE Seen(i)
    <3>1. PICK k : k = CHOOSE j \in DOMAIN seenSignatures : seenSignatures[j] = i
        OBVIOUS
    <3>2. k \in 1..Len(seenSignatures)
        BY <2>2, <3>1 DEF Seen, SeenOK
    <3>3. Forget(i) = SubSeq(seenSignatures, 1, k - 1)
                         \o SubSeq(seenSignatures, k + 1, Len(seenSignatures))
        BY <2>2, <3>1 DEF Forget, RemoveAt
    <3>4. /\ SubSeq(seenSignatures, 1, k - 1) \in Seq(Trades)
          /\ Len(SubSeq(seenSignatures, 1, k - 1)) = k - 1
        BY <1>1, <3>2 DEF SeenOK
    <3>5. /\ SubSeq(seenSignatures, k + 1, Len(seenSignatures)) \in Seq(Trades)
          /\ Len(SubSeq(seenSignatures, k + 1, Len(seenSignatures)))
                = Len(seenSignatures) - k
        BY <1>1, <3>2 DEF SeenOK
    <3>6. \A a, b \in Seq(Trades) :
              a \o b \in Seq(Trades) /\ Len(a \o b) = Len(a) + Len(b)
        BY ConcatProperties
    <3>7. Forget(i) \in Seq(Trades)
          /\ Len(Forget(i)) = (k - 1) + (Len(seenSignatures) - k)
        BY <3>3, <3>4, <3>5, <3>6
    <3>8. QED
        BY <1>1, <3>2, <3>7 DEF SeenOK
  <2>3. QED
      BY <2>1, <2>2
<1>4. QED
    BY <1>2, <1>3

(* A process that starts anew.                                             *)
LEMMA ResetTypes ==
    ASSUME Reset
    PROVE  /\ WatchOK' /\ ConnOK' /\ SubOK' /\ NoticesOK' /\ SeenOK' /\ InflightOK'
           /\ ReconcileOK' /\ dropped' \subseteq Trades
<1>1. WatchOK' /\ ConnOK' /\ SubOK' /\ NoticesOK' /\ InflightOK' /\ dropped' \subseteq Trades
    BY DEF Reset, WatchOK, ConnOK, SubOK, NoticesOK, InflightOK
<1>2. SeenOK'
    BY EmptySeq, PumpAssumption DEF Reset, SeenOK
<1>3. ReconcileOK'
    BY IdleType DEF Reset, ReconcileOK
<1>4. QED
    BY <1>1, <1>2, <1>3

(* The worker's callers get their answer.                                  *)
LEMMA Returned ==
    ASSUME InflightOK, ReconcileOK, NEW w \in inflight, Return(w), UNCHANGED ledger
    PROVE  InflightOK' /\ ReconcileOK'
<1>1. InflightOK'
    BY DEF InflightOK, Return
<1>2. reconcile' \in {reconcile, [reconcile EXCEPT !.stage = "apply"]}
    BY DEF Return
<1>3. /\ [reconcile EXCEPT !.stage = "apply"] \in ReconcileType
      /\ [reconcile EXCEPT !.stage = "apply"].todo = reconcile.todo
    BY DEF ReconcileOK, ReconcileType
<1>4. ReconcileOK'
    BY <1>2, <1>3 DEF ReconcileOK
<1>5. QED
    BY <1>1, <1>4

(* The ledger and the listings keep the types, ...                         *)
LEMMA OutsideTypes ==
    ASSUME TypeOK, Known, NEW m \in Mints, Trade(m) \/ ChangeListing(m)
    PROVE  TypeOK' /\ Known'
<1>1. /\ OutOK /\ DbOK /\ WatchOK /\ ConnOK /\ SubOK /\ NoticesOK /\ SeenOK
      /\ InflightOK /\ ReconcileOK /\ RestOK
    BY TypeParts
<1>2. CASE Trade(m)
  <2>1. PICK slot : ledger' = Append(ledger, [mint |-> m, slot |-> slot]) /\ slot \in Nat
    <3>1. PICK last : last = IF ledger = <<>> THEN 1 ELSE ledger[Len(ledger)].slot
        OBVIOUS
    <3>2. last \in Nat
      <4>1. CASE ledger # <<>>
        <5>1. ledger[Len(ledger)] \in [mint : Mints, slot : Nat]
          <6>1. Len(ledger) \in Nat \ {0} /\ ledger \in Seq([mint : Mints, slot : Nat])
              BY <1>1, <4>1, EmptySeq DEF OutOK
          <6>2. PICK rows : rows = [mint : Mints, slot : Nat]
              OBVIOUS
          <6>3. ledger \in Seq(rows) /\ Len(ledger) \in 1..Len(ledger)
              BY <6>1, <6>2
          <6>4. ledger[Len(ledger)] \in rows
              BY <6>3, ElementOfSeq
          <6>5. QED
              BY <6>2, <6>4
        <5>2. QED
            BY <3>1, <4>1, <5>1
      <4>2. QED
          BY <3>1, <4>1
    <3>3. \E slot \in {last, last + 1} : ledger' = Append(ledger, [mint |-> m, slot |-> slot])
        BY <1>2, <3>1 DEF Trade
    <3>4. QED
        BY <3>2, <3>3
  <2>2. PICK row : row = [mint |-> m, slot |-> slot]
      OBVIOUS
  <2>3. row \in [mint : Mints, slot : Nat]
      BY <2>1, <2>2
  <2>4. /\ ledger' \in Seq([mint : Mints, slot : Nat]) /\ Len(ledger') = Len(ledger) + 1
        /\ Len(ledger) \in Nat /\ Len(ledger) < MaxTrades
      BY <1>1, <1>2, <2>1, <2>2, <2>3 DEF OutOK, Trade
  <2>5. OutOK'
      BY <1>1, <1>2, <2>4, PumpAssumption DEF OutOK, Trade
  <2>6. DbOK'
      BY <1>1, <1>2, <2>4 DEF DbOK, Trade, dbVars
  <2>7. NoticesOK'
    <3>1. Len(ledger') \in Trades
        BY <2>4, PumpAssumption DEF Trades
    <3>2. \A n \in notices' : n \in notices \/ \E s \in Sockets : n = <<s, Len(ledger')>>
        BY <1>2 DEF Trade
    <3>3. \A n \in notices : n \in Sockets \X Trades /\ n[2] \in Nat /\ n[2] <= Len(ledger)
        BY <1>1 DEF NoticesOK, Trades
    <3>4. QED
        BY <2>4, <3>1, <3>2, <3>3 DEF NoticesOK
  <2>8. InflightOK'
    <3>1. \A w \in inflight : w.id \in Nat
        BY <1>1 DEF InflightOK, WorkType, Trades
    <3>2. QED
        BY <1>1, <1>2, <2>4, <3>1 DEF InflightOK, Trade, workVars
  <2>9. ReconcileOK'
    <3>1. reconcile.todo \in SUBSET Nat
        BY <1>1 DEF ReconcileOK, ReconcileType, Trades
    <3>2. QED
        BY <1>1, <1>2, <2>4, <3>1 DEF ReconcileOK, Trade, workVars
  <2>10. WatchOK' /\ ConnOK' /\ SubOK' /\ SeenOK' /\ RestOK'
    <3>1. UNCHANGED <<phase, watchVars, dropped, faults, seenSignatures, pendingSubscribe,
                      subscriptionByMint, mintBySubscription>>
        BY <1>2 DEF Trade, workVars
    <3>2. ConnOK'
        BY <1>1, <1>2 DEF Trade, ConnOK, connVars
    <3>3. QED
        BY <1>1, <3>1, <3>2, Kept DEF RestOK
  <2>11. QED
      BY <2>5, <2>6, <2>7, <2>8, <2>9, <2>10, TypePartsNext
<1>3. CASE ChangeListing(m)
  <2>1. OutOK' /\ DbOK'
      BY <1>1, <1>3, Kept DEF ChangeListing, OutOK
  <2>2. faults' \in [FaultKinds -> Nat]
      BY <1>1, <1>3, FaultCounted DEF ChangeListing, FaultKinds
  <2>3. WatchOK' /\ ConnOK' /\ SubOK' /\ NoticesOK' /\ SeenOK' /\ InflightOK' /\ ReconcileOK'
      BY <1>1, <1>3, Kept DEF ChangeListing, memVars, subVars, workVars
  <2>4. QED
      BY <1>1, <1>3, <2>1, <2>2, <2>3, TypePartsNext DEF RestOK, ChangeListing
<1>4. QED
    BY <1>2, <1>3

(* ... so do the connections and the watchlist, ...                        *)
LEMMA ConnectionTypes ==
    ASSUME TypeOK, Known,
           \/ Boot \/ Reconnect \/ RefreshWatchlist
           \/ \E s \in Sockets : Opened(s) \/ Close(s) \/ ConnectFails(s)
           \/ \E s \in Sockets, m \in Mints : Ack(s, m)
    PROVE  TypeOK' /\ Known'
<1>1. /\ OutOK /\ DbOK /\ WatchOK /\ ConnOK /\ SubOK /\ NoticesOK /\ SeenOK
      /\ InflightOK /\ ReconcileOK /\ RestOK
    BY TypeParts
<1>2. CASE Boot
  <2>1. OutOK' /\ DbOK' /\ SubOK' /\ NoticesOK' /\ SeenOK' /\ InflightOK' /\ ReconcileOK'
      BY <1>1, <1>2, Kept DEF Boot, subVars, workVars, outVars
  <2>2. WatchOK' /\ ConnOK' /\ RestOK'
      BY <1>1, <1>2 DEF Boot, WatchOK, ConnOK, RestOK, OutOK
  <2>3. QED
      BY <2>1, <2>2, TypePartsNext
<1>3. CASE Reconnect
  <2>1. /\ OutOK' /\ DbOK' /\ WatchOK' /\ SubOK' /\ NoticesOK' /\ SeenOK' /\ InflightOK'
        /\ ReconcileOK'
      BY <1>1, <1>3, Kept DEF Reconnect, subVars, workVars, outVars
  <2>2. ConnOK' /\ RestOK'
      BY <1>1, <1>3 DEF Reconnect, ConnOK, RestOK
  <2>3. QED
      BY <2>1, <2>2, TypePartsNext
<1>4. CASE RefreshWatchlist
  <2>1. OutOK' /\ DbOK' /\ ConnOK' /\ NoticesOK' /\ SeenOK' /\ InflightOK' /\ ReconcileOK'
      BY <1>1, <1>4, Kept DEF RefreshWatchlist, workVars, outVars
  <2>2. WatchOK' /\ RestOK'
      BY <1>1, <1>4 DEF RefreshWatchlist, WatchOK, RestOK, OutOK
  <2>3. SubOK'
    <3>1. \E asked \in SUBSET Mints, ended \in SUBSET Mints :
              /\ asked = {} \/ socket # None
              /\ pendingSubscribe' = pendingSubscribe \union {<<socket, m>> : m \in asked}
              /\ subscriptionByMint' =
                   [m \in Mints |-> IF m \in ended THEN None ELSE subscriptionByMint[m]]
              /\ mintBySubscription' =
                   mintBySubscription \ {<<subscriptionByMint[m], m>> : m \in ended}
      <4>1. PICK asked : asked = IF socket = None \/ status = "connecting" THEN {}
                   ELSE {m \in listed \ watchByMint : subscriptionByMint[m] = None}
          OBVIOUS
      <4>2. PICK ended : ended = IF socket = None THEN {}
                   ELSE {m \in watchByMint \ listed : subscriptionByMint[m] # None}
          OBVIOUS
      <4>3. asked \in SUBSET Mints /\ ended \in SUBSET Mints /\ (asked = {} \/ socket # None)
          BY <1>1, <4>1, <4>2 DEF OutOK, WatchOK
      <4>4. QED
          BY <1>4, <4>1, <4>2, <4>3 DEF RefreshWatchlist
    <3>2. QED
        BY <1>1, <3>1 DEF SubOK, ConnOK
  <2>4. QED
      BY <2>1, <2>2, <2>3, TypePartsNext
<1>5. ASSUME NEW s \in Sockets, Opened(s)
      PROVE  TypeOK' /\ Known'
  <2>1. OutOK' /\ DbOK' /\ WatchOK' /\ NoticesOK' /\ SeenOK' /\ InflightOK'
      BY <1>1, <1>5, Kept DEF Opened, outVars
  <2>2. ConnOK' /\ SubOK' /\ RestOK'
      BY <1>1, <1>5 DEF Opened, ConnOK, SubOK, RestOK, WatchOK
  <2>3. ReconcileOK'
    <3>1. reconcile' = reconcile \/ reconcile' = Begin(conns[s])
        BY <1>5 DEF Opened
    <3>2. conns[s] \in {"startup", "reconnect"} /\ UNCHANGED ledger
        BY <1>5 DEF Opened, outVars
    <3>3. QED
        BY <1>1, <3>1, <3>2, IdleType DEF ReconcileOK
  <2>4. QED
      BY <2>1, <2>2, <2>3, TypePartsNext
<1>6. ASSUME NEW s \in Sockets, Close(s) \/ ConnectFails(s)
      PROVE  TypeOK' /\ Known'
  <2>1. OutOK' /\ DbOK' /\ SeenOK' /\ InflightOK' /\ ReconcileOK'
      BY <1>1, <1>6, Kept DEF Close, ConnectFails, outVars, workVars
  <2>2. WatchOK'
      BY <1>1, <1>6 DEF WatchOK, Close, ConnectFails, watchVars
  <2>3. LoseSocket(s, 1) \/ LoseSocket(s, 2)
      BY <1>6 DEF Close, ConnectFails
  <2>4. ConnOK' /\ SubOK' /\ NoticesOK'
      BY <1>1, <2>3 DEF LoseSocket, ConnOK, SubOK, NoticesOK
  <2>5. RestOK'
      BY <1>1, <1>6, FaultCounted DEF Close, ConnectFails, RestOK, FaultKinds
  <2>6. QED
      BY <2>1, <2>2, <2>4, <2>5, TypePartsNext
<1>7. ASSUME NEW s \in Sockets, NEW m \in Mints, Ack(s, m)
      PROVE  TypeOK' /\ Known'
  <2>1. OutOK' /\ DbOK' /\ WatchOK' /\ NoticesOK' /\ SeenOK' /\ InflightOK' /\ ReconcileOK'
      BY <1>1, <1>7, Kept DEF Ack, outVars, workVars
  <2>2. ConnOK' /\ SubOK' /\ RestOK'
      BY <1>1, <1>7 DEF Ack, ConnOK, SubOK, RestOK
  <2>3. QED
      BY <2>1, <2>2, TypePartsNext
<1>8. QED
    BY <1>2, <1>3, <1>4, <1>5, <1>6, <1>7

(* ... the steps of processSignature, ...                                  *)
LEMMA SignatureTypes ==
    ASSUME TypeOK, Known,
           \/ \E s \in Sockets, i \in Trades : Notify(s, i)
           \/ \E w \in inflight : FetchFails(w) \/ GiveUp(w) \/ Ingest(w)
    PROVE  TypeOK' /\ Known'
<1>1. /\ OutOK /\ DbOK /\ WatchOK /\ ConnOK /\ SubOK /\ NoticesOK /\ SeenOK
      /\ InflightOK /\ ReconcileOK /\ RestOK
    BY TypeParts
<1>2. ASSUME NEW s \in Sockets, NEW i \in Trades, Notify(s, i)
      PROVE  TypeOK' /\ Known'
  <2>1. OutOK' /\ DbOK' /\ WatchOK' /\ ConnOK' /\ SubOK' /\ ReconcileOK'
      BY <1>1, <1>2, Kept DEF Notify, outVars
  <2>2. RestOK' /\ NoticesOK'
      BY <1>1, <1>2 DEF Notify, RestOK, NoticesOK, outVars
  <2>3. i <= Len(ledger) /\ UNCHANGED ledger
      BY <1>1, <1>2 DEF Notify, NoticesOK, outVars
  <2>4. SeenOK'
      BY <1>1, <1>2, SeenLimited DEF Notify, SeenOK
  <2>5. InflightOK'
    <3>1. Work(i, "websocket") \in WorkType /\ Work(i, "websocket").id = i
        BY DEF Work, WorkType
    <3>2. inflight' \subseteq inflight \union {Work(i, "websocket")}
        BY <1>2 DEF Notify
    <3>3. QED
        BY <1>1, <2>3, <3>1, <3>2 DEF InflightOK
  <2>6. QED
      BY <2>1, <2>2, <2>4, <2>5, TypePartsNext
<1>3. ASSUME NEW w \in inflight, FetchFails(w) \/ GiveUp(w) \/ Ingest(w)
      PROVE  TypeOK' /\ Known'
  <2>1. OutOK' /\ WatchOK' /\ ConnOK' /\ SubOK' /\ NoticesOK'
      BY <1>1, <1>3, Kept DEF FetchFails, GiveUp, Ingest, outVars, subVars
  <2>2. Return(w) /\ UNCHANGED ledger
      BY <1>3 DEF FetchFails, GiveUp, Ingest, outVars
  <2>3. InflightOK' /\ ReconcileOK'
      BY <1>1, <2>2, Returned
  <2>4. w.id \in Trades /\ w.id \in 1..Len(ledger)
      BY <1>1 DEF InflightOK, WorkType, Trades, OutOK
  <2>5. SeenOK'
      BY <1>1, <1>3, <2>4, SeenLimited DEF SeenOK, FetchFails, GiveUp, Ingest
  <2>6. RestOK'
      BY <1>1, <1>3, <2>4, FaultCounted
      DEF RestOK, FetchFails, GiveUp, Ingest, FaultKinds
  <2>7. DbOK'
    <3>1. CASE UNCHANGED dbVars
        BY <1>1, <2>2, <3>1, Kept
    <3>2. CASE Ingest(w) /\ w.id \notin trades
      <4>1. /\ trades' = trades \union {w.id}
            /\ candleTrades' = [candleTrades EXCEPT ![MintOf(w.id)] = @ + 1]
            /\ marketState' = [marketState EXCEPT ![MintOf(w.id)] = w.id]
            /\ checkpoint' = [checkpoint EXCEPT ![MintOf(w.id)] = w.id]
          BY <3>2 DEF Ingest
      <4>2. w.id \in 0..MaxTrades
          BY <2>4, PumpAssumption DEF Trades
      <4>3. QED
        <5>1. trades' \subseteq 1..Len(ledger')
            BY <1>1, <2>2, <2>4, <4>1 DEF DbOK
        <5>2. candleTrades' \in [Mints -> Nat]
          <6>1. PICK m : m = MintOf(w.id)
              OBVIOUS
          <6>2. candleTrades' = [candleTrades EXCEPT ![m] = candleTrades[m] + 1]
              BY <4>1, <6>1
          <6>3. m \in Mints => candleTrades[m] + 1 \in Nat
              BY <1>1 DEF DbOK
          <6>4. QED
              BY <1>1, <6>2, <6>3 DEF DbOK
        <5>3. marketState' \in [Mints -> 0..MaxTrades] /\ checkpoint' \in [Mints -> 0..MaxTrades]
            BY <1>1, <4>1, <4>2 DEF DbOK
        <5>4. QED
            BY <5>1, <5>2, <5>3 DEF DbOK
    <3>3. QED
        BY <1>3, <3>1, <3>2 DEF FetchFails, GiveUp, Ingest
  <2>8. QED
      BY <2>1, <2>3, <2>5, <2>6, <2>7, TypePartsNext
<1>4. QED
    BY <1>2, <1>3

(* ... and the reconciliation.                                             *)
LEMMA ReconcileTypes ==
    ASSUME TypeOK, Known, TimerFires \/ Reconcile \/ ReconcileFails \/ Crash
    PROVE  TypeOK' /\ Known'
<1>1. /\ OutOK /\ DbOK /\ WatchOK /\ ConnOK /\ SubOK /\ NoticesOK /\ SeenOK
      /\ InflightOK /\ ReconcileOK /\ RestOK
    BY TypeParts
<1>2. OutOK' /\ DbOK'
    BY <1>1, Kept
    DEF TimerFires, Reconcile, NextMint, ListSignatures, TakeSignature, MintDone,
        ReconcileDone, ReconcileFails, Crash, outVars
<1>3. CASE TimerFires \/ NextMint \/ ListSignatures \/ TakeSignature \/ MintDone
  <2>1. WatchOK' /\ ConnOK' /\ SubOK' /\ NoticesOK'
      BY <1>1, <1>3, Kept
      DEF TimerFires, NextMint, ListSignatures, TakeSignature, MintDone, subVars, outVars
  <2>2. RestOK' /\ UNCHANGED ledger
      BY <1>1, <1>3 DEF RestOK, TimerFires, NextMint, ListSignatures, TakeSignature,
                        MintDone, outVars
  <2>3. SeenOK'
    <3>1. CASE UNCHANGED seenSignatures
        BY <1>1, <3>1, Kept
    <3>2. CASE TakeSignature
      <4>1. \A i \in reconcile.todo : i \in Trades
          BY <1>1 DEF ReconcileOK, ReconcileType
      <4>2. QED
          BY <1>1, <3>2, <4>1, SeenLimited DEF TakeSignature, SeenOK
    <3>3. QED
        BY <1>3, <3>1, <3>2 DEF TimerFires, NextMint, ListSignatures, MintDone
  <2>4. InflightOK'
    <3>1. CASE UNCHANGED inflight
        BY <1>1, <2>2, <3>1, Kept
    <3>2. CASE TakeSignature
      <4>1. PICK i \in reconcile.todo : inflight' \subseteq inflight \union {Work(i, "reconcile")}
          BY <3>2 DEF TakeSignature
      <4>2. i \in Trades /\ i <= Len(ledger)
          BY <1>1 DEF ReconcileOK, ReconcileType
      <4>3. Work(i, "reconcile") \in WorkType /\ Work(i, "reconcile").id = i
          BY <4>2 DEF Work, WorkType
      <4>4. QED
          BY <1>1, <2>2, <4>1, <4>2, <4>3 DEF InflightOK
    <3>3. QED
        BY <1>3, <3>1, <3>2 DEF TimerFires, NextMint, ListSignatures, MintDone
  <2>5. ReconcileOK'
    <3>1. CASE TimerFires
        BY <1>1, <3>1, IdleType DEF TimerFires, ReconcileOK
    <3>2. CASE NextMint
      <4>1. PICK m \in reconcile.left :
                reconcile' = [reconcile EXCEPT !.stage = "list", !.left = @ \ {m}, !.mint = m,
                                               !.until = checkpoint[m]]
          BY <3>2 DEF NextMint
      <4>2. m \in Mints /\ checkpoint[m] \in 0..MaxTrades /\ reconcile.left \ {m} \in SUBSET Mints
          BY <1>1 DEF ReconcileOK, ReconcileType, DbOK
      <4>3. reconcile' \in ReconcileType
          BY <1>1, <4>1, <4>2 DEF ReconcileOK, ReconcileType
      <4>4. reconcile'.todo = reconcile.todo
          BY <1>1, <4>1 DEF ReconcileOK, ReconcileType
      <4>5. QED
          BY <1>1, <2>2, <4>3, <4>4 DEF ReconcileOK
    <3>3. CASE ListSignatures
      <4>1. PICK todo : /\ todo = Newest(ReconcileLimit,
                                {i \in TradesOf(reconcile.mint) : i > reconcile.until})
                        /\ reconcile' = [reconcile EXCEPT !.stage = "apply", !.todo = todo]
          BY <3>3 DEF ListSignatures
      <4>2. todo \subseteq 1..Len(ledger)
          BY <4>1 DEF Newest, TradesOf
      <4>3. 1..Len(ledger) \subseteq Trades
          BY <1>1, PumpAssumption DEF OutOK, Trades
      <4>4. todo \in SUBSET Trades /\ \A i \in todo : i <= Len(ledger)
          BY <1>1, <4>2, <4>3 DEF OutOK
      <4>5. reconcile' \in ReconcileType /\ reconcile'.todo = todo
          BY <1>1, <4>1, <4>4 DEF ReconcileOK, ReconcileType
      <4>6. QED
          BY <2>2, <4>4, <4>5 DEF ReconcileOK
    <3>4. CASE TakeSignature
      <4>1. PICK i \in reconcile.todo :
                \/ reconcile' = [reconcile EXCEPT !.todo = @ \ {i}]
                \/ reconcile' = [reconcile EXCEPT !.todo = @ \ {i}, !.stage = "wait"]
          BY <3>4 DEF TakeSignature
      <4>2. reconcile.todo \ {i} \in SUBSET Trades
          BY <1>1 DEF ReconcileOK, ReconcileType
      <4>3. reconcile' \in ReconcileType /\ reconcile'.todo = reconcile.todo \ {i}
          BY <1>1, <4>1, <4>2 DEF ReconcileOK, ReconcileType
      <4>4. QED
          BY <1>1, <2>2, <4>3 DEF ReconcileOK
    <3>5. CASE MintDone
      <4>1. reconcile' = [reconcile EXCEPT !.stage = "next"]
          BY <3>5 DEF MintDone
      <4>2. reconcile' \in ReconcileType /\ reconcile'.todo = reconcile.todo
          BY <1>1, <4>1 DEF ReconcileOK, ReconcileType
      <4>3. QED
          BY <1>1, <2>2, <4>2 DEF ReconcileOK
    <3>6. QED
        BY <1>3, <3>1, <3>2, <3>3, <3>4, <3>5
  <2>6. QED
      BY <1>2, <2>1, <2>2, <2>3, <2>4, <2>5, TypePartsNext
<1>4. CASE ReconcileDone
  <2>1. ConnOK' /\ SubOK' /\ NoticesOK' /\ SeenOK' /\ InflightOK'
      BY <1>1, <1>4, Kept DEF ReconcileDone, subVars, outVars
  <2>2. WatchOK' /\ RestOK' /\ ReconcileOK'
      BY <1>1, <1>4, IdleType DEF ReconcileDone, WatchOK, RestOK, ReconcileOK, watchVars
  <2>3. QED
      BY <1>2, <2>1, <2>2, TypePartsNext
<1>5. CASE ReconcileFails \/ Crash
  <2>1. faults' \in [FaultKinds -> Nat]
      BY <1>1, <1>5, FaultCounted DEF ReconcileFails, Crash, FaultKinds
  <2>2. CASE Reset
      BY <1>2, <2>1, <2>2, ResetTypes, TypePartsNext DEF RestOK
  <2>3. CASE ReconcileFails /\ reconcile.by # "interval"
    <3>1. SubOK' /\ NoticesOK' /\ SeenOK' /\ InflightOK'
        BY <1>1, <2>3, Kept DEF ReconcileFails, subVars, outVars
    <3>2. WatchOK' /\ ConnOK' /\ dropped' \subseteq Trades
        BY <1>1, <2>3 DEF ReconcileFails, WatchOK, ConnOK, RestOK, watchVars
    <3>3. ReconcileOK'
        BY <2>3, IdleType DEF ReconcileFails, ReconcileOK
    <3>4. QED
        BY <1>2, <2>1, <3>1, <3>2, <3>3, TypePartsNext DEF RestOK
  <2>4. QED
      BY <1>5, <2>2, <2>3 DEF ReconcileFails, Crash
<1>6. QED
    BY <1>3, <1>4, <1>5 DEF Reconcile

(* The types are inductive.                                                *)
LEMMA TypesStep ==
    ASSUME TypeOK, Known, [Next]_vars
    PROVE  TypeOK' /\ Known'
<1>1. CASE UNCHANGED vars
    BY ZenonT(60), <1>1 DEF TypeOK, Known, vars, outVars, dbVars, memVars, watchVars, connVars, subVars,
                workVars
<1>2. QED
    BY <1>1, OutsideTypes, ConnectionTypes, SignatureTypes, ReconcileTypes DEF Next

-----------------------------------------------------------------------------
(* The database. *)

(* A step that leaves the database alone keeps what it promises.           *)
LEMMA DatabaseKept ==
    ASSUME CandleCountsTrades, CheckpointsRecorded, UNCHANGED <<ledger, dbVars>>
    PROVE  CandleCountsTrades' /\ CheckpointsRecorded'
<1>1. \A m : TradesOf(m)' = TradesOf(m)
    BY DEF TradesOf, MintOf
<1>2. QED
    BY <1>1 DEF CandleCountsTrades, CheckpointsRecorded, dbVars

(* A new trade is one that nobody has recorded yet.                        *)
LEMMA DatabaseTrade ==
    ASSUME TypeOK, CandleCountsTrades, CheckpointsRecorded, NEW m \in Mints, Trade(m)
    PROVE  CandleCountsTrades' /\ CheckpointsRecorded'
<1>1. PICK row : ledger' = Append(ledger, row)
    BY DEF Trade
<1>2. ledger \in Seq([mint : Mints, slot : Nat]) /\ Len(ledger) \in Nat
    BY DEF TypeOK
<1>3. /\ Len(ledger') = Len(ledger) + 1
      /\ \A i \in 1..Len(ledger) : ledger'[i] = ledger[i]
    BY <1>1, <1>2
<1>4. \A i \in trades : i \in 1..Len(ledger) /\ i \in 1..Len(ledger') /\ MintOf(i)' = MintOf(i)
  <2>1. trades \subseteq 1..Len(ledger)
      BY DEF TypeOK
  <2>2. 1..Len(ledger) \subseteq 1..Len(ledger')
      BY <1>2, <1>3
  <2>3. QED
      BY <1>3, <2>1, <2>2 DEF MintOf
<1>5. \A n : trades' \cap TradesOf(n)' = trades \cap TradesOf(n)
    BY <1>4 DEF TradesOf, Trade, dbVars
<1>6. QED
    BY <1>5 DEF CandleCountsTrades, CheckpointsRecorded, Trade, dbVars

(* One transaction records the trade, counts it and moves the checkpoint.  *)
LEMMA DatabaseIngest ==
    ASSUME TypeOK, Known, CandleCountsTrades, CheckpointsRecorded,
           NEW w \in inflight, Ingest(w)
    PROVE  CandleCountsTrades' /\ CheckpointsRecorded'
<1>1. CASE w.id \in trades
    BY <1>1, DatabaseKept DEF Ingest, outVars
<1>2. CASE w.id \notin trades
  <2>1. /\ trades' = trades \union {w.id}
        /\ candleTrades' = [candleTrades EXCEPT ![MintOf(w.id)] = @ + 1]
        /\ marketState' = [marketState EXCEPT ![MintOf(w.id)] = w.id]
        /\ checkpoint' = [checkpoint EXCEPT ![MintOf(w.id)] = w.id]
        /\ ledger' = ledger
      BY <1>2 DEF Ingest, outVars
  <2>2. w.id \in 1..Len(ledger) /\ Len(ledger) \in Nat
      BY DEF TypeOK, Known, Trades
  <2>3. \A m : TradesOf(m)' = TradesOf(m)
      BY <2>1 DEF TradesOf, MintOf
  <2>4. \A m : w.id \in TradesOf(m) <=> m = MintOf(w.id)
      BY <2>2 DEF TradesOf
  <2>5. ASSUME NEW m \in Mints
        PROVE  candleTrades'[m] = Cardinality(trades' \cap TradesOf(m))
    <3>1. IsFiniteSet(trades \cap TradesOf(m))
      <4>1. IsFiniteSet(1..Len(ledger))
          BY <2>2, FS_Interval
      <4>2. QED
          BY <4>1, FS_Subset DEF TradesOf
    <3>2. CASE m = MintOf(w.id)
      <4>1. trades' \cap TradesOf(m) = (trades \cap TradesOf(m)) \union {w.id}
          BY <2>1, <2>4, <3>2
      <4>2. Cardinality(trades' \cap TradesOf(m)) = Cardinality(trades \cap TradesOf(m)) + 1
          BY <1>2, <3>1, <4>1, FS_AddElement
      <4>3. candleTrades'[m] = candleTrades[m] + 1
          BY <2>1, <3>2 DEF TypeOK
      <4>4. QED
          BY <4>2, <4>3 DEF CandleCountsTrades
    <3>3. CASE m # MintOf(w.id)
      <4>1. trades' \cap TradesOf(m) = trades \cap TradesOf(m)
          BY <2>1, <2>4, <3>3
      <4>2. candleTrades'[m] = candleTrades[m]
          BY <2>1, <3>3 DEF TypeOK
      <4>3. QED
          BY <4>1, <4>2 DEF CandleCountsTrades
    <3>4. QED
        BY <3>2, <3>3
  <2>6. CheckpointsRecorded'
      BY <2>1, <2>3, <2>4 DEF CheckpointsRecorded, TypeOK
  <2>7. QED
      BY <2>3, <2>5, <2>6 DEF CandleCountsTrades
<1>3. QED
    BY <1>1, <1>2

(* What the database promises is inductive.                                *)
LEMMA DatabaseStep ==
    ASSUME TypeOK, Known, CandleCountsTrades, CheckpointsRecorded, [Next]_vars
    PROVE  CandleCountsTrades' /\ CheckpointsRecorded'
<1>1. CASE \E m \in Mints : Trade(m)
    BY <1>1, DatabaseTrade
<1>2. CASE \E w \in inflight : Ingest(w)
    BY <1>2, DatabaseIngest
<1>3. CASE \/ \E m \in Mints : ChangeListing(m)
           \/ Boot \/ Reconnect \/ RefreshWatchlist \/ TimerFires
           \/ \E s \in Sockets : Opened(s) \/ Close(s) \/ ConnectFails(s)
           \/ \E s \in Sockets, m \in Mints : Ack(s, m)
           \/ \E s \in Sockets, i \in Trades : Notify(s, i)
           \/ \E w \in inflight : FetchFails(w) \/ GiveUp(w)
           \/ Reconcile \/ ReconcileFails \/ Crash \/ UNCHANGED vars
  <2>1. UNCHANGED <<ledger, dbVars>>
      BY <1>3
      DEF ChangeListing, Boot, Reconnect, RefreshWatchlist, TimerFires, Opened, Close,
          ConnectFails, Ack, Notify, FetchFails, GiveUp, Reconcile, NextMint,
          ListSignatures, TakeSignature, MintDone, ReconcileDone, ReconcileFails, Crash,
          vars, outVars
  <2>2. QED
      BY <2>1, DatabaseKept
<1>4. QED
    BY <1>1, <1>2, <1>3 DEF Next

-----------------------------------------------------------------------------
(* The subscriptions. *)

(* A connection that is lost takes all subscriptions with it.              *)
LEMMA LostSocket ==
    ASSUME NEW s \in Sockets, NEW more, LoseSocket(s, more)
    PROVE  SubscriptionsOpen'
BY DEF LoseSocket, SubscriptionsOpen

(* A process that starts anew has no connection.                           *)
LEMMA NoSocket ==
    ASSUME Reset
    PROVE  SubscriptionsOpen'
BY DEF Reset, SubscriptionsOpen

(* That a subscription belongs to an open connection is inductive.         *)
LEMMA SubscriptionsStep ==
    ASSUME TypeOK, SubscriptionsOpen, DownIsEmpty, [Next]_vars
    PROVE  SubscriptionsOpen'
<1>1. ASSUME UNCHANGED <<conns, socket, pendingSubscribe, mintBySubscription,
                         subscriptionByMint>>
      PROVE  SubscriptionsOpen'
    BY <1>1 DEF SubscriptionsOpen
<1>2. CASE \/ \E m \in Mints : Trade(m) \/ ChangeListing(m)
           \/ TimerFires \/ Reconcile \/ UNCHANGED vars
           \/ \E s \in Sockets, i \in Trades : Notify(s, i)
           \/ \E w \in inflight : FetchFails(w) \/ GiveUp(w) \/ Ingest(w)
    BY <1>1, <1>2
    DEF Trade, ChangeListing, TimerFires, Notify, FetchFails, GiveUp, Ingest, Reconcile,
        NextMint, ListSignatures, TakeSignature, MintDone, ReconcileDone, vars, memVars,
        connVars, subVars
<1>3. CASE Boot \/ Reconnect
  <2>1. PICK s \in Sockets : \E kind \in {"startup", "reconnect"} :
            conns[s] = "free" /\ conns' = [conns EXCEPT ![s] = kind]
      BY <1>3 DEF Boot, Reconnect, DownIsEmpty
  <2>2. \A q \in Sockets : conns[q] = "open" => conns'[q] = "open"
      BY <2>1 DEF TypeOK
  <2>3. UNCHANGED <<socket, pendingSubscribe, mintBySubscription, subscriptionByMint>>
      BY <1>3 DEF Boot, Reconnect, subVars
  <2>4. QED
      BY <2>2, <2>3 DEF SubscriptionsOpen, TypeOK
<1>4. ASSUME NEW s \in Sockets, Opened(s)
      PROVE  SubscriptionsOpen'
  <2>1. conns'[s] = "open" /\ \A q \in Sockets : conns[q] = "open" => conns'[q] = "open"
      BY <1>4 DEF Opened, TypeOK
  <2>2. \A p \in pendingSubscribe' : p \in pendingSubscribe \/ p[1] = s
      BY <1>4 DEF Opened
  <2>3. socket' = s /\ UNCHANGED <<subscriptionByMint, mintBySubscription>>
      BY <1>4 DEF Opened
  <2>4. QED
      BY <2>1, <2>2, <2>3 DEF SubscriptionsOpen, TypeOK
<1>5. ASSUME NEW s \in Sockets, Close(s) \/ ConnectFails(s)
      PROVE  SubscriptionsOpen'
  <2>1. \E more \in {1, 2} : LoseSocket(s, more)
      BY <1>5 DEF Close, ConnectFails
  <2>2. QED
      BY <2>1, LostSocket
<1>6. ASSUME NEW s \in Sockets, NEW m \in Mints, Ack(s, m)
      PROVE  SubscriptionsOpen'
    BY <1>6 DEF Ack, SubscriptionsOpen, TypeOK
<1>7. CASE RefreshWatchlist
  <2>1. PICK asked : asked = IF socket = None \/ status = "connecting" THEN {}
               ELSE {m \in listed \ watchByMint : subscriptionByMint[m] = None}
      OBVIOUS
  <2>2. PICK ended : ended = IF socket = None THEN {}
               ELSE {m \in watchByMint \ listed : subscriptionByMint[m] # None}
      OBVIOUS
  <2>3. /\ pendingSubscribe' = pendingSubscribe \union {<<socket, m>> : m \in asked}
        /\ subscriptionByMint' =
             [m \in Mints |-> IF m \in ended THEN None ELSE subscriptionByMint[m]]
        /\ mintBySubscription' =
             mintBySubscription \ {<<subscriptionByMint[m], m>> : m \in ended}
        /\ UNCHANGED <<conns, socket>>
      BY <1>7, <2>1, <2>2 DEF RefreshWatchlist, connVars
  <2>4. asked = {} \/ socket # None
      BY <2>1
  <2>5. \A p \in pendingSubscribe' \union mintBySubscription' : conns'[p[1]] = "open"
      BY <2>3, <2>4 DEF SubscriptionsOpen
  <2>6. \A m \in Mints : subscriptionByMint'[m] # None =>
            <<subscriptionByMint'[m], m>> \in mintBySubscription'
      BY <2>3 DEF SubscriptionsOpen
  <2>7. QED
      BY <2>3, <2>5, <2>6 DEF SubscriptionsOpen
<1>8. CASE ReconcileFails \/ Crash
  <2>1. CASE Reset
      BY <2>1, NoSocket
  <2>2. CASE ReconcileFails /\ reconcile.by # "interval"
      BY <1>1, <2>2 DEF ReconcileFails, subVars
  <2>3. QED
      BY <1>8, <2>1, <2>2 DEF ReconcileFails, Crash
<1>9. QED
    BY <1>2, <1>3, <1>4, <1>5, <1>6, <1>7, <1>8 DEF Next

(* That a process which is down holds nothing is inductive.                *)
LEMMA DownStep ==
    ASSUME TypeOK, SubscriptionsOpen, DownIsEmpty, [Next]_vars
    PROVE  DownIsEmpty'
<1>1. CASE Reset
    BY <1>1 DEF Reset, DownIsEmpty
<1>2. CASE phase' # "down"
    BY <1>2 DEF DownIsEmpty
<1>3. CASE ~Reset /\ phase' = "down"
  <2>1. phase = "down" \/ phase' = phase
      BY <1>3
      DEF Next, Trade, ChangeListing, Boot, Reconnect, RefreshWatchlist, TimerFires, Opened,
          Close, ConnectFails, Ack, Notify, FetchFails, GiveUp, Ingest, Reconcile, NextMint,
          ListSignatures, TakeSignature, MintDone, ReconcileDone, ReconcileFails, Crash,
          vars, memVars
  <2>2. /\ phase = "down" /\ \A s \in Sockets : conns[s] = "free"
        /\ waiting = 0 /\ reconcile = Idle /\ inflight = {}
      BY <1>3, <2>1 DEF DownIsEmpty
  <2>3. ~Reconciling("next") /\ ~Reconciling("list") /\ ~Reconciling("apply")
      BY <2>2, IdleType DEF Reconciling
  <2>4. \/ \E m \in Mints : Trade(m) \/ ChangeListing(m)
        \/ \E s \in Sockets, m \in Mints : Ack(s, m)
        \/ \E s \in Sockets, i \in Trades : Notify(s, i)
        \/ UNCHANGED vars
    <3>1. ~Boot /\ ~Reconnect /\ ~RefreshWatchlist /\ ~TimerFires /\ ~Crash
        BY <1>3, <2>2 DEF Boot, Reconnect, RefreshWatchlist, TimerFires, Crash
    <3>2. ~Reconcile /\ ~ReconcileFails
        BY <2>3 DEF Reconcile, NextMint, ListSignatures, TakeSignature, MintDone,
                    ReconcileDone, ReconcileFails
    <3>3. \A s \in Sockets : ~Opened(s) /\ ~Close(s) /\ ~ConnectFails(s)
        BY <2>2 DEF Opened, Close, ConnectFails
    <3>4. ~\E w \in inflight : FetchFails(w) \/ GiveUp(w) \/ Ingest(w)
        BY <2>2
    <3>5. QED
        BY <3>1, <3>2, <3>3, <3>4 DEF Next
  <2>5. mintBySubscription = {}
      BY <2>2 DEF SubscriptionsOpen, TypeOK
  <2>6. UNCHANGED <<conns, waiting, reconcile, inflight>>
    <3>1. CASE \E s \in Sockets, i \in Trades : Notify(s, i)
        BY <2>5, <3>1 DEF Notify, connVars
    <3>2. CASE \/ \E m \in Mints : Trade(m) \/ ChangeListing(m)
               \/ \E s \in Sockets, m \in Mints : Ack(s, m)
               \/ UNCHANGED vars
        BY <3>2 DEF Trade, ChangeListing, Ack, vars, memVars, connVars, workVars
    <3>3. QED
        BY <2>4, <3>1, <3>2
  <2>7. QED
      BY <2>2, <2>6 DEF DownIsEmpty
<1>4. QED
    BY <1>1, <1>2, <1>3

-----------------------------------------------------------------------------
(* The theorems. *)

(* The inductive invariant holds in every state.                           *)
THEOREM Invariance == Spec => []Inv
<1>1. Init => Inv
  <2> SUFFICES ASSUME Init PROVE Inv
      OBVIOUS
  <2>1. OutOK /\ SeenOK
      BY EmptySeq, PumpAssumption DEF Init, OutOK, SeenOK
  <2>2. DbOK /\ WatchOK /\ ConnOK /\ SubOK /\ NoticesOK /\ InflightOK /\ RestOK
      BY PumpAssumption DEF Init, DbOK, WatchOK, ConnOK, SubOK, NoticesOK, InflightOK, RestOK
  <2>3. ReconcileOK
      BY IdleType DEF Init, ReconcileOK
  <2>4. CandleCountsTrades
    <3>1. \A m : trades \cap TradesOf(m) = {}
        BY DEF Init
    <3>2. QED
        BY <3>1, FS_EmptySet DEF Init, CandleCountsTrades
  <2>5. CheckpointsRecorded /\ SubscriptionsOpen /\ DownIsEmpty
      BY DEF Init, CheckpointsRecorded, SubscriptionsOpen, DownIsEmpty
  <2>6. QED
      BY <2>1, <2>2, <2>3, <2>4, <2>5, TypeParts DEF Inv
<1>2. Inv /\ [Next]_vars => Inv'
    BY TypesStep, DatabaseStep, SubscriptionsStep, DownStep DEF Inv
<1>3. QED
    BY <1>1, <1>2, PTL DEF Spec

(* Type correctness, and that seenSignatures stays within its limit.       *)
THEOREM TypeCorrect == Spec => []TypeOK
<1>1. Inv => TypeOK
    BY DEF Inv
<1>2. QED
    BY <1>1, Invariance, PTL

(* The candles of every mint count every recorded trade exactly once, for  *)
(* any number of deliveries, reconciliations and restarts (ingest.ts,      *)
(* pump-candles.ts).                                                       *)
THEOREM CountedOnce == Spec => []CandleCountsTrades
<1>1. Inv => CandleCountsTrades
    BY DEF Inv
<1>2. QED
    BY <1>1, Invariance, PTL

(* The checkpoint from which a reconciliation goes on, and the trade whose *)
(* price the market state shows, are one recorded trade of the mint.       *)
THEOREM CheckpointIsRecorded == Spec => []CheckpointsRecorded
<1>1. Inv => CheckpointsRecorded
    BY DEF Inv
<1>2. QED
    BY <1>1, Invariance, PTL

(* However connections overlap, every subscription the provider holds is   *)
(* one of a connection that is open (alchemy.ts, onClose).                 *)
THEOREM SubscribedOnOpen == Spec => []SubscriptionsOpen
<1>1. Inv => SubscriptionsOpen
    BY DEF Inv
<1>2. QED
    BY <1>1, Invariance, PTL

=============================================================================
