--------------------------- MODULE HolderRewards ---------------------------
(***************************************************************************)
(* The holder-rewards worker (apps/holder-rewards-worker/src) for one      *)
(* vault and one reward asset.  Every run goes through the completed       *)
(* hourly rounds: it chooses the round's snapshot block, computes the      *)
(* entitlements and their Merkle root, saves both, publishes the root to   *)
(* the vault and pushes the payments in batches.                           *)
(*                                                                         *)
(* A root stands for what it is computed from: the snapshot block and the  *)
(* amount.  A leaf is an account with the root it belongs to.  The         *)
(* advisory lock keeps one run at a time (lock.ts).  The vault, the chain  *)
(* and the indexer are the environment.                                    *)
(***************************************************************************)
EXTENDS Integers, FiniteSets, FiniteSetsExt

CONSTANTS
  Holders,          \* token holders that may be eligible
  LastRound,        \* rounds are the hours 0 .. LastRound
  HourEnd,          \* HourEnd[r]: the last block of the hour of round r
  EligibleAt,       \* EligibleAt[b]: the eligible holders at block b
  Confirmations,    \* snapshotConfirmations
  MaxRoundsPerRun,  \* maxRoundsPerRun
  PushBatchSize,    \* pushBatchSize
  MaxHead,          \* bound: blocks of the chain
  MaxFunds,         \* bound: deposits into the vault
  FaultBudget       \* bound: faults of the environment

Rounds == 0 .. LastRound

ASSUME RewardsAssumption ==
  /\ LastRound \in Nat /\ MaxHead \in Nat \ {0} /\ MaxFunds \in Nat
  /\ FaultBudget \in Nat
  /\ Confirmations \in Nat \ {0}      \* parsePositiveInt
  /\ MaxRoundsPerRun \in Nat \ {0}
  /\ PushBatchSize \in Nat \ {0}
  /\ HourEnd \in [Rounds -> Nat \ {0}]
  /\ \A r \in Rounds : r + 1 \in Rounds => HourEnd[r] < HourEnd[r + 1]
  /\ EligibleAt \in [1 .. MaxHead -> SUBSET Holders]
  /\ IsFiniteSet(Holders)

NoRoot == [snapshot |-> 0, amount |-> 0]
Roots  == [snapshot : 1 .. MaxHead, amount : 1 .. MaxFunds]
NoTx   == [kind |-> "none"]

Txs == [kind : {"publish"}, round : Rounds, root : Roots]
         \cup [kind : {"push"}, round : Rounds, root : Roots,
               accounts : SUBSET Holders]

(* The statuses of WorkerRoundStatus that the worker writes; "absent" is a *)
(* round without a row.                                                    *)
Skipped    == {"skipped_no_reward", "skipped_no_holders"}
Continuing == {"publish_ready", "published"}
Statuses   == Skipped \cup Continuing \cup {"absent", "snapshot_not_ready"}

NoRow == [status |-> "absent", snapshot |-> 0, root |-> NoRoot]

VARIABLES
  head, indexed,      \* the chain's last block; the indexer's checkpoint
  funded, deposited,  \* deposits so far; the block of the first one, or 0
  uncommitted,        \* vault: funds not yet committed to a round
  published, paid,    \* vault: the root of each round; the accounts it paid
  rows, stored,       \* holder_reward_worker_rounds; holder_reward_entitlements
  pending,            \* transactions of earlier calls, not yet mined
  sent, receipt,      \* the transaction the worker waits for; its outcome
  pc, round, latest,  \* the worker: its step, its round, the last one to do
  root, unpaid,       \* the root it works on; the accounts left to store or pay
  faults

chainVars  == <<head, indexed, funded, deposited>>
vaultVars  == <<uncommitted, published, paid>>
dbVars     == <<rows, stored>>
txVars     == <<pending, sent, receipt>>
localVars  == <<root, unpaid>>
workerVars == <<pc, round, latest, root, unpaid>>
vars == <<chainVars, vaultVars, dbVars, txVars, workerVars, faults>>

Steps == {"idle", "resolve", "compute", "persist", "delete", "insert",
          "publish", "check", "published", "filter", "push", "pushed"}

TypeOK ==
  /\ head \in 1 .. MaxHead /\ indexed \in 0 .. head
  /\ funded \in 0 .. MaxFunds /\ deposited \in 0 .. head
  /\ uncommitted \in 0 .. funded
  /\ published \in [Rounds -> Roots \cup {NoRoot}]
  /\ paid \in [Rounds -> SUBSET Holders]
  /\ rows \in [Rounds -> [status : Statuses, snapshot : 0 .. MaxHead,
                          root : Roots \cup {NoRoot}]]
  /\ stored \in [Rounds -> SUBSET [account : Holders, root : Roots]]
  /\ pending \subseteq Txs /\ sent \in Txs \cup {NoTx}
  /\ receipt \in {"none", "success", "reverted"}
  /\ pc \in Steps /\ round \in Rounds /\ latest \in Rounds
  /\ root \in [snapshot : 0 .. MaxHead, amount : 0 .. MaxFunds]
  /\ unpaid \subseteq Holders
  /\ faults \in 0 .. FaultBudget

Init ==
  /\ head = 1 /\ indexed = 0 /\ funded = 0 /\ deposited = 0
  /\ uncommitted = 0
  /\ published = [r \in Rounds |-> NoRoot] /\ paid = [r \in Rounds |-> {}]
  /\ rows = [r \in Rounds |-> NoRow] /\ stored = [r \in Rounds |-> {}]
  /\ pending = {} /\ sent = NoTx /\ receipt = "none"
  /\ pc = "idle" /\ round = 0 /\ latest = 0
  /\ root = NoRoot /\ unpaid = {}
  /\ faults = 0

----------------------------------------------------------------------------
(* The chain, the indexer and the vault. *)

NewBlock ==
  /\ head < MaxHead
  /\ head' = head + 1
  /\ UNCHANGED <<indexed, funded, deposited, vaultVars, dbVars, txVars,
                 workerVars, faults>>

Index ==
  /\ indexed < head
  /\ indexed' = indexed + 1
  /\ UNCHANGED <<head, funded, deposited, vaultVars, dbVars, txVars,
                 workerVars, faults>>

(* The checkpoint goes back: the indexer rolls back a reorg or starts over.  *)
Regress ==
  /\ faults < FaultBudget /\ indexed > 0
  /\ indexed' \in 0 .. indexed - 1
  /\ faults' = faults + 1
  /\ UNCHANGED <<head, funded, deposited, vaultVars, dbVars, txVars, workerVars>>

Deposit ==
  /\ funded < MaxFunds
  /\ funded' = funded + 1
  /\ uncommitted' = uncommitted + 1
  /\ deposited' = IF deposited = 0 THEN head ELSE deposited
  /\ UNCHANGED <<head, indexed, published, paid, dbVars, txVars, workerVars,
                 faults>>

(* The vault commits funds to a round once, and only funds it has.         *)
Accepts(tx) ==
  \/ /\ tx.kind = "publish"
     /\ published[tx.round] = NoRoot
     /\ tx.root.amount <= uncommitted
  \/ tx.kind = "push" /\ published[tx.round] = tx.root

(* A payment that fails stays claimable; an account is paid once.          *)
Execute(tx, refused) ==
  IF tx.kind = "publish"
    THEN /\ published' = [published EXCEPT ![tx.round] = tx.root]
         /\ uncommitted' = uncommitted - tx.root.amount
         /\ UNCHANGED paid
    ELSE /\ paid' = [paid EXCEPT ![tx.round] = @ \cup (tx.accounts \ refused)]
         /\ UNCHANGED <<published, uncommitted>>

MineSent ==
  /\ sent # NoTx
  /\ IF Accepts(sent)
       THEN Execute(sent, {}) /\ receipt' = "success"
       ELSE receipt' = "reverted" /\ UNCHANGED vaultVars
  /\ sent' = NoTx
  /\ UNCHANGED <<chainVars, dbVars, pending, workerVars, faults>>

(* The transfers of a batch to some accounts fail.                         *)
MineSentPartly ==
  /\ faults < FaultBudget
  /\ sent # NoTx /\ sent.kind = "push" /\ Accepts(sent)
  /\ Execute(sent, sent.accounts) /\ receipt' = "success"
  /\ sent' = NoTx /\ faults' = faults + 1
  /\ UNCHANGED <<chainVars, dbVars, pending, workerVars>>

(* A transaction the worker no longer waits for is mined, or never is.     *)
MinePending ==
  \E tx \in pending :
    /\ pending' = pending \ {tx}
    /\ \/ Accepts(tx) /\ Execute(tx, {})
       \/ UNCHANGED vaultVars
    /\ UNCHANGED <<chainVars, dbVars, sent, receipt, workerVars, faults>>

----------------------------------------------------------------------------
(* The worker. *)

Completed == {r \in Rounds : HourEnd[r] < head}   \* latestCompletableRoundId

RoundOf(block) == Min({r \in Rounds : block <= HourEnd[r]} \cup {LastRound + 1})

(* Slip: the window is always as long as the cap.                          *)
FirstRoundByCap(last) == last - MaxRoundsPerRun + 1

FirstRound(last) ==
  LET known == deposited # 0 /\ deposited <= indexed
      start == IF known THEN RoundOf(deposited) ELSE last
  IN  Max({start, last - MaxRoundsPerRun + 1})

(* A run whose window is empty ends at once.                               *)
StartRun ==
  LET last  == Max(Completed)
      first == FirstRound(last)
  IN  /\ pc = "idle" /\ Completed # {}
      /\ IF first <= last
           THEN pc' = "resolve" /\ round' = first /\ latest' = last
           ELSE UNCHANGED <<pc, round, latest>>
      /\ UNCHANGED <<chainVars, vaultVars, dbVars, txVars, localVars, faults>>

(* The round is left, whether it is complete, skipped or failed: the loop  *)
(* of serviceVault catches its error and goes on.                          *)
NextRound ==
  /\ IF round < latest
       THEN pc' = "resolve" /\ round' = round + 1
       ELSE pc' = "idle" /\ UNCHANGED round
  /\ root' = NoRoot /\ unpaid' = {}
  /\ UNCHANGED latest

Goto(step) == pc' = step /\ UNCHANGED <<round, latest>>

(* upsertWorkerRoundStatus keeps the snapshot and the root of a row that   *)
(* exists, and gives a new one the snapshot of the call.                   *)
WithStatus(row, status, snapshot) ==
  [row EXCEPT !.status = status,
              !.snapshot = IF row.status = "absent" THEN snapshot ELSE @]

ResolvedSnapshot(r) ==
  IF rows[r].snapshot > 0 THEN rows[r].snapshot ELSE Min({HourEnd[r], indexed})

Ready(snapshot) == snapshot > 0 /\ indexed >= snapshot + Confirmations

SkipTerminal ==
  /\ pc = "resolve" /\ rows[round].status \in Skipped
  /\ NextRound
  /\ UNCHANGED <<chainVars, vaultVars, dbVars, txVars, faults>>

NotReady ==
  LET snapshot == ResolvedSnapshot(round) IN
  /\ pc = "resolve" /\ rows[round].status \notin Skipped
  /\ ~Ready(snapshot)
  /\ rows' = [rows EXCEPT ![round] =
                WithStatus(@, "snapshot_not_ready", snapshot)]
  /\ NextRound
  /\ UNCHANGED <<chainVars, vaultVars, stored, txVars, faults>>

(* Slip: a published round is taken for a finished one.                    *)
ResumeUnpublished ==
  LET row == rows[round] IN
  /\ pc = "resolve" /\ Ready(ResolvedSnapshot(round))
  /\ row.root # NoRoot /\ row.status \in Continuing
  /\ IF stored[round] = {} \/ row.status = "published"
       THEN NextRound
       ELSE /\ root' = row.root
            /\ unpaid' = {leaf.account : leaf \in stored[round]}
            /\ Goto("publish")
  /\ UNCHANGED <<chainVars, vaultVars, dbVars, txVars, faults>>

(* The saved round goes on with the entitlements that are stored.          *)
Resume ==
  LET row == rows[round] IN
  /\ pc = "resolve" /\ Ready(ResolvedSnapshot(round))
  /\ row.root # NoRoot /\ row.status \in Continuing
  /\ IF stored[round] = {}
       THEN NextRound
       ELSE /\ root' = row.root
            /\ unpaid' = {leaf.account : leaf \in stored[round]}
            /\ Goto("publish")
  /\ UNCHANGED <<chainVars, vaultVars, dbVars, txVars, faults>>

Recompute ==
  LET row == rows[round] IN
  /\ pc = "resolve" /\ row.status \notin Skipped
  /\ Ready(ResolvedSnapshot(round))
  /\ ~(row.root # NoRoot /\ row.status \in Continuing)
  /\ root' = [snapshot |-> ResolvedSnapshot(round), amount |-> 0]
  /\ Goto("compute")
  /\ UNCHANGED <<chainVars, vaultVars, dbVars, txVars, unpaid, faults>>

ReadAmount ==
  /\ pc = "compute"
  /\ root' = [root EXCEPT !.amount = uncommitted]
  /\ Goto("persist")
  /\ UNCHANGED <<chainVars, vaultVars, dbVars, txVars, unpaid, faults>>

SkipRound ==
  /\ pc = "persist"
  /\ \/ root.amount = 0
     \/ EligibleAt[root.snapshot] = {}
  /\ rows' = [rows EXCEPT ![round] =
                WithStatus(@, IF root.amount = 0 THEN "skipped_no_reward"
                                                 ELSE "skipped_no_holders",
                           root.snapshot)]
  /\ NextRound
  /\ UNCHANGED <<chainVars, vaultVars, stored, txVars, faults>>

(* Slip: a saved root is replaced by the one computed now.                 *)
SaveRootAnyway ==
  /\ pc = "persist"
  /\ root.amount > 0 /\ EligibleAt[root.snapshot] # {}
  /\ rows' = [rows EXCEPT ![round] = [status |-> "publish_ready",
                                      snapshot |-> root.snapshot,
                                      root |-> root]]
  /\ unpaid' = EligibleAt[root.snapshot]
  /\ Goto("delete")
  /\ UNCHANGED <<chainVars, vaultVars, stored, txVars, root, faults>>

(* upsertWorkerRoundComputed; a root that differs from the saved one is an *)
(* error, and the round is left.                                           *)
SaveRoot ==
  /\ pc = "persist"
  /\ root.amount > 0 /\ EligibleAt[root.snapshot] # {}
  /\ IF rows[round].root \in {NoRoot, root}
       THEN /\ rows' = [rows EXCEPT ![round] = [status |-> "publish_ready",
                                                snapshot |-> root.snapshot,
                                                root |-> root]]
            /\ unpaid' = EligibleAt[root.snapshot]
            /\ Goto("delete")
            /\ UNCHANGED root
       ELSE UNCHANGED rows /\ NextRound
  /\ UNCHANGED <<chainVars, vaultVars, stored, txVars, faults>>

(* replaceWorkerEntitlements: one statement deletes the rows of the round, *)
(* then one statement per leaf inserts it, without a transaction.          *)
DeleteEntitlements ==
  /\ pc = "delete"
  /\ stored' = [stored EXCEPT ![round] = {}]
  /\ Goto("insert")
  /\ UNCHANGED <<chainVars, vaultVars, rows, txVars, localVars, faults>>

InsertEntitlement ==
  /\ pc = "insert"
  /\ \E account \in EligibleAt[root.snapshot] :
       LET leaf == [account |-> account, root |-> root]
           all  == stored[round] \cup {leaf}
       IN  /\ leaf \notin stored[round]
           /\ stored' = [stored EXCEPT ![round] = all]
           /\ Goto(IF \A a \in EligibleAt[root.snapshot] :
                        [account |-> a, root |-> root] \in all
                     THEN "publish" ELSE "insert")
  /\ UNCHANGED <<chainVars, vaultVars, rows, txVars, localVars, faults>>

(* publishRoundSafe: the vault is asked first whether the round is there.  *)
ReadRound ==
  /\ pc = "publish"
  /\ CASE published[round] = NoRoot -> Goto("check") /\ UNCHANGED localVars
       [] published[round] = root   -> Goto("filter") /\ UNCHANGED localVars
       [] OTHER                     -> NextRound
  /\ UNCHANGED <<chainVars, vaultVars, dbVars, txVars, faults>>

(* The funds are checked, the call is simulated and the transaction sent.  *)
SendPublish ==
  LET tx == [kind |-> "publish", round |-> round, root |-> root] IN
  /\ pc = "check"
  /\ IF Accepts(tx)
       THEN /\ sent' = tx /\ receipt' = "none"
            /\ Goto("published") /\ UNCHANGED localVars
       ELSE NextRound /\ UNCHANGED <<sent, receipt>>
  /\ UNCHANGED <<chainVars, vaultVars, dbVars, pending, faults>>

(* The receipt is verified against the vault; markWorkerRoundPublished.    *)
Published ==
  /\ pc = "published" /\ sent = NoTx /\ receipt # "none"
  /\ IF receipt = "success"
       THEN /\ rows' = [rows EXCEPT ![round].status = "published"]
            /\ Goto("filter") /\ UNCHANGED localVars
       ELSE NextRound /\ UNCHANGED rows
  /\ receipt' = "none"
  /\ UNCHANGED <<chainVars, vaultVars, stored, pending, sent, faults>>

FilterPaid ==
  /\ pc = "filter"
  /\ unpaid' = unpaid \ paid[round]
  /\ Goto("push")
  /\ UNCHANGED <<chainVars, vaultVars, dbVars, txVars, root, faults>>

SendBatch ==
  /\ pc = "push" /\ unpaid # {}
  /\ \E batch \in SUBSET unpaid :
       /\ Cardinality(batch) = Min({PushBatchSize, Cardinality(unpaid)})
       /\ sent' = [kind |-> "push", round |-> round, root |-> root,
                   accounts |-> batch]
       /\ unpaid' = unpaid \ batch
  /\ receipt' = "none"
  /\ Goto("pushed")
  /\ UNCHANGED <<chainVars, vaultVars, dbVars, pending, root, faults>>

BatchDone ==
  /\ pc = "pushed" /\ sent = NoTx /\ receipt # "none"
  /\ IF receipt = "success" THEN Goto("push") /\ UNCHANGED localVars
                            ELSE NextRound
  /\ receipt' = "none"
  /\ UNCHANGED <<chainVars, vaultVars, dbVars, pending, sent, faults>>

RoundComplete ==
  /\ pc = "push" /\ unpaid = {}
  /\ NextRound
  /\ UNCHANGED <<chainVars, vaultVars, dbVars, txVars, faults>>

(* The worker stops waiting: its transaction is on its own.                *)
Abandon ==
  /\ pending' = IF sent = NoTx THEN pending ELSE pending \cup {sent}
  /\ sent' = NoTx /\ receipt' = "none"
  /\ faults' = faults + 1

(* A call of the node or of the database fails, or a receipt does not come. *)
StepFails ==
  /\ faults < FaultBudget /\ pc # "idle"
  /\ Abandon /\ NextRound
  /\ UNCHANGED <<chainVars, vaultVars, dbVars>>

(* The process stops; the next run of the schedule starts over.            *)
Crash ==
  /\ faults < FaultBudget /\ pc # "idle"
  /\ Abandon
  /\ pc' = "idle" /\ root' = NoRoot /\ unpaid' = {}
  /\ UNCHANGED <<chainVars, vaultVars, dbVars, round, latest>>

Worker ==
  \/ StartRun \/ SkipTerminal \/ NotReady \/ Resume \/ Recompute
  \/ ReadAmount \/ SkipRound \/ SaveRoot \/ DeleteEntitlements
  \/ InsertEntitlement \/ ReadRound \/ SendPublish \/ Published
  \/ FilterPaid \/ SendBatch \/ BatchDone \/ RoundComplete

Environment ==
  \/ NewBlock \/ Index \/ Regress \/ Deposit
  \/ MineSent \/ MineSentPartly \/ MinePending
  \/ StepFails \/ Crash

Next == Worker \/ Environment

Spec == Init /\ [][Next]_vars

(* The schedule starts a run every hour, a run goes on by itself, and      *)
(* transactions are mined while the indexer follows the chain.             *)
FairSpec == Spec /\ WF_vars(Worker) /\ WF_vars(MineSent) /\ WF_vars(Index)

----------------------------------------------------------------------------
(* Properties. *)

PublishTxs == {tx \in pending \cup {sent} : tx.kind = "publish"}

(* The root on chain is the one saved in the round's row, and so is that   *)
(* of every publishRound transaction still on its way, whichever run sent  *)
(* it: a later run recognises its own root in readRound (publish.ts:61)    *)
(* and never meets the "different root" error.                             *)
PublishedAsPersisted ==
  /\ \A r \in Rounds : published[r] # NoRoot => rows[r].root = published[r]
  /\ \A tx \in PublishTxs : rows[tx.round].root = tx.root

(* Stored entitlements belong to the root saved in the row, wherever a     *)
(* crash cuts upsertWorkerRoundComputed, the DELETE and the INSERTs apart, *)
(* and their accounts are eligible at the row's snapshot: a resumed run    *)
(* never pushes a leaf whose proof the vault refuses.                      *)
EntitlementsOfRoot ==
  \A r \in Rounds : \A leaf \in stored[r] :
    /\ leaf.root = rows[r].root
    /\ leaf.account \in EligibleAt[rows[r].snapshot]

(* A published round that keeps its status pays, in the end, every account *)
(* whose entitlement is stored, through crashes, failed calls and refused  *)
(* payments.  Rounds before the first deposit's leave the window of        *)
(* resolveRoundWindow and are not covered.                                 *)
StoredArePaid ==
  \A r \in Rounds :
    (/\ published[r] # NoRoot /\ rows[r].status \in Continuing
     /\ r >= RoundOf(deposited))
      ~> (\/ rows[r].status \notin Continuing
          \/ {leaf.account : leaf \in stored[r]} \subseteq paid[r])
=============================================================================
