----------------------------- MODULE PonsLaunch -----------------------------
(***************************************************************************)
(* The Pons launch of one draft, driven by the creator's browser tab:      *)
(* LaunchAndBuy, then the developer allocation is locked in HoodLock or    *)
(* burned, as apps/web/src/lib/launch/run-public-pons-launch.ts and the    *)
(* orchestrators it calls do.                                              *)
(*                                                                         *)
(* A flow is one run of runPublicPonsLaunch or resumePublicPonsLaunch.  It *)
(* works on a snapshot of the stored draft: every step after an await      *)
(* writes back `{...snapshot, field}`, so an action here is the code       *)
(* between two awaits and `snap` is the `next` / `state` it spreads.       *)
(* Several flows exist at once only when the page was left and mounted     *)
(* again while its flow still ran (Detached): launchInFlight belongs to    *)
(* one mount.                                                              *)
(*                                                                         *)
(* Chain, wallet and creator are the environment.  Amounts are counted in  *)
(* units of the exact allocation devTokensOut.                             *)
(***************************************************************************)
EXTENDS Integers, Sequences, FiniteSets

CONSTANTS
    Flows,          \* slots for runs of the flow that are alive at once
    Policies,       \* Dev Supply policies the form offers in this instance
    Duration,       \* seconds a policy asks for, in units of the margin
    Margin,         \* UNLOCK_SAFETY_MARGIN_SECONDS
    Reserve,        \* allocations the creator holds besides the launch's own
    Durable,        \* sessionStorage works, the draft survives a reload
    Detached,       \* the page can be left while its flow goes on
    MaxTime,        \* bound: chain time
    MaxTx,          \* bound: transactions signed
    FaultBudget     \* bound: failures, reloads, remounts and reverts

LockPolicies == Policies \ {"burn"}

ASSUME PonsAssumption ==
    /\ Flows # {} /\ IsFiniteSet(Flows) /\ "none" \notin Flows
    /\ Policies # {} /\ Policies \subseteq STRING /\ "none" \notin Policies
    /\ Margin \in Nat /\ Duration \in [LockPolicies \cup {"lock_6m"} -> Nat]
    /\ Reserve \in Nat /\ MaxTime \in Nat /\ MaxTx \in Nat
    /\ FaultBudget \in Nat /\ Durable \in BOOLEAN /\ Detached \in BOOLEAN

VARIABLES
    draft,          \* the stored draft, BlankDraft when there is none
    page,           \* the mounted page: its draft, its flow, a busy phase left
    flow,           \* the runs of the flow
    txs,            \* the creator's transactions in nonce order
    held,           \* allocations on the creator's balance
    allowance,      \* allocations HoodLock may pull
    now,            \* timestamp of the latest block
    lost,           \* what no draft kept: kinds of transactions, an answer
    faults          \* faults used

vars == <<draft, page, flow, txs, held, allowance, now, lost, faults>>
chain == <<txs, held, allowance, now>>

NoTx == 0
NoTime == -1
Kinds == {"launch", "approve", "lock", "burn"}
Times == 0 .. MaxTime
TxId == 1 .. MaxTx

BlankDraft ==
    [policy |-> "none", launchTx |-> NoTx, token |-> FALSE,
     ref |-> NoTime, unlock |-> NoTime, approvalTx |-> NoTx,
     lockTx |-> NoTx, lockId |-> NoTx, lockVerified |-> FALSE,
     burnTx |-> NoTx, burnVerified |-> FALSE, lastError |-> "none"]

\* The field of the draft that keeps the hash of a transaction.
HashField == [launch |-> "launchTx", approve |-> "approvalTx",
              lock |-> "lockTx", burn |-> "burnTx"]

IdleFlow == [pc |-> "idle", kind |-> "none", snap |-> BlankDraft, hash |-> NoTx]

-----------------------------------------------------------------------------
(* Predicates of the draft and of the policy. *)

isLaunchCommitted(d) == d.launchTx # NoTx \/ d.token
isLockCommitted(d) == d.lockTx # NoTx \/ d.lockId # NoTx \/ d.lockVerified
Settled(d) == IF d.policy = "burn" THEN d.burnVerified ELSE d.lockVerified

proposeUnlock(policy, t) == t + Duration[policy] + Margin
unlockSatisfiesPolicy(policy, unlock, t) == unlock >= t + Duration[policy]

\* The creator's unwithdrawn locks of the exact allocation that satisfy the
\* policy, counted from t.
MatchingLocks(policy, t) ==
    {i \in DOMAIN txs : /\ txs[i].kind = "lock" /\ txs[i].status = "success"
                        /\ unlockSatisfiesPolicy(policy, txs[i].unlock, t)}

\* A slip: a second lock is not refused.
FinishStepSlip(d) ==
    CASE ~d.token -> "idle"
      [] d.token /\ d.policy = "burn" ->
            IF d.burnVerified THEN "idle"
            ELSE IF d.burnTx # NoTx THEN "recover_burn" ELSE "check_burn"
      [] OTHER -> "search_lock"

\* Where finishHoodlockAndVerify or finishBurnAndVerify goes, up to its first
\* await, with the stored draft d.  "idle": it returns.
FinishStep(d) ==
    CASE ~d.token -> "idle"
      [] d.token /\ d.policy = "burn" ->
            IF d.burnVerified THEN "idle"
            ELSE IF d.burnTx # NoTx THEN "recover_burn" ELSE "check_burn"
      [] OTHER -> IF isLockCommitted(d) THEN "idle" ELSE "search_lock"

\* Where resumePublicPonsLaunch goes, up to its first await.
ResumeStep(d) ==
    CASE d.launchTx # NoTx /\ ~d.token -> "recover_launch"
      [] d.token /\ d.policy # "burn" /\ isLockCommitted(d) ->
            IF d.lockVerified THEN "idle"
            ELSE IF d.lockId # NoTx THEN "recover_id" ELSE "recover_lock"
      [] OTHER -> FinishStep(d)

\* Flow f goes on at pc with d as its snapshot; at "idle" its mount may start
\* another.
Goto(f, pc, kind, d) ==
    /\ flow' = [flow EXCEPT ![f] =
                  IF pc = "idle" THEN IdleFlow
                  ELSE [pc |-> pc, kind |-> kind, snap |-> d, hash |-> NoTx]]
    /\ page' = IF pc = "idle" /\ page.flow = f
               THEN [page EXCEPT !.flow = "none"] ELSE page

\* The flow saves d, then loads it again and finishes from there.
SaveAndFinish(f, d) ==
    /\ draft' = d
    /\ Goto(f, FinishStep(d), "none", d)

\* The flow saves d and returns.
SaveAndReturn(f, d) ==
    /\ draft' = d
    /\ Goto(f, "idle", "none", d)

At(f, pc) == flow[f].pc = pc
Fault == faults < FaultBudget /\ faults' = faults + 1

-----------------------------------------------------------------------------
Init ==
    /\ draft = BlankDraft
    /\ page = [ref |-> FALSE, flow |-> "none", busy |-> FALSE]
    /\ flow = [f \in Flows |-> IdleFlow]
    /\ txs = <<>>
    /\ held = 0 /\ allowance = 0 /\ now = 0
    /\ lost = {} /\ faults = 0

-----------------------------------------------------------------------------
(* The page. *)

\* A slip: a committed draft takes the form's policy too.
SubmitSlip(f) ==
    /\ page.flow = "none" /\ ~page.busy /\ At(f, "idle")
    /\ (draft = BlankDraft /\ "draft" \notin lost) \/ page.ref
    /\ \E p \in Policies :
         /\ draft' = [draft EXCEPT !.policy = p]
         /\ flow' = [flow EXCEPT ![f] =
                       [IdleFlow EXCEPT !.pc = "prepare", !.snap = draft']]
    /\ page' = [ref |-> TRUE, flow |-> f, busy |-> FALSE]
    /\ UNCHANGED <<chain, lost, faults>>

\* submitLaunch on a draft that has no launch yet: createOrResumePonsDraft
\* creates it, or takes the form's policy into the one of an earlier attempt
\* of this mount.
Submit(f) ==
    /\ page.flow = "none" /\ ~page.busy /\ At(f, "idle")
    /\ ~isLaunchCommitted(draft)
    /\ (draft = BlankDraft /\ "draft" \notin lost) \/ page.ref
    /\ \E p \in Policies :
         /\ draft' = [draft EXCEPT !.policy = p]
         /\ flow' = [flow EXCEPT ![f] =
                       [IdleFlow EXCEPT !.pc = "prepare", !.snap = draft']]
    /\ page' = [ref |-> TRUE, flow |-> f, busy |-> FALSE]
    /\ UNCHANGED <<chain, lost, faults>>

\* Resume: the button of a launch whose allocation is not settled, or a submit
\* that finds the draft committed.  While the page shows a busy phase it takes
\* neither.
Resume(f) ==
    /\ page.flow = "none" /\ ~page.busy /\ At(f, "idle")
    /\ page.ref /\ isLaunchCommitted(draft)
    /\ ResumeStep(draft) # "idle"
    /\ flow' = [flow EXCEPT ![f] =
                  [IdleFlow EXCEPT !.pc = ResumeStep(draft), !.snap = draft]]
    /\ page' = [page EXCEPT !.flow = f]
    /\ UNCHANGED <<draft, chain, lost, faults>>

\* A slip: a mount goes on with any stored draft.
MountedSlip(d) == [ref |-> d # BlankDraft, flow |-> "none", busy |-> FALSE]

\* The page is mounted: it offers the stored draft only if its launch is
\* committed.
Mounted(d) == [ref |-> isLaunchCommitted(d), flow |-> "none", busy |-> FALSE]

\* The page is left and opened again while its flow goes on.
Remount ==
    /\ Detached /\ page.flow # "none" /\ Fault
    /\ page' = Mounted(draft)
    /\ UNCHANGED <<draft, flow, chain, lost>>

\* The tab is reloaded or the browser restarts it: the flows are gone, and
\* with them a hash that was not saved yet; a draft that only the memory
\* fallback kept is gone too.
Reload ==
    /\ page.flow # "none" \/ page.busy
    /\ Fault
    /\ draft' = IF Durable THEN draft ELSE BlankDraft
    /\ page' = Mounted(draft')
    /\ flow' = [f \in Flows |-> IdleFlow]
    /\ lost' = lost \cup {flow[f].kind : f \in {g \in Flows : At(g, "save")}}
                    \cup (IF Durable THEN {} ELSE {"draft"})
    /\ UNCHANGED chain

-----------------------------------------------------------------------------
(* Steps every transaction goes through. *)

\* The wallet is asked; the creator signs and the transaction is sent.  What
\* it carries was fixed by the simulation.
Send(f) ==
    /\ At(f, "sign") /\ Len(txs) < MaxTx
    /\ txs' = Append(txs, [kind |-> flow[f].kind, status |-> "pending",
                           unlock |-> IF flow[f].kind = "lock"
                                      THEN flow[f].snap.unlock ELSE NoTime,
                           at |-> NoTime])
    /\ UNCHANGED <<draft, held, allowance, now>>

Sign(f) ==
    /\ Send(f)
    /\ flow' = [flow EXCEPT ![f].pc = "save", ![f].hash = Len(txs')]
    /\ UNCHANGED <<page, lost, faults>>

\* What is lost with the hash of a transaction of this kind while its mount
\* lives on: of a launch also the answer, since the mount can submit again.
NotKept(kind) == {kind} \cup (IF kind = "launch" THEN {"answer"} ELSE {})

\* The transaction is sent and the wallet's answer is lost: the flow throws
\* with no hash to save.
SignLost(f) ==
    /\ Send(f) /\ Fault
    /\ Goto(f, "idle", "none", BlankDraft)
    /\ lost' = lost \cup NotKept(flow[f].kind)

\* A slip: the approval's hash is stored as the lock's.
SaveHashSlip(f) ==
    LET field == HashField[IF flow[f].kind = "approve" THEN "lock" ELSE flow[f].kind] IN
    /\ At(f, "save")
    /\ draft' = [flow[f].snap EXCEPT ![field] = flow[f].hash, !.lastError = "none"]
    /\ flow' = [flow EXCEPT ![f].pc = "wait", ![f].snap = draft']
    /\ UNCHANGED <<page, chain, lost, faults>>

\* The snapshot with the hash of the transaction just signed.
Hashed(f) ==
    [flow[f].snap EXCEPT ![HashField[flow[f].kind]] = flow[f].hash,
                         !.lastError = "none"]

\* The hash is persisted before the receipt is awaited.
SaveHash(f) ==
    /\ At(f, "save")
    /\ draft' = Hashed(f)
    /\ flow' = [flow EXCEPT ![f].pc = "wait", ![f].snap = draft']
    /\ UNCHANGED <<page, chain, lost, faults>>

\* The write fails and falls back to memory, where the older draft that
\* sessionStorage still holds masks it: the flow goes on with the hash and the
\* stored draft has none.
SaveHashMasked(f) ==
    /\ At(f, "save") /\ Fault
    /\ flow' = [flow EXCEPT ![f].pc = "wait", ![f].snap = Hashed(f)]
    /\ lost' = lost \cup NotKept(flow[f].kind)
    /\ UNCHANGED <<draft, page, chain>>

\* The receipt says reverted: the error is saved, the hash stays.
ReceiptReverted(f) ==
    /\ At(f, "wait") /\ txs[flow[f].hash].status = "reverted"
    /\ SaveAndReturn(f, [flow[f].snap EXCEPT !.lastError = "TX_REVERTED"])
    /\ UNCHANGED <<chain, lost, faults>>

\* An RPC call fails, a wait times out, the creator rejects before anything is
\* sent: the flow throws and fail() reports it.  Nothing is saved.
Throw(f) ==
    /\ flow[f].pc \notin {"idle", "save"} /\ Fault
    /\ Goto(f, "idle", "none", BlankDraft)
    /\ UNCHANGED <<draft, chain, lost>>

Confirmed(f, kind) ==
    /\ At(f, "wait") /\ flow[f].kind = kind
    /\ txs[flow[f].hash].status = "success"

\* What a recovery reads of transaction i: its receipt if it is mined, and
\* nothing if it is not or the read fails.
NoReceipt(i) ==
    \/ txs[i].status = "pending" /\ UNCHANGED faults
    \/ txs[i].status # "pending" /\ Fault
Receipt(i, status) == txs[i].status = status /\ UNCHANGED faults

-----------------------------------------------------------------------------
(* LaunchAndBuy. *)

\* preparePonsLaunchAndBuy, then the wallet.
Prepare(f) ==
    /\ At(f, "prepare")
    /\ Goto(f, "sign", "launch", draft)
    /\ UNCHANGED <<draft, chain, lost, faults>>

\* The launch is mined and decoded: the token and its exact allocation are
\* saved and the allocation's settlement begins.
LaunchConfirmed(f) ==
    /\ Confirmed(f, "launch")
    /\ SaveAndFinish(f, [flow[f].snap EXCEPT !.token = TRUE])
    /\ UNCHANGED <<chain, lost, faults>>

\* recoverPonsLaunchFromPending of a draft that has a hash and no token.
RecoverLaunch(f) ==
    LET d == flow[f].snap IN
    /\ At(f, "recover_launch")
    /\ \/ NoReceipt(d.launchTx) /\ SaveAndReturn(f, d)
       \/ /\ Receipt(d.launchTx, "reverted")
          /\ SaveAndReturn(f, [d EXCEPT !.lastError = "TX_REVERTED"])
       \/ /\ Receipt(d.launchTx, "success")
          /\ SaveAndFinish(f, [d EXCEPT !.token = TRUE, !.lastError = "none"])
    /\ UNCHANGED <<chain, lost>>

-----------------------------------------------------------------------------
(* HoodLock. *)

Verified(d, i) ==
    [d EXCEPT !.lockId = i, !.unlock = txs[i].unlock,
              !.lockVerified = TRUE, !.lastError = "none"]

\* prepareHoodlockLock looks for a lock that already settles the draft, and
\* reports the one it takes as an error: the page offers to resume.
SearchLock(f) ==
    LET d == flow[f].snap
        t == IF d.ref # NoTime THEN d.ref ELSE now
        found == MatchingLocks(d.policy, t) IN
    /\ At(f, "search_lock")
    /\ \/ /\ Cardinality(found) > 1
          /\ Goto(f, "idle", "none", d) /\ UNCHANGED draft
       \/ \E i \in found : found = {i} /\ SaveAndReturn(f, Verified(d, i))
       \/ /\ found = {}
          /\ draft' = [d EXCEPT !.lastError = "none"]
          /\ Goto(f, "preflight", "none", draft')
    /\ UNCHANGED <<chain, lost, faults>>

\* runHoodlockPreflight: balance and allowance are read, the unlock time is
\* proposed; then broadcastHoodlockApproval or broadcastHoodlockLock begins.
Preflight(f) ==
    LET d == [flow[f].snap EXCEPT !.ref = now,
                                  !.unlock = proposeUnlock(flow[f].snap.policy, now)] IN
    /\ At(f, "preflight")
    /\ \/ held < 1 /\ Goto(f, "idle", "none", d) /\ UNCHANGED draft
       \/ /\ held >= 1 /\ draft' = d
          /\ IF allowance < 1 THEN Goto(f, "sign", "approve", d)
             ELSE Goto(f, "simulate_lock", "none", d)
    /\ UNCHANGED <<chain, lost, faults>>

\* The approval is mined and the allowance read again.
ApprovalConfirmed(f) ==
    /\ Confirmed(f, "approve")
    /\ draft' = flow[f].snap
    /\ IF allowance < 1 THEN Goto(f, "idle", "none", draft')
       ELSE Goto(f, "simulate_lock", "none", draft')
    /\ UNCHANGED <<chain, lost, faults>>

\* simulateHoodlockLock against the latest block, then the wallet.
SimulateLock(f) ==
    LET d == flow[f].snap IN
    /\ At(f, "simulate_lock")
    /\ \/ /\ held < 1 \/ allowance < 1
          /\ Goto(f, "idle", "none", d) /\ UNCHANGED draft
       \/ /\ held >= 1 /\ allowance >= 1
          /\ draft' = d /\ Goto(f, "sign", "lock", d)
    /\ UNCHANGED <<chain, lost, faults>>

\* The lock is mined and its Locked event decoded: the id is saved first.
LockConfirmed(f) ==
    /\ Confirmed(f, "lock")
    /\ draft' = [flow[f].snap EXCEPT !.lockId = flow[f].hash]
    /\ flow' = [flow EXCEPT ![f].pc = "verify_lock", ![f].snap = draft']
    /\ UNCHANGED <<page, chain, lost, faults>>

\* verifyHoodlockOnchainLock with the time of the lock's block.
VerifyLock(f) ==
    LET d == flow[f].snap
        i == d.lockId IN
    /\ At(f, "verify_lock")
    /\ \/ /\ unlockSatisfiesPolicy(d.policy, txs[i].unlock, txs[i].at)
          /\ SaveAndReturn(f, Verified(d, i))
       \/ /\ ~unlockSatisfiesPolicy(d.policy, txs[i].unlock, txs[i].at)
          /\ Goto(f, "idle", "none", d) /\ UNCHANGED draft
    /\ UNCHANGED <<chain, lost, faults>>

\* recoverHoodlockFromPending with a lock id: the lock is checked against the
\* default policy, counted from the preflight.
RecoverLockId(f) ==
    LET d == flow[f].snap
        i == d.lockId
        t == IF d.ref # NoTime THEN d.ref ELSE now IN
    /\ At(f, "recover_id")
    /\ \/ /\ unlockSatisfiesPolicy("lock_6m", txs[i].unlock, t)
          /\ SaveAndReturn(f, Verified(d, i))
       \/ /\ ~unlockSatisfiesPolicy("lock_6m", txs[i].unlock, t)
          /\ SaveAndFinish(f, [d EXCEPT !.lastError = "LOCK_VERIFY_FAILED"])
    /\ UNCHANGED <<chain, lost, faults>>

\* A slip: any receipt of the lock will do.
RecoverLockTxSlip(f) ==
    LET d == flow[f].snap IN
    /\ At(f, "recover_lock")
    /\ \/ NoReceipt(d.lockTx) /\ SaveAndFinish(f, d)
       \/ /\ Receipt(d.lockTx, "success") \/ Receipt(d.lockTx, "reverted")
          /\ SaveAndReturn(f, Verified(d, d.lockTx))
    /\ UNCHANGED <<chain, lost>>

\* recoverHoodlockFromPending with a lock hash only.  Whatever it answers but
\* "verified", the flow goes on to prepareHoodlockLock, which refuses a draft
\* that has a hash.
RecoverLockTx(f) ==
    LET d == flow[f].snap
        i == d.lockTx
        good == unlockSatisfiesPolicy(d.policy, txs[i].unlock, txs[i].at) IN
    /\ At(f, "recover_lock")
    /\ \/ NoReceipt(i) /\ SaveAndFinish(f, d)
       \/ /\ Receipt(i, "reverted")
          /\ SaveAndFinish(f, [d EXCEPT !.lastError = "TX_REVERTED"])
       \/ /\ Receipt(i, "success") /\ good
          /\ SaveAndReturn(f, Verified(d, i))
       \/ /\ Receipt(i, "success") /\ ~good
          /\ SaveAndFinish(f, [d EXCEPT !.lastError = "LOCK_DECODE_FAILED"])
    /\ UNCHANGED <<chain, lost>>

-----------------------------------------------------------------------------
(* Burn. *)

\* broadcastBurnDevSupply up to the wallet.
CheckBurn(f) ==
    LET d == flow[f].snap IN
    /\ At(f, "check_burn")
    /\ Goto(f, IF held >= 1 THEN "sign" ELSE "idle", "burn", d)
    /\ UNCHANGED <<draft, chain, lost, faults>>

\* The burn is mined and its exact Transfer found.
BurnConfirmed(f) ==
    /\ Confirmed(f, "burn")
    /\ SaveAndReturn(f, [flow[f].snap EXCEPT !.burnVerified = TRUE])
    /\ UNCHANGED <<chain, lost, faults>>

\* The flow ends and leaves its page in a phase that isLaunchTxBusy counts.
EndBusy(f) ==
    /\ flow' = [flow EXCEPT ![f] = IdleFlow]
    /\ page' = IF page.flow = f
               THEN [page EXCEPT !.flow = "none", !.busy = TRUE] ELSE page

\* A slip: a reverted burn keeps its hash.
RecoverBurnSlip(f) ==
    LET d == flow[f].snap IN
    /\ At(f, "recover_burn")
    /\ \/ NoReceipt(d.burnTx) /\ EndBusy(f) /\ UNCHANGED draft
       \/ /\ Receipt(d.burnTx, "reverted")
          /\ SaveAndReturn(f, [d EXCEPT !.lastError = "TX_REVERTED"])
       \/ /\ Receipt(d.burnTx, "success")
          /\ SaveAndReturn(f, [d EXCEPT !.burnVerified = TRUE,
                                        !.lastError = "none"])
    /\ UNCHANGED <<chain, lost>>

\* recoverBurnFromPending of a draft that has a burn hash: a reverted burn is
\* forgotten and tried again; one without a receipt leaves the page at
\* 'burning_dev_tokens'.
RecoverBurn(f) ==
    LET d == flow[f].snap IN
    /\ At(f, "recover_burn")
    /\ \/ NoReceipt(d.burnTx) /\ EndBusy(f) /\ UNCHANGED draft
       \/ /\ Receipt(d.burnTx, "reverted")
          /\ SaveAndFinish(f, [d EXCEPT !.burnTx = NoTx,
                                        !.lastError = "TX_REVERTED"])
       \/ /\ Receipt(d.burnTx, "success")
          /\ SaveAndReturn(f, [d EXCEPT !.burnVerified = TRUE,
                                        !.lastError = "none"])
    /\ UNCHANGED <<chain, lost>>

-----------------------------------------------------------------------------
(* The chain: one account's transactions are mined in nonce order. *)

Affordable(kind) ==
    CASE kind = "lock" -> held >= 1 /\ allowance >= 1
      [] kind = "burn" -> held >= 1
      [] OTHER -> TRUE

MineSuccess(i) ==
    LET kind == txs[i].kind IN
    /\ Affordable(kind)
    /\ held' = CASE kind = "launch" -> held + 1 + Reserve
                 [] kind \in {"lock", "burn"} -> held - 1
                 [] OTHER -> held
    /\ allowance' = CASE kind = "approve" -> 1
                      [] kind = "lock" -> allowance - 1
                      [] OTHER -> allowance
    /\ txs' = [txs EXCEPT ![i].status = "success", ![i].at = now]
    /\ UNCHANGED faults

MineReverted(i) ==
    /\ txs' = [txs EXCEPT ![i].status = "reverted", ![i].at = now]
    /\ IF Affordable(txs[i].kind) THEN Fault ELSE UNCHANGED faults
    /\ UNCHANGED <<held, allowance>>

Mine(i) ==
    /\ i \in DOMAIN txs /\ txs[i].status = "pending"
    /\ \A j \in 1 .. (i - 1) : txs[j].status # "pending"
    /\ MineSuccess(i) \/ MineReverted(i)
    /\ UNCHANGED <<draft, page, flow, now, lost>>

Tick ==
    /\ now < MaxTime /\ now' = now + 1
    /\ UNCHANGED <<draft, page, flow, txs, held, allowance, lost, faults>>

-----------------------------------------------------------------------------
\* The steps of a flow that the browser takes by itself.
FlowStep(f) ==
    \/ SaveHash(f) \/ ReceiptReverted(f)
    \/ Prepare(f) \/ LaunchConfirmed(f) \/ RecoverLaunch(f)
    \/ SearchLock(f) \/ Preflight(f) \/ ApprovalConfirmed(f)
    \/ SimulateLock(f) \/ LockConfirmed(f) \/ VerifyLock(f)
    \/ RecoverLockId(f) \/ RecoverLockTx(f)
    \/ CheckBurn(f) \/ BurnConfirmed(f) \/ RecoverBurn(f)

Next ==
    \/ \E f \in Flows :
          \/ Submit(f) \/ Resume(f) \/ Sign(f) \/ FlowStep(f)
          \/ Throw(f) \/ SignLost(f) \/ SaveHashMasked(f)
    \/ \E i \in TxId : Mine(i)
    \/ Remount \/ Reload \/ Tick

\* The browser runs its callbacks, the chain mines what was sent, and the
\* creator signs what the wallet shows and resumes an unfinished launch.
Fairness ==
    /\ \A f \in Flows : WF_vars(FlowStep(f)) /\ WF_vars(Sign(f))
    /\ WF_vars(\E f \in Flows : Resume(f))
    /\ \A i \in TxId : WF_vars(Mine(i))

Spec == Init /\ [][Next]_vars /\ Fairness

-----------------------------------------------------------------------------
(* Properties. *)

TypeOK ==
    /\ draft \in [policy : Policies \cup {"none"}, token : BOOLEAN,
                  launchTx : TxId \cup {NoTx}, approvalTx : TxId \cup {NoTx},
                  lockTx : TxId \cup {NoTx}, lockId : TxId \cup {NoTx},
                  burnTx : TxId \cup {NoTx},
                  ref : Times \cup {NoTime}, unlock : Nat \cup {NoTime},
                  lockVerified : BOOLEAN, burnVerified : BOOLEAN,
                  lastError : {"none", "TX_REVERTED", "LOCK_VERIFY_FAILED",
                               "LOCK_DECODE_FAILED"}]
    /\ page \in [ref : BOOLEAN, flow : Flows \cup {"none"}, busy : BOOLEAN]
    /\ \A k \in Kinds : draft[HashField[k]] # NoTx =>
          txs[draft[HashField[k]]].kind = k
    /\ \A f \in Flows : flow[f].kind \in Kinds \cup {"none"}
    /\ held \in Nat /\ allowance \in 0 .. 1 /\ now \in Times

\* Transactions of a kind that took effect or may still do.
Live(kind) == {i \in DOMAIN txs : txs[i].kind = kind /\ txs[i].status # "reverted"}

\* A draft's LaunchAndBuy is sent at most once, whatever is left, reloaded or
\* resumed and whenever: a mount offers a stored draft only with its hash.
\* Only the mount that sent it and was left without the hash, because the
\* wallet's answer or the write was lost, can send another; nothing in the code
\* stops that, it warns "Do not relaunch if a transaction was already submitted".
\* (assertPonsRelaunchAllowed, isLaunchCommitted.)
LaunchedOnce ==
    "answer" \notin lost =>
        Cardinality({i \in DOMAIN txs : txs[i].kind = "launch"}) <= 1

\* The allocation is settled at most once, by one lock or one burn, however
\* often the creator resumes, although the balance would cover a second one:
\* only a hash that no draft kept lets a second be signed.
\* (assertHoodlockLockNotCommitted, the burn hash check, and the hash saved
\* before the receipt is awaited.)
SettledOnce ==
    lost \cap {"lock", "burn", "draft"} = {} =>
        Cardinality(Live("lock") \cup Live("burn")) <= 1

\* What the draft calls verified is on chain: a lock of the exact allocation
\* that satisfies the draft's policy counted from its preflight, or the burn
\* that the draft's hash names; never both.
VerifiedOnChain ==
    /\ draft.lockVerified =>
          /\ draft.policy # "burn" /\ Live("burn") = {}
          /\ draft.lockId \in MatchingLocks(draft.policy, draft.ref)
    /\ draft.burnVerified =>
          /\ draft.policy = "burn" /\ Live("lock") = {}
          /\ txs[draft.burnTx].kind = "burn" /\ txs[draft.burnTx].status = "success"

\* Once the launch hash is stored, later flows never lose what the draft
\* knows: the launch, the token, the policy, a lock's hash and id, a verdict.
\* Only a burn hash is forgotten, and only when that burn reverted.
\* (The policy is "immutable once ponsTxHash exists".)
EvidenceKept ==
    [][isLaunchCommitted(draft) /\ draft' # BlankDraft =>
         /\ draft'.launchTx = draft.launchTx /\ draft'.policy = draft.policy
         /\ draft.token => draft'.token
         /\ draft.lockTx # NoTx => draft'.lockTx = draft.lockTx
         /\ draft.lockId # NoTx => draft'.lockId = draft.lockId
         /\ Settled(draft) => Settled(draft')
         /\ draft.burnTx \notin {NoTx, draft'.burnTx} =>
               draft'.burnTx = NoTx /\ txs[draft.burnTx].status = "reverted"]_draft

\* Why a launch that is resumed again and again may never be settled: its own
\* transaction reverted; the stored draft or a burn hash was lost; a lock hash
\* was lost and a second lock made (operator review); the lock transaction
\* reverted; the lock was mined after the safety margin; its id was stored
\* under a shorter policy than the one recovery assumes; or a burn that had no
\* receipt yet left the page busy, which only a reload ends.
Obstructed ==
    \/ draft.launchTx # NoTx /\ txs[draft.launchTx].status = "reverted"
    \/ lost \cap {"draft", "burn"} # {}
    \/ Cardinality(Live("lock")) > 1
    \/ draft.lockTx # NoTx /\ txs[draft.lockTx].status = "reverted"
    \/ \E i \in Live("lock") :
          /\ txs[i].status = "success"
          /\ ~unlockSatisfiesPolicy(draft.policy, txs[i].unlock, txs[i].at)
    \/ draft.lockId # NoTx /\ draft.policy # "lock_6m"
    \/ page.busy

\* Every other interruption is recovered from: once the launch hash is stored,
\* reloads, timeouts, rejected prompts, reverted approvals and reverted burns
\* leave a launch that resuming settles.
ResumeSettles == isLaunchCommitted(draft) ~> (Settled(draft) \/ Obstructed)

=============================================================================
