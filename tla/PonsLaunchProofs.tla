------------------------- MODULE PonsLaunchProofs -------------------------
(***************************************************************************)
(* Proofs, for any policies, durations, storage and number of flows, of    *)
(* what PonsLaunch keeps apart: the one LaunchAndBuy of a draft, and what  *)
(* a draft says of its transactions.  While the page is never left with    *)
(* its flow running there is at most one flow, its snapshot is the stored  *)
(* draft or ahead of it by a hash whose write was lost, and then the       *)
(* allocation is settled once and no evidence is lost.                     *)
(***************************************************************************)
EXTENDS PonsLaunch, FiniteSetTheorems, SequenceTheorems, TLAPS

Errors == {"none", "TX_REVERTED", "LOCK_VERIFY_FAILED", "LOCK_DECODE_FAILED"}

DraftType ==
    [policy : Policies \cup {"none"}, token : BOOLEAN,
     launchTx : TxId \cup {NoTx}, approvalTx : TxId \cup {NoTx},
     lockTx : TxId \cup {NoTx}, lockId : TxId \cup {NoTx},
     burnTx : TxId \cup {NoTx},
     ref : Times \cup {NoTime}, unlock : Nat \cup {NoTime},
     lockVerified : BOOLEAN, burnVerified : BOOLEAN, lastError : Errors]

Pcs == {"idle", "prepare", "sign", "save", "wait", "recover_launch", "search_lock",
        "preflight", "simulate_lock", "verify_lock", "recover_id", "recover_lock",
        "check_burn", "recover_burn"}

FlowType == [pc : Pcs, kind : Kinds \cup {"none"}, snap : DraftType,
             hash : TxId \cup {NoTx}]

TxType == [kind : Kinds, status : {"pending", "success", "reverted"},
           unlock : Nat \cup {NoTime}, at : Times \cup {NoTime}]

PageType == [ref : BOOLEAN, flow : Flows \cup {"none"}, busy : BOOLEAN]

Types ==
    /\ draft \in DraftType
    /\ page \in PageType
    /\ flow \in [Flows -> FlowType]
    /\ txs \in Seq(TxType) /\ Len(txs) <= MaxTx
    /\ held \in Nat /\ allowance \in 0..1 /\ now \in Times
    /\ lost \subseteq Kinds \cup {"draft", "answer"}

HasKind(i, k) == i \in DOMAIN txs /\ txs[i].kind = k
Succeeded(i) == txs[i].status = "success"

(* What a draft, the stored one or a snapshot, says of its transactions is *)
(* true, and a lock that it names keeps to its policy.                     *)
Evidence(d) ==
    /\ d.launchTx # NoTx => HasKind(d.launchTx, "launch") /\ d.policy \in Policies
    /\ d.token => d.launchTx # NoTx
    /\ d.approvalTx # NoTx => d.token /\ HasKind(d.approvalTx, "approve")
    /\ d.lockTx # NoTx =>
          /\ d.token /\ d.policy # "burn" /\ HasKind(d.lockTx, "lock")
          /\ d.ref # NoTime /\ txs[d.lockTx].unlock = proposeUnlock(d.policy, d.ref)
    /\ d.lockId # NoTx => d.lockVerified \/ (d.lockId = d.lockTx /\ Succeeded(d.lockId))
    /\ d.lockVerified =>
          d.token /\ d.policy # "burn" /\ d.lockId \in MatchingLocks(d.policy, d.ref)
    /\ d.burnTx # NoTx => d.token /\ d.policy = "burn" /\ HasKind(d.burnTx, "burn")
    /\ d.burnVerified => d.burnTx # NoTx /\ Succeeded(d.burnTx)

(* A draft whose allocation is about to be locked, or burned.              *)
Unlocked(d) == d.token /\ d.policy # "burn" /\ ~isLockCommitted(d)
Proposed(d) ==
    Unlocked(d) /\ d.ref # NoTime /\ d.unlock = proposeUnlock(d.policy, d.ref)
Unburned(d) == d.token /\ d.policy = "burn" /\ d.burnTx = NoTx /\ ~d.burnVerified

(* Where a flow may be, with its kind of transaction, hash and snapshot.   *)
Place(r) ==
    LET d == r.snap IN
    /\ r.pc = "idle" => r = IdleFlow
    /\ r.pc = "sign" =>
          /\ r.kind \in Kinds
          /\ r.kind \in {"approve", "lock"} => Proposed(d)
          /\ r.kind = "burn" => Unburned(d)
    /\ r.pc = "save" =>
          /\ HasKind(r.hash, r.kind)
          /\ r.kind \in {"approve", "lock"} => Proposed(d)
          /\ r.kind = "lock" => txs[r.hash].unlock = d.unlock
          /\ r.kind = "burn" => Unburned(d)
    /\ r.pc = "wait" =>
          /\ HasKind(r.hash, r.kind)
          /\ r.kind = "launch" => d.launchTx = r.hash /\ ~d.token
          /\ r.kind = "approve" => d.approvalTx = r.hash /\ Proposed(d)
          /\ r.kind = "lock" => d.lockTx = r.hash /\ d.lockId = NoTx /\ ~d.lockVerified
          /\ r.kind = "burn" => d.burnTx = r.hash /\ ~d.burnVerified
    /\ r.pc = "recover_launch" => d.launchTx # NoTx /\ ~d.token
    /\ r.pc \in {"search_lock", "preflight"} => Unlocked(d)
    /\ r.pc = "simulate_lock" => Proposed(d)
    /\ r.pc \in {"verify_lock", "recover_id"} =>
          d.lockId # NoTx /\ d.lockId = d.lockTx /\ Succeeded(d.lockId)
    /\ r.pc = "recover_lock" => d.lockTx # NoTx /\ d.lockId = NoTx /\ ~d.lockVerified
    /\ r.pc = "check_burn" => Unburned(d)
    /\ r.pc = "recover_burn" => d.burnTx # NoTx /\ ~d.burnVerified

Documents ==
    /\ Evidence(draft)
    /\ \A f \in Flows : Evidence(flow[f].snap) /\ Place(flow[f])

Alive(f) == flow[f].pc # "idle"
Prompting(f) == At(f, "prepare") \/ (At(f, "sign") /\ flow[f].kind = "launch")
Launching(f) == Prompting(f) \/ (At(f, "save") /\ flow[f].kind = "launch")

(* A flow that awaits a launch whose hash the stored draft does not hold.  *)
Masked(f) ==
    /\ At(f, "wait") /\ flow[f].kind = "launch" /\ "answer" \in lost
    /\ flow[f].snap.launchTx # NoTx /\ flow[f].snap.policy = draft.policy

(* Before the launch hash is stored only one flow runs, the launch, and    *)
(* only its own mount may repeat it: while nothing is signed, or after an  *)
(* answer was lost.                                                        *)
BeforeLaunch ==
    /\ draft = [BlankDraft EXCEPT !.policy = draft.policy]
    /\ \A f \in Flows : Alive(f) =>
          /\ (Launching(f) /\ flow[f].snap = draft) \/ Masked(f)
          /\ draft.policy \in Policies
          /\ page.ref => page.flow = f
    /\ \A f, g \in Flows : Alive(f) /\ Alive(g) => f = g
    /\ draft = BlankDraft /\ "draft" \notin lost => txs = <<>>
    /\ page.ref /\ page.flow = "none" /\ "answer" \notin lost => txs = <<>>

(* Afterwards no flow launches, and all work for the same policy.          *)
AfterLaunch ==
    \A f \in Flows : Alive(f) =>
        /\ ~Launching(f)
        /\ flow[f].snap.launchTx # NoTx /\ flow[f].snap.policy = draft.policy

(* A draft that is gone is not found again.                                *)
Gone ==
    /\ draft = BlankDraft /\ ~page.ref
    /\ \A f \in Flows : ~Alive(f)

LaunchOK ==
    /\ "answer" \notin lost =>
          /\ \A i \in DOMAIN txs : txs[i].kind = "launch" => i = 1
          /\ \A f \in Flows : Prompting(f) => txs = <<>>
    /\ IF isLaunchCommitted(draft) THEN AfterLaunch ELSE BeforeLaunch
    /\ "draft" \in lost => Gone
    /\ "draft" \notin lost => \A i \in DOMAIN txs :
          /\ txs[i].kind # "launch" => isLaunchCommitted(draft)
          /\ txs[i].kind = "lock" => draft.policy # "burn"
          /\ txs[i].kind = "burn" => draft.policy = "burn"

Inv == Types /\ Documents /\ LaunchOK

WithHash(d, k, h) == [d EXCEPT ![HashField[k]] = h, !.lastError = "none"]

(* A flow whose snapshot has a hash that the stored draft does not have.   *)
Ahead(f) ==
    LET k == flow[f].kind IN
    /\ At(f, "wait") /\ k \in lost
    /\ flow[f].snap = WithHash(draft, k, flow[f].hash)
    /\ k # "approve" => draft[HashField[k]] = NoTx

(* While no page is left with its flow running, that flow is the only one. *)
Alone == \A f \in Flows : Alive(f) =>
            page.flow = f /\ (flow[f].snap = draft \/ Ahead(f))

(* Every lock and burn that may take effect is named by the draft, or the  *)
(* flow that signed it is about to store its hash.                         *)
Stored(kind, i) ==
    \/ i = draft[HashField[kind]]
    \/ \E f \in Flows : At(f, "save") /\ flow[f].kind = kind /\ flow[f].hash = i

Accounted ==
    \A kind \in {"lock", "burn"} :
        lost \cap {kind, "draft"} = {} => \A i \in Live(kind) : Stored(kind, i)

OneMount == Alone /\ Accounted

-----------------------------------------------------------------------------
(* Drafts and their fields. *)

(* The fields of the hashes are four fields of their own.                  *)
LEMMA HashFields ==
    /\ HashField["launch"] = "launchTx" /\ HashField["approve"] = "approvalTx"
    /\ HashField["lock"] = "lockTx" /\ HashField["burn"] = "burnTx"
BY DEF HashField

(* Storing the hash of a transaction sets the field of its kind.           *)
LEMMA HashStored ==
    ASSUME NEW d \in DraftType, NEW k \in Kinds, NEW h \in TxId
    PROVE  LET e == WithHash(d, k, h)
           IN /\ e \in DraftType
              /\ e[HashField[k]] = h
              /\ k # "launch" => e.launchTx = d.launchTx
              /\ k # "approve" => e.approvalTx = d.approvalTx
              /\ k # "lock" => e.lockTx = d.lockTx
              /\ k # "burn" => e.burnTx = d.burnTx
              /\ e.policy = d.policy /\ e.token = d.token /\ e.ref = d.ref
              /\ e.unlock = d.unlock /\ e.lockId = d.lockId
              /\ e.lockVerified = d.lockVerified /\ e.burnVerified = d.burnVerified
<1>1. CASE k = "launch"
  BY ZenonT(30), <1>1, HashFields DEF WithHash, DraftType, Errors, HashField
<1>2. CASE k = "approve"
  BY ZenonT(30), <1>2, HashFields DEF WithHash, DraftType, Errors, HashField
<1>3. CASE k = "lock"
  BY ZenonT(30), <1>3, HashFields DEF WithHash, DraftType, Errors, HashField
<1>4. CASE k = "burn"
  BY ZenonT(30), <1>4, HashFields DEF WithHash, DraftType, Errors, HashField
<1>. QED BY <1>1, <1>2, <1>3, <1>4 DEF Kinds

(* The unlock time that a preflight proposes is a time.                    *)
LEMMA ProposedType ==
    ASSUME NEW p \in Policies, p # "burn", NEW t \in Times
    PROVE  proposeUnlock(p, t) \in Nat
BY PonsAssumption DEF proposeUnlock, LockPolicies, Times

(* Evidence is of the transactions that exist, as they were signed.        *)
Grows ==
    /\ DOMAIN txs \subseteq DOMAIN txs'
    /\ \A i \in DOMAIN txs :
          /\ txs'[i].kind = txs[i].kind /\ txs'[i].unlock = txs[i].unlock
          /\ Succeeded(i) => Succeeded(i)'

(* What a draft says stays true while transactions are signed and mined.   *)
LEMMA EvidenceStays ==
    ASSUME NEW d \in DraftType, Evidence(d), Grows
    PROVE  Evidence(d)'
BY DEF Evidence, Grows, HasKind, Succeeded, MatchingLocks, unlockSatisfiesPolicy, proposeUnlock

-----------------------------------------------------------------------------
(* Where the flow goes. *)

Quiet(r) == r.pc \notin {"prepare", "save"} /\ ~(r.pc = "sign" /\ r.kind = "launch")

(* The state of a flow that goes on at pc with the snapshot w.             *)
GoneTo(pc, kind, w) ==
    IF pc = "idle" THEN IdleFlow
    ELSE [pc |-> pc, kind |-> kind, snap |-> w, hash |-> NoTx]

(* The blank draft and the flow that does not run have their types.        *)
LEMMA BlankType == BlankDraft \in DraftType /\ IdleFlow \in FlowType
BY DEF BlankDraft, IdleFlow, DraftType, FlowType, Errors, Pcs, NoTx, NoTime

(* They say nothing of any transaction.                                    *)
LEMMA BlankEvidence == Evidence(BlankDraft) /\ Evidence(IdleFlow.snap) /\ Place(IdleFlow)
BY DEF BlankDraft, IdleFlow, Evidence, Place, NoTx, NoTime

(* A flow that goes on has its type.                                       *)
LEMMA GoneToType ==
    ASSUME NEW pc \in Pcs, NEW kind \in Kinds \cup {"none"}, NEW w \in DraftType
    PROVE  GoneTo(pc, kind, w) \in FlowType
BY BlankType DEF GoneTo, FlowType, NoTx

(* finishHoodlockAndVerify and finishBurnAndVerify begin where the draft   *)
(* lets them: no second lock or burn.                                      *)
LEMMA FinishPlace ==
    ASSUME NEW w \in DraftType, Evidence(w)
    PROVE  LET r == GoneTo(FinishStep(w), "none", w)
           IN r \in FlowType /\ Place(r) /\ Quiet(r) /\ (r.pc # "idle" => r.snap = w)
<1>1. FinishStep(w) \in {"idle", "recover_burn", "check_burn", "search_lock"}
  BY DEF FinishStep
<1>2. CASE FinishStep(w) = "idle"
  BY <1>2, BlankType, BlankEvidence DEF GoneTo, Quiet, IdleFlow
<1>3. CASE FinishStep(w) = "recover_burn"
  BY <1>3 DEF GoneTo, Quiet, Place, FinishStep, FlowType, Pcs, NoTx, Evidence
<1>4. CASE FinishStep(w) = "check_burn"
  BY <1>4 DEF GoneTo, Quiet, Place, FinishStep, FlowType, Pcs, NoTx, Evidence, Unburned
<1>5. CASE FinishStep(w) = "search_lock"
  BY <1>5 DEF GoneTo, Quiet, Place, FinishStep, FlowType, Pcs, NoTx, Evidence, Unlocked
<1>. QED BY <1>1, <1>2, <1>3, <1>4, <1>5

(* A resumed flow begins with the recovery that the draft calls for.       *)
LEMMA ResumePlace ==
    ASSUME NEW w \in DraftType, Evidence(w)
    PROVE  LET r == GoneTo(ResumeStep(w), "none", w)
           IN r \in FlowType /\ Place(r) /\ Quiet(r) /\ (r.pc # "idle" => r.snap = w)
<1>1. CASE w.launchTx # NoTx /\ ~w.token
  BY <1>1 DEF ResumeStep, GoneTo, Quiet, Place, FlowType, Pcs, NoTx
<1>2. CASE ~(w.launchTx # NoTx /\ ~w.token) /\ w.token /\ w.policy # "burn" /\ isLockCommitted(w)
  <2>1. CASE w.lockVerified
    BY <1>2, <2>1, BlankType, BlankEvidence DEF ResumeStep, GoneTo, Quiet, IdleFlow
  <2>2. CASE ~w.lockVerified /\ w.lockId # NoTx
    BY <1>2, <2>2 DEF ResumeStep, GoneTo, Quiet, Place, FlowType, Pcs, NoTx, Evidence
  <2>3. CASE ~w.lockVerified /\ w.lockId = NoTx
    BY <1>2, <2>3 DEF ResumeStep, GoneTo, Quiet, Place, FlowType, Pcs, NoTx, isLockCommitted
  <2>. QED BY <2>1, <2>2, <2>3
<1>3. CASE ~(w.launchTx # NoTx /\ ~w.token) /\ ~(w.token /\ w.policy # "burn" /\ isLockCommitted(w))
  <2>1. ResumeStep(w) = FinishStep(w)
    BY <1>3 DEF ResumeStep
  <2>. QED BY <2>1, FinishPlace
<1>. QED BY <1>1, <1>2, <1>3

-----------------------------------------------------------------------------
(* A step of a flow whose launch is stored.                                *)

(* What a later draft keeps of an earlier one.                             *)
Keeps(d, e) ==
    /\ e.launchTx = d.launchTx /\ e.policy = d.policy
    /\ d.token => e.token
    /\ d.lockTx # NoTx => e.lockTx = d.lockTx
    /\ d.lockId # NoTx => e.lockId = d.lockId
    /\ Settled(d) => Settled(e)
    /\ d.burnTx \notin {NoTx, e.burnTx} => e.burnTx = NoTx /\ txs[d.burnTx].status = "reverted"

(* The flow keeps a hash that the stored draft does not take.              *)
Hid(f, w, r) ==
    /\ draft' = draft /\ At(f, "save") /\ flow[f].kind \in Kinds \ {"launch"}
    /\ w = WithHash(flow[f].snap, flow[f].kind, flow[f].hash)
    /\ r = [flow[f] EXCEPT !.pc = "wait", !.snap = w]
    /\ lost' = lost \cup {flow[f].kind}

(* The page of a flow that ends has none, and may be left busy.            *)
Left(f) == page' \in {[page EXCEPT !.flow = "none"],
                      [page EXCEPT !.flow = "none", !.busy = TRUE]}

(* The flow goes on in the state r with the snapshot w, which it stored or *)
(* already had.                                                            *)
Worked(f, w, r) ==
    /\ flow' = [flow EXCEPT ![f] = r]
    /\ IF r.pc = "idle" /\ page.flow = f THEN Left(f) ELSE page' = page
    /\ \/ draft' = w /\ lost' = lost
       \/ /\ draft' = draft /\ w = flow[f].snap /\ lost' = lost
          /\ At(f, "wait") => r.pc = "idle"
       \/ Hid(f, w, r)
    /\ UNCHANGED chain
    /\ Alive(f) /\ Keeps(flow[f].snap, w) /\ Evidence(w)
    /\ Place(r) /\ Quiet(r) /\ (r.pc # "idle" => r.snap = w)
    /\ At(f, "save") => w[HashField[flow[f].kind]] = flow[f].hash

Works(f) == \E w \in DraftType, r \in FlowType : Worked(f, w, r)

(* A flow that goes on to a place its snapshot allows.                     *)
LEMMA GotoWorks ==
    ASSUME NEW f \in Flows, NEW w \in DraftType, NEW pc \in Pcs, NEW kind \in Kinds \cup {"none"},
           Types, Goto(f, pc, kind, w),
           \/ draft' = w
           \/ draft' = draft /\ w = flow[f].snap /\ (At(f, "wait") => pc = "idle"),
           UNCHANGED <<chain, lost>>, Alive(f), ~At(f, "save"),
           Keeps(flow[f].snap, w), Evidence(w),
           Place(GoneTo(pc, kind, w)), Quiet(GoneTo(pc, kind, w))
    PROVE  Works(f)
<1>1. GoneTo(pc, kind, w) \in FlowType
  BY GoneToType
<1>2. /\ GoneTo(pc, kind, w).pc = pc
      /\ pc # "idle" => GoneTo(pc, kind, w).snap = w
  BY DEF GoneTo, IdleFlow
<1>3. flow' = [flow EXCEPT ![f] = GoneTo(pc, kind, w)]
  BY DEF Goto, GoneTo
<1>4. Worked(f, w, GoneTo(pc, kind, w))
  BY <1>2, <1>3 DEF Worked, Goto, Left
<1>. QED BY <1>1, <1>4 DEF Works

(* The flow saves a draft and returns, or finishes from there.             *)
LEMMA ReturnWorks ==
    ASSUME NEW f \in Flows, NEW w \in DraftType, Types, SaveAndReturn(f, w),
           UNCHANGED <<chain, lost>>, Alive(f), ~At(f, "save"),
           Keeps(flow[f].snap, w), Evidence(w)
    PROVE  Works(f)
<1>1. Place(GoneTo("idle", "none", w)) /\ Quiet(GoneTo("idle", "none", w))
  BY BlankEvidence DEF GoneTo, Quiet, IdleFlow
<1>. QED BY <1>1, GotoWorks DEF SaveAndReturn, Pcs

(* The same for SaveAndFinish, which goes on to the place FinishPlace      *)
(* allows.                                                                 *)
LEMMA FinishWorks ==
    ASSUME NEW f \in Flows, NEW w \in DraftType, Types, SaveAndFinish(f, w),
           UNCHANGED <<chain, lost>>, Alive(f), ~At(f, "save"),
           Keeps(flow[f].snap, w), Evidence(w)
    PROVE  Works(f)
<1>1. FinishStep(w) \in Pcs
  BY DEF FinishStep, Pcs
<1>. QED BY <1>1, FinishPlace, GotoWorks DEF SaveAndFinish

(* The flow ends and saves nothing.                                        *)
LEMMA EndWorks ==
    ASSUME NEW f \in Flows, NEW d \in DraftType, Types, Documents, Goto(f, "idle", "none", d),
           UNCHANGED <<draft, chain, lost>>, Alive(f), ~At(f, "save")
    PROVE  Works(f)
<1>1. Goto(f, "idle", "none", flow[f].snap)
  BY DEF Goto
<1>2. flow[f].snap \in DraftType /\ Evidence(flow[f].snap)
  BY DEF Types, FlowType, Documents
<1>3. Keeps(flow[f].snap, flow[f].snap)
  BY DEF Keeps
<1>4. Place(GoneTo("idle", "none", flow[f].snap)) /\ Quiet(GoneTo("idle", "none", flow[f].snap))
  BY BlankEvidence DEF GoneTo, Quiet, IdleFlow
<1>. QED BY <1>1, <1>2, <1>3, <1>4, GotoWorks DEF Pcs

-----------------------------------------------------------------------------
(* The flow's actions. *)

(* A flow whose launch is stored, its snapshot and what it says.           *)
LEMMA SnapFacts ==
    ASSUME NEW f \in Flows, Types, Documents
    PROVE  /\ flow[f] \in FlowType /\ flow[f].snap \in DraftType
           /\ flow[f].kind \in Kinds \cup {"none"} /\ flow[f].hash \in TxId \cup {NoTx}
           /\ Evidence(flow[f].snap) /\ Place(flow[f])
BY DEF Types, FlowType, Documents

(* A transaction has its type.                                             *)
LEMMA KindFacts ==
    ASSUME Types, NEW i, NEW k, HasKind(i, k)
    PROVE  /\ i \in TxId /\ i # NoTx /\ k \in Kinds
           /\ txs[i] \in TxType /\ i \in 1..Len(txs)
<1>1. /\ txs \in Seq(TxType) /\ Len(txs) <= MaxTx
      /\ i \in DOMAIN txs /\ txs[i].kind = k
  BY DEF Types, HasKind
<1>2. Len(txs) \in Nat /\ DOMAIN txs = 1..Len(txs)
  BY <1>1, LenProperties
<1>3. txs[i] \in TxType /\ i \in 1..Len(txs)
  BY <1>1, <1>2, ElementOfSeq
<1>4. k \in Kinds
  BY <1>1, <1>3 DEF TxType
<1>. QED BY <1>1, <1>2, <1>3, <1>4, PonsAssumption DEF TxId, NoTx

(* SaveHash and SaveHashMasked: the hash kept is that of the transaction   *)
(* just signed.                                                            *)
LEMMA SaveHashWorks ==
    ASSUME NEW f \in Flows, Types, Documents, SaveHash(f) \/ SaveHashMasked(f),
           flow[f].kind # "launch"
    PROVE  Works(f)
<1> DEFINE d == flow[f].snap
           k == flow[f].kind
           h == flow[f].hash
           w == WithHash(d, k, h)
           r == [flow[f] EXCEPT !.pc = "wait", !.snap = w]
<1>1. /\ At(f, "save")
      /\ flow' = [flow EXCEPT ![f].pc = "wait", ![f].snap = w]
      /\ UNCHANGED <<page, chain>>
      /\ \/ draft' = w /\ lost' = lost
         \/ draft' = draft /\ lost' = lost \cup {k}
  BY DEF SaveHash, SaveHashMasked, Hashed, WithHash, NotKept
<1>2. /\ d \in DraftType /\ Evidence(d) /\ Place(flow[f]) /\ flow[f] \in FlowType
  BY SnapFacts
<1>3. HasKind(h, k) /\ h \in TxId /\ k \in Kinds /\ h # NoTx
  <2>1. HasKind(h, k)
    BY <1>1, <1>2 DEF Place, At
  <2>. QED BY <2>1, KindFacts
<1>4. /\ w \in DraftType /\ w[HashField[k]] = h
      /\ w.launchTx = d.launchTx
      /\ k # "approve" => w.approvalTx = d.approvalTx
      /\ k # "lock" => w.lockTx = d.lockTx
      /\ k # "burn" => w.burnTx = d.burnTx
      /\ w.policy = d.policy /\ w.token = d.token /\ w.ref = d.ref
      /\ w.unlock = d.unlock /\ w.lockId = d.lockId
      /\ w.lockVerified = d.lockVerified /\ w.burnVerified = d.burnVerified
  BY <1>2, <1>3, HashStored
<1>5. k = "approve" => w.approvalTx = h
  BY <1>4, HashFields
<1>6. k = "lock" => w.lockTx = h
  BY <1>4, HashFields
<1>7. k = "burn" => w.burnTx = h
  BY <1>4, HashFields
<1>8. r \in FlowType /\ r.pc = "wait" /\ r.kind = k /\ r.hash = h /\ r.snap = w
  BY <1>2, <1>4 DEF FlowType, Pcs
<1>9. flow' = [flow EXCEPT ![f] = r]
  BY <1>1
<1> HIDE DEF w, r
<1>10. k \in {"approve", "lock"} => Proposed(d)
  BY <1>1, <1>2 DEF Place, At
<1>11. k = "burn" => Unburned(d)
  BY <1>1, <1>2 DEF Place, At
<1>12. k = "lock" => txs[h].unlock = d.unlock
  BY <1>1, <1>2 DEF Place, At
<1>13. Keeps(d, w)
  BY <1>4, <1>6, <1>7, <1>10, <1>11 DEF Keeps, Settled, Proposed, Unlocked, Unburned, isLockCommitted
<1>14. Evidence(w)
  <2>1. CASE k = "approve"
    BY <2>1, <1>2, <1>3, <1>4, <1>5, <1>10 DEF Evidence, Proposed, Unlocked
  <2>2. CASE k = "lock"
    BY <2>2, <1>2, <1>3, <1>4, <1>6, <1>10, <1>12 DEF Evidence, Proposed, Unlocked, isLockCommitted
  <2>3. CASE k = "burn"
    BY <2>3, <1>2, <1>3, <1>4, <1>7, <1>11 DEF Evidence, Unburned
  <2>. QED BY <2>1, <2>2, <2>3, <1>3 DEF Kinds
<1>15. Place(r) /\ Quiet(r)
  <2>1. CASE k = "approve"
    BY <2>1, <1>3, <1>4, <1>5, <1>8, <1>10 DEF Place, Quiet, Proposed, Unlocked, isLockCommitted
  <2>2. CASE k = "lock"
    BY <2>2, <1>3, <1>4, <1>6, <1>8, <1>10 DEF Place, Quiet, Proposed, Unlocked, isLockCommitted
  <2>3. CASE k = "burn"
    BY <2>3, <1>3, <1>4, <1>7, <1>8, <1>11 DEF Place, Quiet, Unburned
  <2>. QED BY <2>1, <2>2, <2>3, <1>3 DEF Kinds
<1>16. r = [flow[f] EXCEPT !.pc = "wait", !.snap = w] /\ w = WithHash(d, k, h)
  BY DEF r, w
<1>17. lost' # lost \/ draft' # w => Hid(f, w, r)
  BY <1>1, <1>3, <1>16 DEF Hid
<1>18. Worked(f, w, r)
  BY <1>1, <1>4, <1>8, <1>9, <1>13, <1>14, <1>15, <1>17 DEF Worked, Alive, At
<1>. QED BY <1>4, <1>8, <1>18 DEF Works

(* Throw saves nothing.                                                    *)
LEMMA ThrowWorks ==
    ASSUME NEW f \in Flows, Types, Documents, Throw(f)
    PROVE  Works(f)
BY BlankType, EndWorks DEF Throw, Alive, At

(* ReceiptReverted changes the error only.                                 *)
LEMMA RevertedWorks ==
    ASSUME NEW f \in Flows, Types, Documents, ReceiptReverted(f)
    PROVE  Works(f)
<1> DEFINE d == flow[f].snap
           w == [d EXCEPT !.lastError = "TX_REVERTED"]
<1>1. d \in DraftType /\ Evidence(d)
  BY SnapFacts
<1>2. w \in DraftType
  BY <1>1 DEF DraftType, Errors
<1>3. Evidence(w) /\ Keeps(d, w)
  BY <1>1 DEF DraftType, Evidence, Keeps, Settled, HasKind
<1>. QED BY <1>2, <1>3, ReturnWorks DEF ReceiptReverted, At, Alive

(* LaunchConfirmed adds the token to a stored launch.                      *)
LEMMA LaunchConfirmedWorks ==
    ASSUME NEW f \in Flows, Types, Documents, LaunchConfirmed(f)
    PROVE  Works(f)
<1> DEFINE d == flow[f].snap
           w == [d EXCEPT !.token = TRUE]
<1>1. d \in DraftType /\ Evidence(d) /\ Place(flow[f])
  BY SnapFacts
<1>2. At(f, "wait") /\ flow[f].kind = "launch" /\ SaveAndFinish(f, w)
  BY DEF LaunchConfirmed, Confirmed
<1>3. d.launchTx # NoTx
  BY <1>1, <1>2 DEF Place, At, HasKind, Types, NoTx
<1>4. w \in DraftType
  BY <1>1 DEF DraftType
<1>5. Evidence(w) /\ Keeps(d, w)
  BY <1>1, <1>3 DEF DraftType, Evidence, Keeps, Settled, HasKind
<1>. QED BY <1>2, <1>4, <1>5, FinishWorks DEF LaunchConfirmed, At, Alive

(* RecoverLaunch adds the token, or an error, to a stored launch.          *)
LEMMA RecoverLaunchWorks ==
    ASSUME NEW f \in Flows, Types, Documents, RecoverLaunch(f)
    PROVE  Works(f)
<1> DEFINE d == flow[f].snap
           v == [d EXCEPT !.lastError = "TX_REVERTED"]
           w == [d EXCEPT !.token = TRUE, !.lastError = "none"]
<1>1. d \in DraftType /\ Evidence(d) /\ Place(flow[f])
  BY SnapFacts
<1>2. At(f, "recover_launch") /\ UNCHANGED <<chain, lost>>
  BY DEF RecoverLaunch
<1>3. d.launchTx # NoTx /\ Alive(f) /\ ~At(f, "save")
  BY <1>1, <1>2 DEF Place, At, Alive
<1>4. CASE SaveAndReturn(f, d)
  BY <1>1, <1>2, <1>3, <1>4, ReturnWorks DEF Keeps
<1>5. CASE SaveAndReturn(f, v)
  <2>1. v \in DraftType /\ Evidence(v) /\ Keeps(d, v)
    BY <1>1 DEF DraftType, Errors, Evidence, Keeps, Settled, HasKind
  <2>. QED BY <2>1, <1>2, <1>3, <1>5, ReturnWorks
<1>6. CASE SaveAndFinish(f, w)
  <2>1. w \in DraftType /\ Evidence(w) /\ Keeps(d, w)
    <3>1. w \in DraftType
      BY <1>1 DEF DraftType, Errors
    <3>2. Evidence(w)
      BY <1>1, <1>3 DEF DraftType, Evidence, HasKind
    <3>3. Keeps(d, w)
      BY <1>1 DEF DraftType, Keeps, Settled
    <3>. QED BY <3>1, <3>2, <3>3
  <2>. QED BY <2>1, <1>2, <1>3, <1>6, FinishWorks
<1>. QED BY <1>4, <1>5, <1>6 DEF RecoverLaunch


(* Searching finds no lock, several, or the one that settles the draft.    *)
LEMMA VerifiedLock ==
    ASSUME NEW d \in DraftType, NEW i, Types, Evidence(d), d.token, d.policy # "burn",
           d.lockId \in {NoTx, i}, i \in MatchingLocks(d.policy, d.ref)
    PROVE  LET w == Verified(d, i) IN w \in DraftType /\ Evidence(w) /\ Keeps(d, w)
<1> DEFINE w == Verified(d, i)
<1>1. HasKind(i, "lock") /\ Succeeded(i)
  BY DEF MatchingLocks, HasKind, Succeeded
<1>2. i \in TxId /\ i # NoTx /\ txs[i] \in TxType
  BY <1>1, KindFacts
<1>3. w \in DraftType
  BY <1>2 DEF Verified, DraftType, TxType, Errors
<1>4. /\ w.policy = d.policy /\ w.token = d.token /\ w.launchTx = d.launchTx
      /\ w.approvalTx = d.approvalTx /\ w.lockTx = d.lockTx /\ w.ref = d.ref
      /\ w.burnTx = d.burnTx /\ w.burnVerified = d.burnVerified
      /\ w.lockId = i /\ w.lockVerified = TRUE
  BY DEF Verified, DraftType
<1> HIDE DEF w
<1>5. Evidence(w)
  BY <1>4 DEF Evidence
<1>6. Keeps(d, w)
  BY <1>4 DEF Keeps, Settled
<1>. QED BY <1>3, <1>5, <1>6 DEF w

(* A lock that the draft names satisfies its policy, however it is checked.*)
LEMMA NamedLockMatches ==
    ASSUME NEW d \in DraftType, Types, Evidence(d), d.lockTx # NoTx, Succeeded(d.lockTx)
    PROVE  /\ d.lockTx \in MatchingLocks(d.policy, d.ref)
           /\ d.token /\ d.policy # "burn"
<1>1. /\ d.token /\ d.policy # "burn" /\ HasKind(d.lockTx, "lock")
      /\ d.ref # NoTime /\ txs[d.lockTx].unlock = proposeUnlock(d.policy, d.ref)
      /\ d.policy \in Policies
  BY DEF Evidence
<1>2. Duration[d.policy] \in Nat /\ Margin \in Nat
  BY <1>1, PonsAssumption DEF LockPolicies
<1>3. d.ref \in Nat
  BY <1>1 DEF DraftType, Times
<1>4. unlockSatisfiesPolicy(d.policy, txs[d.lockTx].unlock, d.ref)
  BY <1>1, <1>2, <1>3 DEF unlockSatisfiesPolicy, proposeUnlock
<1>. QED BY <1>1, <1>4 DEF MatchingLocks, HasKind, Succeeded

(* SearchLock takes a lock that satisfies the draft's own policy.          *)
LEMMA SearchLockWorks ==
    ASSUME NEW f \in Flows, Types, Documents, SearchLock(f)
    PROVE  Works(f)
<1> DEFINE d == flow[f].snap
           t == IF d.ref # NoTime THEN d.ref ELSE now
           found == MatchingLocks(d.policy, t)
           w == [d EXCEPT !.lastError = "none"]
<1>1. d \in DraftType /\ Evidence(d) /\ Place(flow[f])
  BY SnapFacts
<1>2. At(f, "search_lock") /\ UNCHANGED <<chain, lost>>
  BY DEF SearchLock
<1>3. Unlocked(d) /\ Alive(f) /\ ~At(f, "save")
  BY <1>1, <1>2 DEF Place, At, Alive
<1>4. CASE Goto(f, "idle", "none", d) /\ UNCHANGED draft
  BY <1>1, <1>2, <1>3, <1>4, EndWorks
<1>5. ASSUME NEW i \in found, SaveAndReturn(f, Verified(d, i))
      PROVE  Works(f)
  <2>1. d.policy \in Policies /\ d.policy # "burn"
    BY <1>1, <1>3 DEF Evidence, Unlocked
  <2>2. Duration[d.policy] \in Nat
    BY <2>1, PonsAssumption DEF LockPolicies
  <2>3. HasKind(i, "lock") /\ Succeeded(i) /\ unlockSatisfiesPolicy(d.policy, txs[i].unlock, t)
    BY DEF MatchingLocks, HasKind, Succeeded
  <2>4. txs[i].unlock \in Int
    BY <2>3, KindFacts DEF TxType, NoTime
  <2>5. t \in Int /\ d.ref \in Int /\ d.ref <= t
    BY <1>1 DEF DraftType, Times, NoTime, Types
  <2>6. i \in MatchingLocks(d.policy, d.ref)
    BY <2>2, <2>3, <2>4, <2>5 DEF MatchingLocks, HasKind, Succeeded, unlockSatisfiesPolicy
  <2>7. d.token /\ d.policy # "burn" /\ d.lockId = NoTx /\ ~d.lockVerified
    BY <1>3 DEF Unlocked, isLockCommitted
  <2>8. LET v == Verified(d, i) IN v \in DraftType /\ Evidence(v) /\ Keeps(d, v)
    BY <1>1, <2>6, <2>7, VerifiedLock
  <2>. QED BY <1>2, <1>3, <1>5, <2>8, ReturnWorks
<1>6. CASE draft' = w /\ Goto(f, "preflight", "none", draft')
  <2>1. w \in DraftType /\ Evidence(w) /\ Keeps(d, w)
    BY <1>1 DEF DraftType, Errors, Evidence, Keeps, Settled, HasKind
  <2>2. Unlocked(w)
    BY <1>1, <1>3 DEF DraftType, Unlocked, isLockCommitted
  <2>3. Place(GoneTo("preflight", "none", w)) /\ Quiet(GoneTo("preflight", "none", w))
    BY <2>2 DEF GoneTo, Place, Quiet
  <2>. QED BY <1>2, <1>3, <1>6, <2>1, <2>3, GotoWorks DEF Pcs
<1>. QED BY <1>4, <1>5, <1>6 DEF SearchLock

(* Preflight proposes an unlock time only where no lock is named.          *)
LEMMA PreflightWorks ==
    ASSUME NEW f \in Flows, Types, Documents, Preflight(f)
    PROVE  Works(f)
<1> DEFINE d == flow[f].snap
           u == proposeUnlock(d.policy, now)
           w == [d EXCEPT !.ref = now, !.unlock = u]
<1>1. d \in DraftType /\ Evidence(d) /\ Place(flow[f])
  BY SnapFacts
<1>2. At(f, "preflight") /\ UNCHANGED <<chain, lost>>
  BY DEF Preflight
<1>3. Unlocked(d) /\ Alive(f) /\ ~At(f, "save")
  BY <1>1, <1>2 DEF Place, At, Alive
<1>4. d.policy \in Policies /\ d.policy # "burn" /\ now \in Times /\ now # NoTime
  BY <1>1, <1>3 DEF Evidence, Unlocked, Types, Times, NoTime
<1>5. u \in Nat
  BY <1>4, ProposedType
<1> HIDE DEF u
<1>6. w \in DraftType
  BY <1>1, <1>4, <1>5 DEF DraftType
<1>7. /\ w.policy = d.policy /\ w.token = d.token /\ w.launchTx = d.launchTx
      /\ w.approvalTx = d.approvalTx /\ w.lockTx = d.lockTx /\ w.ref = now
      /\ w.burnTx = d.burnTx /\ w.burnVerified = d.burnVerified
      /\ w.lockId = d.lockId /\ w.lockVerified = d.lockVerified /\ w.unlock = u
  BY <1>1 DEF DraftType
<1>8. CASE Goto(f, "idle", "none", w) /\ UNCHANGED draft
  BY <1>2, <1>3, <1>6, <1>8, EndWorks
<1>9. CASE draft' = w /\ (Goto(f, "sign", "approve", w) \/ Goto(f, "simulate_lock", "none", w))
  <2> HIDE DEF w
  <2>1. Evidence(w) /\ Keeps(d, w)
    BY <1>1, <1>3, <1>7 DEF Evidence, Keeps, Settled, Unlocked, isLockCommitted
  <2>2. Proposed(w)
    BY <1>3, <1>4, <1>7 DEF Proposed, Unlocked, isLockCommitted, u
  <2>3. Place(GoneTo("sign", "approve", w)) /\ Quiet(GoneTo("sign", "approve", w))
    BY <2>2 DEF GoneTo, Place, Quiet, Kinds
  <2>4. Place(GoneTo("simulate_lock", "none", w)) /\ Quiet(GoneTo("simulate_lock", "none", w))
    BY <2>2 DEF GoneTo, Place, Quiet
  <2>. QED BY <1>2, <1>3, <1>6, <1>9, <2>1, <2>3, <2>4, GotoWorks DEF Pcs, Kinds
<1>. QED BY <1>8, <1>9 DEF Preflight, u


(* ApprovalConfirmed leaves the draft ready to lock.                       *)
LEMMA ApprovalWorks ==
    ASSUME NEW f \in Flows, Types, Documents, ApprovalConfirmed(f)
    PROVE  Works(f)
<1> DEFINE d == flow[f].snap
<1>1. d \in DraftType /\ Evidence(d) /\ Place(flow[f])
  BY SnapFacts
<1>2. /\ At(f, "wait") /\ flow[f].kind = "approve" /\ draft' = d
      /\ UNCHANGED <<chain, lost>>
  BY DEF ApprovalConfirmed, Confirmed
<1>3. Proposed(d) /\ Alive(f) /\ ~At(f, "save") /\ Keeps(d, d)
  BY <1>1, <1>2 DEF Place, At, Alive, Keeps
<1>4. Place(GoneTo("idle", "none", d)) /\ Quiet(GoneTo("idle", "none", d))
  BY BlankEvidence DEF GoneTo, Quiet, IdleFlow
<1>5. Place(GoneTo("simulate_lock", "none", d)) /\ Quiet(GoneTo("simulate_lock", "none", d))
  BY <1>3 DEF GoneTo, Place, Quiet
<1>6. Goto(f, "idle", "none", d) \/ Goto(f, "simulate_lock", "none", d)
  BY <1>2 DEF ApprovalConfirmed
<1>. QED BY <1>1, <1>2, <1>3, <1>4, <1>5, <1>6, GotoWorks DEF Pcs

(* SimulateLock leaves the draft ready to lock.                            *)
LEMMA SimulateWorks ==
    ASSUME NEW f \in Flows, Types, Documents, SimulateLock(f)
    PROVE  Works(f)
<1> DEFINE d == flow[f].snap
<1>1. d \in DraftType /\ Evidence(d) /\ Place(flow[f])
  BY SnapFacts
<1>2. At(f, "simulate_lock") /\ UNCHANGED <<chain, lost>>
  BY DEF SimulateLock
<1>3. Proposed(d) /\ Alive(f) /\ ~At(f, "save") /\ Keeps(d, d)
  BY <1>1, <1>2 DEF Place, At, Alive, Keeps
<1>4. CASE Goto(f, "idle", "none", d) /\ UNCHANGED draft
  BY <1>1, <1>2, <1>3, <1>4, EndWorks
<1>5. CASE draft' = d /\ Goto(f, "sign", "lock", d)
  <2>1. Place(GoneTo("sign", "lock", d)) /\ Quiet(GoneTo("sign", "lock", d))
    BY <1>3 DEF GoneTo, Place, Quiet, Kinds
  <2>. QED BY <1>1, <1>2, <1>3, <1>5, <2>1, GotoWorks DEF Pcs, Kinds
<1>. QED BY <1>4, <1>5 DEF SimulateLock

(* LockConfirmed stores the id of the lock whose hash is stored.           *)
LEMMA LockConfirmedWorks ==
    ASSUME NEW f \in Flows, Types, Documents, LockConfirmed(f)
    PROVE  Works(f)
<1> DEFINE d == flow[f].snap
           h == flow[f].hash
           w == [d EXCEPT !.lockId = h]
           r == [flow[f] EXCEPT !.pc = "verify_lock", !.snap = w]
<1>1. d \in DraftType /\ Evidence(d) /\ Place(flow[f]) /\ flow[f] \in FlowType
  BY SnapFacts
<1>2. /\ At(f, "wait") /\ flow[f].kind = "lock" /\ Succeeded(h) /\ draft' = w
      /\ flow' = [flow EXCEPT ![f].pc = "verify_lock", ![f].snap = draft']
      /\ UNCHANGED <<page, chain, lost>>
  BY DEF LockConfirmed, Confirmed, Succeeded
<1>3. HasKind(h, "lock") /\ d.lockTx = h /\ d.lockId = NoTx /\ ~d.lockVerified
  BY <1>1, <1>2 DEF Place, At
<1>4. h \in TxId /\ h # NoTx
  BY <1>3, KindFacts
<1>5. w \in DraftType
  BY <1>1, <1>4 DEF DraftType
<1>6. /\ w.policy = d.policy /\ w.token = d.token /\ w.launchTx = d.launchTx
      /\ w.approvalTx = d.approvalTx /\ w.lockTx = d.lockTx /\ w.ref = d.ref
      /\ w.burnTx = d.burnTx /\ w.burnVerified = d.burnVerified
      /\ w.lockId = h /\ w.lockVerified = d.lockVerified
  BY <1>1 DEF DraftType
<1>7. r \in FlowType /\ r.pc = "verify_lock" /\ r.snap = w
  BY <1>1, <1>5 DEF FlowType, Pcs
<1>8. flow' = [flow EXCEPT ![f] = r]
  BY <1>2
<1> HIDE DEF w, r
<1>9. Evidence(w) /\ Keeps(d, w)
  BY <1>1, <1>2, <1>3, <1>6 DEF Evidence, Keeps, Settled
<1>10. Place(r) /\ Quiet(r)
  BY <1>2, <1>3, <1>4, <1>6, <1>7 DEF Place, Quiet
<1>11. Worked(f, w, r)
  BY <1>2, <1>7, <1>8, <1>9, <1>10 DEF Worked, Alive, At
<1>. QED BY <1>5, <1>7, <1>11 DEF Works

(* The three ways a lock that the draft names becomes verified.            *)
LEMMA NamedLockWorks ==
    ASSUME NEW f \in Flows, Types, Documents, NEW i,
           Alive(f), ~At(f, "save"), UNCHANGED <<chain, lost>>,
           i = flow[f].snap.lockTx, i # NoTx, Succeeded(i),
           flow[f].snap.lockId \in {NoTx, i},
           SaveAndReturn(f, Verified(flow[f].snap, i))
    PROVE  Works(f)
<1> DEFINE d == flow[f].snap
<1>1. d \in DraftType /\ Evidence(d)
  BY SnapFacts
<1>2. i \in MatchingLocks(d.policy, d.ref) /\ d.token /\ d.policy # "burn"
  BY <1>1, NamedLockMatches
<1>3. LET w == Verified(d, i) IN w \in DraftType /\ Evidence(w) /\ Keeps(d, w)
  BY <1>1, <1>2, VerifiedLock
<1>. QED BY <1>3, ReturnWorks

(* A flow that goes on with another error in its draft.                    *)
LEMMA ErrorKept ==
    ASSUME NEW d \in DraftType, NEW e \in Errors, Evidence(d)
    PROVE  LET w == [d EXCEPT !.lastError = e]
           IN w \in DraftType /\ Evidence(w) /\ Keeps(d, w)
BY DEF DraftType, Evidence, Keeps, Settled, HasKind

(* VerifyLock checks the lock the draft names.                             *)
LEMMA VerifyLockWorks ==
    ASSUME NEW f \in Flows, Types, Documents, VerifyLock(f)
    PROVE  Works(f)
<1> DEFINE d == flow[f].snap
<1>1. d \in DraftType /\ Evidence(d) /\ Place(flow[f])
  BY SnapFacts
<1>2. At(f, "verify_lock") /\ UNCHANGED <<chain, lost>>
  BY DEF VerifyLock
<1>3. /\ d.lockId # NoTx /\ d.lockId = d.lockTx /\ Succeeded(d.lockId)
      /\ Alive(f) /\ ~At(f, "save")
  BY <1>1, <1>2 DEF Place, At, Alive
<1>4. CASE Goto(f, "idle", "none", d) /\ UNCHANGED draft
  BY <1>1, <1>2, <1>3, <1>4, EndWorks
<1>5. CASE SaveAndReturn(f, Verified(d, d.lockId))
  BY <1>2, <1>3, <1>5, NamedLockWorks
<1>. QED BY <1>4, <1>5 DEF VerifyLock

(* RecoverLockId assumes the default policy, and what it verifies          *)
(* satisfies the draft's own one all the same.                             *)
LEMMA RecoverIdWorks ==
    ASSUME NEW f \in Flows, Types, Documents, RecoverLockId(f)
    PROVE  Works(f)
<1> DEFINE d == flow[f].snap
           w == [d EXCEPT !.lastError = "LOCK_VERIFY_FAILED"]
<1>1. d \in DraftType /\ Evidence(d) /\ Place(flow[f])
  BY SnapFacts
<1>2. At(f, "recover_id") /\ UNCHANGED <<chain, lost>>
  BY DEF RecoverLockId
<1>3. /\ d.lockId # NoTx /\ d.lockId = d.lockTx /\ Succeeded(d.lockId)
      /\ Alive(f) /\ ~At(f, "save")
  BY <1>1, <1>2 DEF Place, At, Alive
<1>4. CASE SaveAndFinish(f, w)
  <2>1. w \in DraftType /\ Evidence(w) /\ Keeps(d, w)
    BY <1>1, ErrorKept DEF Errors
  <2>. QED BY <1>2, <1>3, <1>4, <2>1, FinishWorks
<1>5. CASE SaveAndReturn(f, Verified(d, d.lockId))
  BY <1>2, <1>3, <1>5, NamedLockWorks
<1>. QED BY <1>4, <1>5 DEF RecoverLockId

(* RecoverLockTx verifies the lock whose hash is stored.                   *)
LEMMA RecoverTxWorks ==
    ASSUME NEW f \in Flows, Types, Documents, RecoverLockTx(f)
    PROVE  Works(f)
<1> DEFINE d == flow[f].snap
           v == [d EXCEPT !.lastError = "TX_REVERTED"]
           w == [d EXCEPT !.lastError = "LOCK_DECODE_FAILED"]
<1>1. d \in DraftType /\ Evidence(d) /\ Place(flow[f])
  BY SnapFacts
<1>2. At(f, "recover_lock") /\ UNCHANGED <<chain, lost>>
  BY DEF RecoverLockTx
<1>3. /\ d.lockTx # NoTx /\ d.lockId = NoTx /\ Alive(f) /\ ~At(f, "save")
  BY <1>1, <1>2 DEF Place, At, Alive
<1>4. CASE SaveAndFinish(f, d)
  BY <1>1, <1>2, <1>3, <1>4, FinishWorks DEF Keeps
<1>5. CASE SaveAndFinish(f, v)
  <2>1. v \in DraftType /\ Evidence(v) /\ Keeps(d, v)
    BY <1>1, ErrorKept DEF Errors
  <2>. QED BY <1>2, <1>3, <1>5, <2>1, FinishWorks
<1>6. CASE SaveAndFinish(f, w)
  <2>1. w \in DraftType /\ Evidence(w) /\ Keeps(d, w)
    BY <1>1, ErrorKept DEF Errors
  <2>. QED BY <1>2, <1>3, <1>6, <2>1, FinishWorks
<1>7. CASE Receipt(d.lockTx, "success") /\ SaveAndReturn(f, Verified(d, d.lockTx))
  BY <1>2, <1>3, <1>7, NamedLockWorks DEF Receipt, Succeeded
<1>. QED BY <1>4, <1>5, <1>6, <1>7 DEF RecoverLockTx

(* CheckBurn goes on only with a draft that names no burn.                 *)
LEMMA CheckBurnWorks ==
    ASSUME NEW f \in Flows, Types, Documents, CheckBurn(f)
    PROVE  Works(f)
<1> DEFINE d == flow[f].snap
<1>1. d \in DraftType /\ Evidence(d) /\ Place(flow[f])
  BY SnapFacts
<1>2. At(f, "check_burn") /\ UNCHANGED <<draft, chain, lost>>
  BY DEF CheckBurn
<1>3. Unburned(d) /\ Alive(f) /\ ~At(f, "save") /\ Keeps(d, d)
  BY <1>1, <1>2 DEF Place, At, Alive, Keeps
<1>4. Place(GoneTo("idle", "burn", d)) /\ Quiet(GoneTo("idle", "burn", d))
  BY BlankEvidence DEF GoneTo, Quiet, IdleFlow
<1>5. Place(GoneTo("sign", "burn", d)) /\ Quiet(GoneTo("sign", "burn", d))
  BY <1>3 DEF GoneTo, Place, Quiet, Kinds
<1>6. Goto(f, "idle", "burn", d) \/ Goto(f, "sign", "burn", d)
  BY DEF CheckBurn
<1>7. ~At(f, "wait") /\ draft' = draft /\ UNCHANGED <<chain, lost>>
  BY <1>2 DEF At
<1>. QED BY <1>1, <1>3, <1>4, <1>5, <1>6, <1>7, GotoWorks DEF Pcs, Kinds

(* BurnConfirmed verifies the burn whose hash is stored.                   *)
LEMMA BurnConfirmedWorks ==
    ASSUME NEW f \in Flows, Types, Documents, BurnConfirmed(f)
    PROVE  Works(f)
<1> DEFINE d == flow[f].snap
           w == [d EXCEPT !.burnVerified = TRUE]
<1>1. d \in DraftType /\ Evidence(d) /\ Place(flow[f])
  BY SnapFacts
<1>2. /\ At(f, "wait") /\ flow[f].kind = "burn" /\ Succeeded(flow[f].hash)
      /\ SaveAndReturn(f, w) /\ UNCHANGED <<chain, lost>>
  BY DEF BurnConfirmed, Confirmed, Succeeded
<1>3. HasKind(flow[f].hash, "burn") /\ d.burnTx = flow[f].hash
  BY <1>1, <1>2 DEF Place, At
<1>4. d.burnTx # NoTx
  BY <1>3, KindFacts
<1>5. w \in DraftType
  BY <1>1 DEF DraftType
<1>6. Evidence(w) /\ Keeps(d, w)
  BY <1>1, <1>2, <1>3, <1>4 DEF DraftType, Evidence, Keeps, Settled, HasKind
<1>. QED BY <1>2, <1>5, <1>6, ReturnWorks DEF At, Alive

(* RecoverBurn verifies the burn whose hash is stored, or forgets a        *)
(* reverted one.                                                           *)
LEMMA RecoverBurnWorks ==
    ASSUME NEW f \in Flows, Types, Documents, RecoverBurn(f)
    PROVE  Works(f)
<1> DEFINE d == flow[f].snap
           v == [d EXCEPT !.burnTx = NoTx, !.lastError = "TX_REVERTED"]
           w == [d EXCEPT !.burnVerified = TRUE, !.lastError = "none"]
<1>1. d \in DraftType /\ Evidence(d) /\ Place(flow[f])
  BY SnapFacts
<1>2. At(f, "recover_burn") /\ UNCHANGED <<chain, lost>>
  BY DEF RecoverBurn
<1>3. d.burnTx # NoTx /\ ~d.burnVerified /\ Alive(f) /\ ~At(f, "save")
  BY <1>1, <1>2 DEF Place, At, Alive
<1>4. CASE EndBusy(f) /\ UNCHANGED draft
  <2>1. IdleFlow.pc = "idle" /\ IdleFlow \in FlowType /\ Place(IdleFlow) /\ Quiet(IdleFlow)
    BY BlankType, BlankEvidence DEF IdleFlow, Quiet
  <2>2. Worked(f, d, IdleFlow)
    BY <1>1, <1>2, <1>3, <1>4, <2>1 DEF Worked, EndBusy, Left, Keeps
  <2>. QED BY <1>1, <2>1, <2>2 DEF Works
<1>5. CASE Receipt(d.burnTx, "reverted") /\ SaveAndFinish(f, v)
  <2>1. v \in DraftType
    BY <1>1 DEF DraftType, Errors
  <2>2. Evidence(v)
    BY <1>1, <1>3 DEF DraftType, Evidence, HasKind
  <2>3. Keeps(d, v)
    BY <1>1, <1>3, <1>5 DEF DraftType, Evidence, Keeps, Settled, Receipt
  <2>. QED BY <1>2, <1>3, <1>5, <2>1, <2>2, <2>3, FinishWorks
<1>6. CASE Receipt(d.burnTx, "success") /\ SaveAndReturn(f, w)
  <2>1. w \in DraftType
    BY <1>1 DEF DraftType, Errors
  <2>2. Evidence(w)
    BY <1>1, <1>3, <1>6 DEF DraftType, Evidence, HasKind, Succeeded, Receipt
  <2>3. Keeps(d, w)
    BY <1>1, <1>3 DEF DraftType, Keeps, Settled
  <2>. QED BY <1>2, <1>3, <1>6, <2>1, <2>2, <2>3, ReturnWorks
<1>. QED BY <1>4, <1>5, <1>6 DEF RecoverBurn

Saves(f) == SaveHash(f) \/ SaveHashMasked(f)
Steps(f) == Throw(f) \/ SaveHashMasked(f) \/ FlowStep(f)

(* Every step of a flow but those that launch.                             *)
LEMMA StepWorks ==
    ASSUME NEW f \in Flows, Types, Documents,
           Steps(f), ~Prepare(f), ~(Saves(f) /\ flow[f].kind = "launch")
    PROVE  Works(f)
BY SaveHashWorks, ThrowWorks, RevertedWorks, LaunchConfirmedWorks, RecoverLaunchWorks,
   SearchLockWorks, PreflightWorks, ApprovalWorks, SimulateWorks, LockConfirmedWorks,
   VerifyLockWorks, RecoverIdWorks, RecoverTxWorks, CheckBurnWorks, BurnConfirmedWorks,
   RecoverBurnWorks DEF FlowStep, Steps, Saves


-----------------------------------------------------------------------------
(* The invariant under a step of a flow whose launch is stored. *)

(* Nothing is said of transactions that the old ones do not bear out.      *)
LEMMA PlaceStays ==
    ASSUME NEW r \in FlowType, Place(r), Evidence(r.snap), Grows
    PROVE  Place(r)'
<1>1. \A i, k : HasKind(i, k) => HasKind(i, k)' /\ txs'[i].unlock = txs[i].unlock
  BY DEF Grows, HasKind
<1>2. r.snap.lockTx # NoTx => HasKind(r.snap.lockTx, "lock")
  BY DEF Evidence
<1>3. r.snap.lockTx # NoTx /\ Succeeded(r.snap.lockTx) => Succeeded(r.snap.lockTx)'
  BY <1>2 DEF Grows, HasKind
<1>4. r.pc = "save" => Place(r)'
  BY <1>1 DEF Place
<1>5. r.pc = "wait" => Place(r)'
  BY <1>1 DEF Place
<1>6. r.pc \in {"verify_lock", "recover_id"} => Place(r)'
  BY <1>3 DEF Place
<1>7. r.pc \notin {"save", "wait", "verify_lock", "recover_id"} => Place(r)'
  BY DEF Place
<1>. QED BY <1>4, <1>5, <1>6, <1>7

(* No transaction changes.                                                 *)
LEMMA Unmoved == UNCHANGED txs => Grows
BY DEF Grows, Succeeded

(* Types under the step of a flow whose launch is stored.                  *)
LEMMA WorkTypes ==
    ASSUME NEW f \in Flows, NEW w \in DraftType, NEW r \in FlowType, Types, Worked(f, w, r)
    PROVE  Types'
<1>1. draft' \in DraftType
  BY DEF Types, Worked, Hid
<1>2. page' \in PageType
  BY DEF Types, Worked, Left, PageType
<1>3. flow' \in [Flows -> FlowType]
  BY DEF Types, Worked
<1>4. lost' \subseteq Kinds \cup {"draft", "answer"}
  BY DEF Types, Worked, Hid
<1>. QED BY <1>1, <1>2, <1>3, <1>4 DEF Types, Worked, chain

(* Documents under such a step.                                            *)
LEMMA WorkDocuments ==
    ASSUME NEW f \in Flows, NEW w \in DraftType, NEW r \in FlowType, Types, Documents,
           Worked(f, w, r)
    PROVE  Documents'
<1>1. Grows
  BY Unmoved DEF Worked, chain
<1>0. Evidence(r.snap)
  BY BlankEvidence DEF Worked, Place
<1>2. Evidence(w)' /\ Place(r)'
  BY <1>0, <1>1, EvidenceStays, PlaceStays DEF Worked
<1>3. \A d \in DraftType : Evidence(d) => Evidence(d)'
  BY <1>1, EvidenceStays
<1>4. \A g \in Flows : Evidence(flow[g].snap)' /\ Place(flow[g])'
  <2> TAKE g \in Flows
  <2>1. CASE g = f
    <3>1. flow'[g] = r
      BY <2>1 DEF Worked, Types
    <3>2. Evidence(r.snap)'
      <4>1. CASE r.pc = "idle"
        <5>1. r = IdleFlow
          BY <4>1 DEF Worked, Place
        <5>. QED BY <5>1 DEF Evidence, IdleFlow, BlankDraft, NoTx, NoTime
      <4>. QED BY <4>1, <1>2 DEF Worked
    <3>. QED BY <3>1, <3>2, <1>2 DEF Evidence, Place, HasKind, Succeeded, MatchingLocks
  <2>2. CASE g # f
    <3>1. flow'[g] = flow[g] /\ flow[g] \in FlowType /\ flow[g].snap \in DraftType
      BY <2>2, SnapFacts DEF Worked, Types
    <3>2. PICK q \in FlowType : q = flow[g]
      BY <3>1
    <3>3. Place(q)' /\ Evidence(q.snap)'
      BY <1>1, <1>3, <3>1, <3>2, PlaceStays DEF Documents
    <3>4. flow'[g] = q
      BY <3>1, <3>2
    <3>. QED BY <3>3, <3>4 DEF Evidence, Place, HasKind, Succeeded, MatchingLocks
  <2>. QED BY <2>1, <2>2
<1>5. Evidence(draft)'
  <2>1. CASE draft' = w
    BY <1>2, <2>1 DEF Evidence, HasKind, Succeeded, MatchingLocks
  <2>2. CASE draft' = draft
    <3>1. PICK d \in DraftType : d = draft
      BY DEF Types
    <3>2. Evidence(d)'
      BY <3>1, <1>3 DEF Documents
    <3>3. draft' = d
      BY <3>1, <2>2
    <3>. QED BY <3>2, <3>3 DEF Evidence, HasKind, Succeeded, MatchingLocks
  <2>. QED BY <2>1, <2>2 DEF Worked, Hid
<1>. QED BY <1>4, <1>5 DEF Documents

(* LaunchOK under such a step: the launch stays stored and the policy the  *)
(* same.                                                                   *)
LEMMA WorkLaunch ==
    ASSUME NEW f \in Flows, NEW w \in DraftType, NEW r \in FlowType, Inv, Worked(f, w, r),
           isLaunchCommitted(draft)
    PROVE  LaunchOK'
<1>1. /\ Alive(f) /\ AfterLaunch /\ "draft" \notin lost
      /\ flow[f].snap.launchTx # NoTx /\ flow[f].snap.policy = draft.policy
  BY DEF Inv, LaunchOK, AfterLaunch, Gone, Worked
<1>2. w.launchTx # NoTx /\ w.policy = draft.policy
  BY <1>1 DEF Worked, Keeps
<1>3. isLaunchCommitted(draft)' /\ draft'.policy = draft.policy
  BY <1>1, <1>2 DEF Worked, Hid, isLaunchCommitted
<1>4. txs' = txs /\ ("draft" \in lost' <=> "draft" \in lost)
      /\ ("answer" \in lost' <=> "answer" \in lost)
  BY DEF Worked, Hid, chain, Kinds
<1>5. \A g \in Flows : Alive(g)' =>
         /\ ~Launching(g)'
         /\ flow'[g].snap.launchTx # NoTx /\ flow'[g].snap.policy = draft.policy
  <2> TAKE g \in Flows
  <2>1. CASE g = f
    <3>1. flow'[g] = r
      BY <2>1 DEF Worked, Inv, Types
    <3>. QED BY <3>1, <1>2 DEF Worked, Alive, Launching, Prompting, At, Quiet
  <2>2. CASE g # f
    <3>1. flow'[g] = flow[g]
      BY <2>2 DEF Worked, Inv, Types
    <3>. QED BY <3>1, <1>1 DEF AfterLaunch, Alive, Launching, Prompting, At
  <2>. QED BY <2>1, <2>2
<1>6. \A g \in Flows : ~Prompting(g)'
  BY <1>5 DEF Alive, Launching, Prompting, At
<1>. QED BY <1>1, <1>3, <1>4, <1>5, <1>6 DEF Inv, LaunchOK, AfterLaunch

(* The invariant under such a step.                                        *)
LEMMA WorkInv ==
    ASSUME NEW f \in Flows, Inv, Works(f), isLaunchCommitted(draft)
    PROVE  Inv'
<1>1. PICK w \in DraftType, r \in FlowType : Worked(f, w, r)
  BY DEF Works
<1>. QED BY <1>1, WorkTypes, WorkDocuments, WorkLaunch DEF Inv


-----------------------------------------------------------------------------
(* The invariant under the launch and under the page. *)

(* A page changes its flow, or is another one.                             *)
LEMMA Pages ==
    ASSUME page \in PageType, NEW b \in BOOLEAN, NEW c \in BOOLEAN,
           NEW g \in Flows \cup {"none"}
    PROVE  LET p == [page EXCEPT !.flow = g]
               q == [ref |-> b, flow |-> g, busy |-> c]
           IN /\ p \in PageType /\ p.flow = g /\ p.ref = page.ref
              /\ q \in PageType /\ q.flow = g /\ q.ref = b
BY DEF PageType

(* Documents say the same when no transaction changes.                     *)
LEMMA SameDocuments ==
    ASSUME Types, Documents, UNCHANGED txs,
           NEW e \in DraftType, Evidence(e), draft' = e,
           NEW s \in [Flows -> FlowType], flow' = s,
           \A g \in Flows : Evidence(s[g].snap) /\ Place(s[g])
    PROVE  Documents'
<1>1. Grows
  BY Unmoved
<1>2. Evidence(e)'
  BY <1>1, EvidenceStays
<1>3. \A g \in Flows : Evidence(s[g].snap)' /\ Place(s[g])'
  <2> TAKE g \in Flows
  <2>1. s[g] \in FlowType /\ s[g].snap \in DraftType
    BY DEF FlowType
  <2>. QED BY <1>1, <2>1, EvidenceStays, PlaceStays
<1>4. Evidence(draft)'
  BY <1>2 DEF Evidence, HasKind, Succeeded, MatchingLocks
<1>5. \A g \in Flows : Evidence(flow[g].snap)' /\ Place(flow[g])'
  <2> TAKE g \in Flows
  <2>1. flow'[g] = s[g] /\ Evidence(s[g].snap)' /\ Place(s[g])'
    BY <1>3
  <2>2. Evidence(flow[g].snap)'
    BY <2>1 DEF Evidence, HasKind, Succeeded, MatchingLocks
  <2>3. Place(flow[g])'
    BY <2>1 DEF Place, HasKind, Succeeded
  <2>. QED BY <2>2, <2>3
<1>. QED BY <1>4, <1>5 DEF Documents

(* A draft that is not launched names no transaction.                      *)
LEMMA PolicyTaken ==
    ASSUME NEW p \in Policies \cup {"none"}, NEW d, d = [BlankDraft EXCEPT !.policy = p]
    PROVE  /\ d \in DraftType /\ Evidence(d) /\ ~isLaunchCommitted(d)
           /\ d = [BlankDraft EXCEPT !.policy = d.policy] /\ d.policy = p
BY BlankType DEF DraftType, Evidence, isLaunchCommitted, BlankDraft, NoTx

Begun(pc, e) == [IdleFlow EXCEPT !.pc = pc, !.snap = e]

(* A flow that starts.                                                     *)
LEMMA Started ==
    ASSUME NEW pc \in Pcs, NEW e \in DraftType
    PROVE  LET r == Begun(pc, e)
           IN /\ r \in FlowType /\ r.pc = pc /\ r.snap = e
              /\ pc # "idle" => r = GoneTo(pc, "none", e)
<1> DEFINE r == [IdleFlow EXCEPT !.pc = pc, !.snap = e]
           q == [pc |-> pc, kind |-> "none", snap |-> e, hash |-> NoTx]
<1>1. IdleFlow \in FlowType /\ IdleFlow.kind = "none" /\ IdleFlow.hash = NoTx
  BY BlankType DEF IdleFlow
<1>2. /\ r \in FlowType /\ r.pc = pc /\ r.snap = e /\ r.kind = "none" /\ r.hash = NoTx
  BY <1>1 DEF FlowType
<1>3. q \in FlowType /\ q.pc = pc /\ q.snap = e /\ q.kind = "none" /\ q.hash = NoTx
  BY DEF FlowType, NoTx
<1>4. pc # "idle" => q = GoneTo(pc, "none", e)
  BY DEF GoneTo
<1> HIDE DEF r, q
<1>5. r = q
  BY <1>2, <1>3 DEF FlowType
<1>. QED BY <1>2, <1>4, <1>5 DEF r, Begun

(* Submit: nothing runs and nothing is signed.                             *)
LEMMA SubmitInv ==
    ASSUME NEW f \in Flows, Inv, Submit(f)
    PROVE  Inv'
<1>1. PICK p \in Policies : /\ draft' = [draft EXCEPT !.policy = p]
                            /\ flow' = [flow EXCEPT ![f] = Begun("prepare", draft')]
  BY DEF Submit, Begun
<1>2. /\ page.flow = "none" /\ At(f, "idle") /\ ~isLaunchCommitted(draft)
      /\ (draft = BlankDraft /\ "draft" \notin lost) \/ page.ref
      /\ page' = [ref |-> TRUE, flow |-> f, busy |-> FALSE]
      /\ UNCHANGED <<txs, held, allowance, now, lost>>
  BY DEF Submit, chain
<1>3. BeforeLaunch
  BY <1>2 DEF Inv, LaunchOK
<1>4. ("answer" \notin lost => txs = <<>>) /\ "draft" \notin lost
      /\ \A i \in DOMAIN txs : txs[i].kind = "launch"
  BY <1>2, <1>3 DEF BeforeLaunch, Inv, LaunchOK, Gone
<1>5. \A g \in Flows : ~Alive(g)
  BY <1>2, <1>3, PonsAssumption DEF BeforeLaunch, BlankDraft
<1>6. draft' = [BlankDraft EXCEPT !.policy = p]
  BY <1>1, <1>3 DEF BeforeLaunch, BlankDraft
<1>7. PICK e \in DraftType : /\ e = draft' /\ Evidence(e) /\ ~isLaunchCommitted(e)
                             /\ e = [BlankDraft EXCEPT !.policy = e.policy] /\ e.policy = p
  BY <1>6, PolicyTaken
<1>8. PICK r \in FlowType : r = Begun("prepare", e) /\ r.pc = "prepare" /\ r.snap = e
  BY Started DEF Pcs
<1>9. flow' = [flow EXCEPT ![f] = r] /\ flow' \in [Flows -> FlowType]
  BY <1>1, <1>7, <1>8 DEF Inv, Types
<1>10. Types'
  BY <1>2, <1>7, <1>9 DEF Inv, Types, PageType
<1>11. Documents'
  <2>1. Place(r)
    BY <1>8 DEF Place
  <2>2. PICK s \in [Flows -> FlowType] : flow' = s
    BY <1>9
  <2>3. \A g \in Flows : Evidence(s[g].snap) /\ Place(s[g])
    <3> TAKE g \in Flows
    <3>1. CASE g = f
      BY <3>1, <2>1, <2>2, <1>7, <1>8, <1>9 DEF Inv, Types
    <3>2. CASE g # f
      BY <3>2, <2>2, <1>9 DEF Inv, Types, Documents
    <3>. QED BY <3>1, <3>2
  <2>. QED BY <1>2, <1>7, <2>2, <2>3, SameDocuments DEF Inv
<1>12. LaunchOK'
  <2>1. \A g \in Flows : Alive(g)' => g = f
    BY <1>5, <1>9 DEF Alive, Inv, Types
  <2>2. Prompting(f)' /\ flow'[f].snap = draft'
    BY <1>7, <1>8, <1>9 DEF Prompting, At, Inv, Types
  <2>3. draft' # BlankDraft
    BY <1>7, PonsAssumption DEF BlankDraft
  <2>4. ~isLaunchCommitted(draft)'
    BY <1>7 DEF isLaunchCommitted
  <2>5. page'.flow = f /\ f # "none"
    BY <1>2, PonsAssumption
  <2>6. BeforeLaunch'
    BY <1>7, <2>1, <2>2, <2>3, <2>5 DEF BeforeLaunch, Launching
  <2>. QED BY <1>2, <1>4, <2>4, <2>6 DEF LaunchOK
<1>. QED BY <1>10, <1>11, <1>12 DEF Inv

(* Resume of a committed draft.                                            *)
LEMMA ResumeInv ==
    ASSUME NEW f \in Flows, Inv, Resume(f)
    PROVE  Inv'
<1>1. /\ At(f, "idle") /\ page.ref /\ isLaunchCommitted(draft) /\ ResumeStep(draft) # "idle"
      /\ flow' = [flow EXCEPT ![f] = Begun(ResumeStep(draft), draft)]
      /\ page' = [page EXCEPT !.flow = f]
      /\ UNCHANGED <<draft, txs, held, allowance, now, lost>>
  BY DEF Resume, chain, Begun
<1>2. PICK d \in DraftType : d = draft /\ Evidence(d) /\ isLaunchCommitted(d)
  BY <1>1 DEF Inv, Types, Documents
<1>3. /\ GoneTo(ResumeStep(d), "none", d) = Begun(ResumeStep(d), d)
      /\ GoneTo(ResumeStep(d), "none", d).pc # "idle"
  <2>1. ResumeStep(d) # "idle"
    BY <1>1, <1>2
  <2>2. ResumeStep(d) \in Pcs
    BY DEF ResumeStep, FinishStep, Pcs
  <2>. QED BY <2>1, <2>2, Started
<1>4. PICK r \in FlowType : /\ r = Begun(ResumeStep(draft), draft)
                            /\ Place(r) /\ Quiet(r) /\ r.snap = d
  BY <1>2, <1>3, ResumePlace
<1>5. flow' = [flow EXCEPT ![f] = r] /\ flow' \in [Flows -> FlowType]
  BY <1>1, <1>4 DEF Inv, Types
<1>6. Types'
  BY <1>1, <1>5 DEF Inv, Types, PageType
<1>7. Documents'
  <2>2. PICK s \in [Flows -> FlowType] : flow' = s
    BY <1>5
  <2>3. \A g \in Flows : Evidence(s[g].snap) /\ Place(s[g])
    <3> TAKE g \in Flows
    <3>1. CASE g = f
      BY <3>1, <2>2, <1>2, <1>4, <1>5 DEF Inv, Types
    <3>2. CASE g # f
      BY <3>2, <2>2, <1>5 DEF Inv, Types, Documents
    <3>. QED BY <3>1, <3>2
  <2>. QED BY <1>1, <1>2, <2>2, <2>3, SameDocuments DEF Inv
<1>8. LaunchOK'
  <2>1. d.launchTx # NoTx
    BY <1>2 DEF isLaunchCommitted, Evidence
  <2>2. \A g \in Flows : Alive(g)' =>
           /\ ~Launching(g)'
           /\ flow'[g].snap.launchTx # NoTx /\ flow'[g].snap.policy = draft.policy
    <3> TAKE g \in Flows
    <3>1. CASE g = f
      <4>1. flow'[g] = r
        BY <3>1, <1>5 DEF Inv, Types
      <4>. QED BY <4>1, <1>2, <1>4, <2>1 DEF Launching, Prompting, At, Quiet
    <3>2. CASE g # f
      <4>1. flow'[g] = flow[g]
        BY <3>2, <1>5 DEF Inv, Types
      <4>. QED BY <4>1, <1>1 DEF Inv, LaunchOK, AfterLaunch, Alive, Launching, Prompting, At
    <3>. QED BY <3>1, <3>2
  <2>3. \A g \in Flows : ~Prompting(g)'
    BY <2>2 DEF Alive, Launching, Prompting, At
  <2>4. "draft" \notin lost
    BY <1>1 DEF Inv, LaunchOK, Gone
  <2>. QED BY <1>1, <2>2, <2>3, <2>4 DEF Inv, LaunchOK, AfterLaunch, isLaunchCommitted
<1>. QED BY <1>6, <1>7, <1>8 DEF Inv


(* One flow has moved.                                                     *)
LEMMA MovedDocuments ==
    ASSUME Types, Documents, UNCHANGED txs, NEW f \in Flows, NEW r \in FlowType,
           flow' = [flow EXCEPT ![f] = r], Evidence(r.snap), Place(r),
           NEW e \in DraftType, Evidence(e), draft' = e
    PROVE  Documents'
<1>1. PICK s \in [Flows -> FlowType] : s = flow'
  BY DEF Types
<1>2. \A g \in Flows : Evidence(s[g].snap) /\ Place(s[g])
  <2> TAKE g \in Flows
  <2>1. CASE g = f
    BY <2>1, <1>1 DEF Types
  <2>2. CASE g # f
    BY <2>2, <1>1 DEF Types, Documents
  <2>. QED BY <2>1, <2>2
<1>. QED BY <1>1, <1>2, SameDocuments

(* Only before the launch is stored does a flow launch.                    *)
LEMMA LaunchingFacts ==
    ASSUME NEW f \in Flows, Inv, Launching(f)
    PROVE  /\ ~isLaunchCommitted(draft) /\ BeforeLaunch /\ Alive(f)
           /\ flow[f].snap = draft /\ "draft" \notin lost
           /\ \A g \in Flows : Alive(g) => g = f
<1>1. Alive(f)
  BY DEF Launching, Prompting, At, Alive
<1>2. ~isLaunchCommitted(draft) /\ BeforeLaunch /\ "draft" \notin lost
  BY <1>1 DEF Inv, LaunchOK, AfterLaunch, Gone
<1>3. ~Masked(f)
  BY DEF Masked, Launching, Prompting, At
<1>. QED BY <1>1, <1>2, <1>3 DEF BeforeLaunch

(* Prepare: the one flow that launches goes to the wallet.                 *)
LEMMA PrepareInv ==
    ASSUME NEW f \in Flows, Inv, Prepare(f)
    PROVE  Inv'
<1> DEFINE r == GoneTo("sign", "launch", draft)
<1>1. /\ At(f, "prepare") /\ flow' = [flow EXCEPT ![f] = r]
      /\ UNCHANGED <<draft, page, txs, held, allowance, now, lost>>
  BY DEF Prepare, Goto, GoneTo, chain
<1>2. /\ Prompting(f) /\ BeforeLaunch /\ ~isLaunchCommitted(draft)
      /\ "answer" \notin lost => txs = <<>>
      /\ "draft" \notin lost /\ \A g \in Flows : Alive(g) => g = f
  BY <1>1, LaunchingFacts DEF Prompting, Launching, Inv, LaunchOK
<1>3. draft \in DraftType /\ Evidence(draft)
  BY DEF Inv, Types, Documents
<1>4. r \in FlowType /\ r.pc = "sign" /\ r.kind = "launch" /\ r.snap = draft
  BY <1>3, GoneToType DEF Pcs, Kinds, GoneTo
<1>5. Place(r)
  BY <1>4 DEF Place, Kinds
<1> HIDE DEF r
<1>6. Types'
  BY <1>1, <1>4 DEF Inv, Types
<1>7. Documents'
  BY <1>1, <1>3, <1>4, <1>5, MovedDocuments DEF Inv
<1>8. \A g \in Flows : Alive(g)' => g = f
  BY <1>1, <1>2 DEF Alive, Inv, Types
<1>9. Launching(f)' /\ Prompting(f)' /\ flow'[f].snap = draft'
  BY <1>1, <1>4 DEF Launching, Prompting, At, Inv, Types
<1>10. BeforeLaunch'
  BY <1>1, <1>2, <1>8, <1>9 DEF BeforeLaunch, Alive, At
<1>11. LaunchOK'
  BY <1>1, <1>2, <1>10 DEF Inv, LaunchOK, isLaunchCommitted
<1>. QED BY <1>6, <1>7, <1>11 DEF Inv

(* A launch that is given up, before it is signed or while the draft does  *)
(* not know its hash.                                                      *)
LEMMA ThrowInv ==
    ASSUME NEW f \in Flows, Inv, Throw(f), ~isLaunchCommitted(draft)
    PROVE  Inv'
<1>1. /\ ~At(f, "save") /\ Alive(f) /\ flow' = [flow EXCEPT ![f] = IdleFlow]
      /\ page' = IF page.flow = f THEN [page EXCEPT !.flow = "none"] ELSE page
      /\ UNCHANGED <<draft, txs, held, allowance, now, lost>>
  BY DEF Throw, Goto, chain, At, Alive
<1>2. /\ BeforeLaunch /\ "draft" \notin lost
      /\ \A g \in Flows : Alive(g) => g = f
      /\ Launching(f) \/ Masked(f)
  BY <1>1 DEF Inv, LaunchOK, BeforeLaunch, Gone
<1>3. "answer" \notin lost => txs = <<>>
  BY <1>1, <1>2 DEF Inv, LaunchOK, Launching, Masked
<1>4. Types'
  BY <1>1, BlankType DEF Inv, Types, PageType
<1>5. Documents'
  <2>1. draft \in DraftType /\ Evidence(draft)
    BY DEF Inv, Types, Documents
  <2>. QED BY <1>1, <2>1, BlankType, BlankEvidence, MovedDocuments DEF Inv
<1>6. \A g \in Flows : ~Alive(g)'
  BY <1>1, <1>2 DEF Alive, Inv, Types, IdleFlow
<1>7. \A g \in Flows : ~Prompting(g)'
  BY <1>6 DEF Alive, Prompting, At
<1>8. BeforeLaunch'
  BY <1>1, <1>2, <1>3, <1>6 DEF BeforeLaunch
<1>9. LaunchOK'
  BY <1>1, <1>2, <1>3, <1>7, <1>8 DEF Inv, LaunchOK, isLaunchCommitted
<1>. QED BY <1>4, <1>5, <1>9 DEF Inv

(* SaveHash of the launch: from now on no flow launches.  After            *)
(* SaveHashMasked only the flow itself knows.                              *)
LEMMA LaunchStoredInv ==
    ASSUME NEW f \in Flows, Inv, Saves(f), flow[f].kind = "launch"
    PROVE  Inv'
<1> DEFINE d == flow[f].snap
           h == flow[f].hash
           w == WithHash(d, "launch", h)
           r == [flow[f] EXCEPT !.pc = "wait", !.snap = w]
<1>1. /\ At(f, "save")
      /\ flow' = [flow EXCEPT ![f].pc = "wait", ![f].snap = w]
      /\ UNCHANGED <<page, txs, held, allowance, now>>
      /\ \/ draft' = w /\ lost' = lost
         \/ draft' = draft /\ lost' = lost \cup {"launch", "answer"}
  BY DEF Saves, SaveHash, SaveHashMasked, Hashed, WithHash, chain, NotKept
<1>2. /\ ~isLaunchCommitted(draft) /\ BeforeLaunch /\ d = draft /\ "draft" \notin lost
      /\ Alive(f) /\ \A g \in Flows : Alive(g) => g = f
  BY <1>1, LaunchingFacts DEF Launching
<1>3. d \in DraftType /\ Evidence(d) /\ Place(flow[f]) /\ flow[f] \in FlowType
  BY SnapFacts DEF Inv
<1>4. HasKind(h, "launch") /\ h \in TxId /\ h # NoTx
  <2>1. HasKind(h, "launch")
    BY <1>1, <1>3 DEF Place, At
  <2>. QED BY <2>1, KindFacts DEF Inv
<1>5. /\ w \in DraftType /\ w[HashField["launch"]] = h
      /\ w.approvalTx = d.approvalTx /\ w.lockTx = d.lockTx /\ w.burnTx = d.burnTx
      /\ w.policy = d.policy /\ w.token = d.token /\ w.ref = d.ref
      /\ w.lockId = d.lockId
      /\ w.lockVerified = d.lockVerified /\ w.burnVerified = d.burnVerified
  BY ZenonT(60), <1>3, <1>4, HashStored DEF Kinds
<1>6. w.launchTx = h
  BY <1>5, HashFields
<1>7. r \in FlowType /\ r.pc = "wait" /\ r.kind = "launch" /\ r.hash = h /\ r.snap = w
  BY <1>3, <1>5 DEF FlowType, Pcs
<1>8. flow' = [flow EXCEPT ![f] = r]
  BY <1>1
<1> HIDE DEF w, r
<1>9. draft.policy \in Policies /\ ~d.token
  BY <1>2 DEF BeforeLaunch, BlankDraft, isLaunchCommitted
<1>10. Evidence(w)
  BY <1>2, <1>3, <1>4, <1>5, <1>6, <1>9 DEF Evidence
<1>11. Place(r)
  BY <1>4, <1>5, <1>6, <1>7, <1>9 DEF Place
<1>12. Types'
  <2>1. draft' \in DraftType /\ lost' \subseteq Kinds \cup {"draft", "answer"}
    BY <1>1, <1>5 DEF Inv, Types, Kinds
  <2>2. flow' \in [Flows -> FlowType]
    BY <1>7, <1>8 DEF Inv, Types
  <2>. QED BY ZenonT(60), <1>1, <2>1, <2>2 DEF Inv, Types
<1>13. Documents'
  <2>1. draft' \in DraftType /\ Evidence(draft)
    BY <1>12 DEF Inv, Types, Documents
  <2>2. PICK e \in DraftType : draft' = e /\ Evidence(e)
    BY <1>1, <1>2, <1>3, <1>5, <1>10, <2>1
  <2>. QED BY <1>1, <1>7, <1>8, <1>10, <1>11, <2>2, MovedDocuments DEF Inv
<1>14. \A g \in Flows : Alive(g)' => g = f
  BY <1>2, <1>8 DEF Alive, Inv, Types
<1>15. ~Launching(f)' /\ flow'[f] = r
  BY <1>7, <1>8 DEF Launching, Prompting, At, Inv, Types
<1>16. \A g \in Flows : ~Prompting(g)'
  BY <1>14, <1>15 DEF Alive, Launching, Prompting, At
<1>17. \A i \in DOMAIN txs : txs[i].kind = "launch"
  BY <1>2 DEF Inv, LaunchOK
<1>18. CASE draft' = w /\ lost' = lost
  <2>1. isLaunchCommitted(draft)' /\ draft'.policy = draft.policy
    BY <1>2, <1>4, <1>5, <1>6, <1>18 DEF isLaunchCommitted
  <2>2. AfterLaunch'
    BY <1>2, <1>4, <1>5, <1>6, <1>7, <1>14, <1>15, <1>18 DEF AfterLaunch
  <2>3. LaunchOK'
    BY <1>1, <1>2, <1>16, <1>18, <2>1, <2>2 DEF Inv, LaunchOK
  <2>. QED BY <1>12, <1>13, <2>3 DEF Inv
<1>19. CASE draft' = draft /\ lost' = lost \cup {"launch", "answer"}
  <2>1. Masked(f)'
    BY <1>2, <1>4, <1>5, <1>6, <1>7, <1>15, <1>19 DEF Masked, At
  <2>2. draft # BlankDraft /\ (page.ref => page.flow = f) /\ f # "none"
    BY <1>2, <1>9, PonsAssumption DEF BeforeLaunch, BlankDraft
  <2>3. BeforeLaunch'
    BY <1>1, <1>2, <1>9, <1>14, <1>19, <2>1, <2>2 DEF BeforeLaunch
  <2>4. "draft" \notin lost' /\ "answer" \in lost'
    BY <1>2, <1>19
  <2>5. LaunchOK'
    BY <1>1, <1>2, <1>17, <1>19, <2>3, <2>4 DEF LaunchOK, isLaunchCommitted
  <2>. QED BY <1>12, <1>13, <2>5 DEF Inv
<1>. QED BY <1>1, <1>18, <1>19

(* A masked launch whose receipt is found is stored with it.               *)
LEMMA MaskedInv ==
    ASSUME NEW f \in Flows, Inv, Works(f), ~isLaunchCommitted(draft), Masked(f),
           draft'.launchTx # NoTx
    PROVE  Inv'
<1>1. PICK w \in DraftType, r \in FlowType : Worked(f, w, r)
  BY DEF Works
<1>2. draft' = w /\ txs' = txs /\ lost' = lost
  BY <1>1 DEF Worked, Hid, isLaunchCommitted, chain, Masked, At
<1>3. /\ BeforeLaunch /\ "draft" \notin lost /\ Alive(f)
      /\ \A g \in Flows : Alive(g) => g = f
  BY <1>1 DEF Inv, LaunchOK, BeforeLaunch, Gone, Worked
<1>4. w.launchTx # NoTx /\ w.policy = draft.policy
  BY <1>1 DEF Worked, Keeps, Masked
<1>5. flow'[f] = r /\ \A g \in Flows : g # f => flow'[g] = flow[g]
  BY <1>1 DEF Worked, Inv, Types
<1>6. AfterLaunch'
  <2> SUFFICES ASSUME NEW g \in Flows, Alive(g)'
               PROVE  /\ ~Launching(g)'
                      /\ flow'[g].snap.launchTx # NoTx /\ flow'[g].snap.policy = w.policy
    BY <1>2 DEF AfterLaunch
  <2>1. g = f
    BY <1>3, <1>5 DEF Alive
  <2>. QED BY <1>1, <1>4, <1>5, <2>1 DEF Worked, Alive, Launching, Prompting, At, Quiet
<1>7. \A g \in Flows : ~Prompting(g)'
  BY <1>6 DEF AfterLaunch, Alive, Launching, Prompting, At
<1>8. isLaunchCommitted(draft)' /\ "answer" \in lost
  BY <1>2, <1>4 DEF isLaunchCommitted, Masked
<1>9. \A i \in DOMAIN txs : txs[i].kind = "launch"
  BY <1>3 DEF Inv, LaunchOK
<1>10. LaunchOK'
  BY <1>2, <1>3, <1>6, <1>8, <1>9 DEF LaunchOK
<1>. QED BY <1>1, <1>10, WorkTypes, WorkDocuments DEF Inv

-----------------------------------------------------------------------------
(* The invariant under the wallet, the chain and the end of a page. *)

(* A transaction is signed: it is the last one.                            *)
LEMMA TxsAppended ==
    ASSUME Types, NEW t \in TxType, Len(txs) < MaxTx, txs' = Append(txs, t)
    PROVE  /\ txs' \in Seq(TxType) /\ Len(txs') = Len(txs) + 1 /\ Len(txs') \in TxId
           /\ Len(txs') # NoTx /\ Len(txs') <= MaxTx
           /\ Len(txs') \in DOMAIN txs' /\ txs'[Len(txs')] = t
           /\ \A i \in DOMAIN txs' : i \in DOMAIN txs \/ i = Len(txs')
           /\ \A i \in DOMAIN txs : i \in DOMAIN txs' /\ txs'[i] = txs[i] /\ i # Len(txs')
<1>1. txs \in Seq(TxType) /\ Len(txs) \in Nat /\ DOMAIN txs = 1..Len(txs)
  BY LenProperties DEF Types
<1>2. /\ txs' \in Seq(TxType) /\ Len(txs') = Len(txs) + 1
      /\ \A i \in 1..Len(txs) : txs'[i] = txs[i]
      /\ txs'[Len(txs) + 1] = t
  BY <1>1, AppendProperties
<1>3. DOMAIN txs' = 1..Len(txs')
  BY <1>2, LenProperties
<1>. QED BY <1>1, <1>2, <1>3, PonsAssumption DEF TxId, NoTx

(* Send: the transaction is of the kind the flow's place allows.           *)
LEMMA Sent ==
    ASSUME NEW f \in Flows, Inv, Send(f)
    PROVE  LET d == flow[f].snap
               k == flow[f].kind
               h == Len(txs')
           IN /\ k \in Kinds /\ Alive(f) /\ flow[f] \in FlowType
              /\ d \in DraftType /\ Evidence(d)
              /\ k \in {"approve", "lock"} => Proposed(d)
              /\ k = "burn" => Unburned(d)
              /\ txs' \in Seq(TxType) /\ h <= MaxTx /\ h \in TxId
              /\ h = Len(txs) + 1 /\ h \in DOMAIN txs' /\ txs'[h].kind = k
              /\ k = "lock" => txs'[h].unlock = d.unlock
              /\ \A i \in DOMAIN txs' : i \in DOMAIN txs \/ i = h
              /\ \A i \in DOMAIN txs : i \in DOMAIN txs' /\ txs'[i] = txs[i] /\ i # h
              /\ Grows
<1> DEFINE d == flow[f].snap
           k == flow[f].kind
           t == [kind |-> k, status |-> "pending",
                 unlock |-> IF k = "lock" THEN d.unlock ELSE NoTime, at |-> NoTime]
           h == Len(txs')
<1>1. At(f, "sign") /\ Len(txs) < MaxTx /\ txs' = Append(txs, t)
  BY DEF Send
<1>2. d \in DraftType /\ Evidence(d) /\ Place(flow[f]) /\ flow[f] \in FlowType
  BY SnapFacts DEF Inv
<1>3. /\ k \in Kinds /\ Alive(f)
      /\ k \in {"approve", "lock"} => Proposed(d)
      /\ k = "burn" => Unburned(d)
  BY <1>1, <1>2 DEF Place, At, Alive
<1>4. t \in TxType /\ t.kind = k /\ (k = "lock" => t.unlock = d.unlock)
  BY <1>2, <1>3 DEF TxType, DraftType
<1> HIDE DEF t
<1>5. /\ txs' \in Seq(TxType) /\ h = Len(txs) + 1 /\ h \in TxId /\ h <= MaxTx
      /\ h \in DOMAIN txs' /\ txs'[h] = t
      /\ \A i \in DOMAIN txs' : i \in DOMAIN txs \/ i = h
      /\ \A i \in DOMAIN txs : i \in DOMAIN txs' /\ txs'[i] = txs[i] /\ i # h
  BY <1>1, <1>4, TxsAppended DEF Inv
<1> HIDE DEF h
<1>6. Grows
  BY <1>5 DEF Grows, Succeeded
<1>. QED BY <1>2, <1>3, <1>4, <1>5, <1>6 DEF h

(* What the drafts say beside one more transaction.                        *)
LEMMA SentDocuments ==
    ASSUME NEW f \in Flows, Inv, Grows, UNCHANGED draft, NEW q \in FlowType,
           flow' = [flow EXCEPT ![f] = q], Evidence(q.snap), Place(q)'
    PROVE  Documents'
<1>1. PICK e \in DraftType : e = draft /\ Evidence(e)
  BY DEF Inv, Types, Documents
<1>2. Evidence(e)' /\ draft' = e
  BY <1>1, EvidenceStays
<1>3. \A g \in Flows : Evidence(flow[g].snap)' /\ Place(flow[g])'
  <2> TAKE g \in Flows
  <2>1. CASE g = f
    <3>1. flow'[g] = q /\ q.snap \in DraftType
      BY <2>1 DEF Inv, Types, FlowType
    <3>2. Evidence(q.snap)'
      BY <3>1, EvidenceStays
    <3>3. Evidence(flow[g].snap)'
      BY SMTT(30), <3>1, <3>2 DEF Evidence, HasKind, Succeeded, MatchingLocks
    <3>4. Place(flow[g])'
      BY SMTT(30), <3>1 DEF Place, HasKind, Succeeded, MatchingLocks
    <3>. QED BY <3>3, <3>4
  <2>2. CASE g # f
    <3>1. PICK p \in FlowType : p = flow[g] /\ p.snap \in DraftType /\ Evidence(p.snap) /\ Place(p)
      BY SnapFacts DEF Inv
    <3>2. flow'[g] = p
      BY <2>2, <3>1 DEF Inv, Types
    <3>3. Evidence(p.snap)' /\ Place(p)'
      BY <3>1, EvidenceStays, PlaceStays
    <3>4. Evidence(flow[g].snap)'
      BY SMTT(30), <3>2, <3>3 DEF Evidence, HasKind, Succeeded, MatchingLocks
    <3>5. Place(flow[g])'
      BY SMTT(30), <3>2, <3>3 DEF Place, HasKind, Succeeded, MatchingLocks
    <3>. QED BY <3>4, <3>5
  <2>. QED BY <2>1, <2>2
<1>4. Evidence(draft)'
  BY SMTT(30), <1>2 DEF Evidence, HasKind, Succeeded, MatchingLocks
<1>. QED BY <1>3, <1>4 DEF Documents

(* The transactions beside one more of the stored policy.                  *)
LEMMA SentLater ==
    ASSUME NEW f \in Flows, Inv, Send(f), flow[f].kind # "launch"
    PROVE  /\ isLaunchCommitted(draft) /\ AfterLaunch /\ "draft" \notin lost
           /\ flow[f].snap.policy = draft.policy /\ flow[f].snap.launchTx # NoTx
           /\ \A i \in DOMAIN txs' :
                 /\ "answer" \notin lost /\ txs'[i].kind = "launch" => i = 1
                 /\ txs'[i].kind = "lock" => draft.policy # "burn"
                 /\ txs'[i].kind = "burn" => draft.policy = "burn"
<1> DEFINE d == flow[f].snap
           k == flow[f].kind
           h == Len(txs')
<1>0. At(f, "sign")
  BY DEF Send
<1>1. /\ k \in Kinds /\ Alive(f) /\ txs'[h].kind = k
      /\ k \in {"approve", "lock"} => Proposed(d)
      /\ k = "burn" => Unburned(d)
      /\ \A i \in DOMAIN txs' : i \in DOMAIN txs \/ i = h
      /\ \A i \in DOMAIN txs : txs'[i] = txs[i]
  BY Sent
<1> HIDE DEF h
<1>2. ~Launching(f) /\ ~Masked(f)
  BY <1>0 DEF Launching, Prompting, Masked, At
<1>3. /\ isLaunchCommitted(draft) /\ AfterLaunch /\ "draft" \notin lost
      /\ d.policy = draft.policy /\ d.launchTx # NoTx
  BY <1>1, <1>2 DEF Inv, LaunchOK, BeforeLaunch, AfterLaunch, Gone
<1>4. \A i \in DOMAIN txs' :
         /\ "answer" \notin lost /\ txs'[i].kind = "launch" => i = 1
         /\ txs'[i].kind = "lock" => draft.policy # "burn"
         /\ txs'[i].kind = "burn" => draft.policy = "burn"
  <2> TAKE i \in DOMAIN txs'
  <2>1. CASE i = h
    BY <2>1, <1>1, <1>3 DEF Proposed, Unlocked, Unburned
  <2>2. CASE i \in DOMAIN txs
    BY <2>2, <1>1, <1>3 DEF Inv, LaunchOK
  <2>. QED BY <2>1, <2>2, <1>1
<1>. QED BY <1>3, <1>4

(* AfterLaunch beside a flow that moved with the stored policy.            *)
LEMMA MovedLater ==
    ASSUME NEW f \in Flows, Inv, AfterLaunch, UNCHANGED draft, NEW r \in FlowType,
           flow' = [flow EXCEPT ![f] = r],
           r.pc # "idle" =>
              /\ r.pc # "prepare" /\ r.kind # "launch"
              /\ r.snap.launchTx # NoTx /\ r.snap.policy = draft.policy
    PROVE  AfterLaunch' /\ \A g \in Flows : ~Prompting(g)'
<1>1. \A g \in Flows : Alive(g)' =>
         /\ ~Launching(g)'
         /\ flow'[g].snap.launchTx # NoTx /\ flow'[g].snap.policy = draft.policy
  <2> TAKE g \in Flows
  <2>1. CASE g = f
    <3>1. flow'[g] = r
      BY <2>1 DEF Inv, Types
    <3>. QED BY <3>1 DEF Alive, Launching, Prompting, At
  <2>2. CASE g # f
    <3>1. flow'[g] = flow[g]
      BY <2>2 DEF Inv, Types
    <3>. QED BY <3>1 DEF AfterLaunch, Alive, Launching, Prompting, At
  <2>. QED BY <2>1, <2>2
<1>. QED BY <1>1 DEF AfterLaunch, Alive, Launching, Prompting, At

(* The launch is signed by the one flow, on a page that has it.            *)
LEMMA SentLaunch ==
    ASSUME NEW f \in Flows, Inv, Send(f), flow[f].kind = "launch"
    PROVE  /\ ~isLaunchCommitted(draft) /\ BeforeLaunch /\ flow[f].snap = draft
           /\ "draft" \notin lost /\ Alive(f) /\ \A g \in Flows : Alive(g) => g = f
           /\ draft.policy \in Policies /\ draft # BlankDraft
           /\ page.ref => page.flow = f /\ page.flow # "none"
           /\ \A i \in DOMAIN txs' :
                 txs'[i].kind = "launch" /\ ("answer" \notin lost => i = 1)
<1>1. Prompting(f) /\ Launching(f)
  BY DEF Prompting, Launching, At, Send
<1>2. /\ ~isLaunchCommitted(draft) /\ BeforeLaunch /\ flow[f].snap = draft /\ Alive(f)
      /\ "draft" \notin lost /\ \A g \in Flows : Alive(g) => g = f
  BY <1>1, LaunchingFacts
<1>3. draft.policy \in Policies /\ (page.ref => page.flow = f)
  BY <1>2 DEF BeforeLaunch
<1>4. draft # BlankDraft /\ f # "none"
  BY <1>3, PonsAssumption DEF BlankDraft
<1>5. /\ \A i \in DOMAIN txs : txs[i].kind = "launch"
      /\ "answer" \notin lost => txs = <<>>
  BY <1>1, <1>2 DEF Inv, LaunchOK
<1> DEFINE h == Len(txs')
<1>6. /\ txs'[h].kind = "launch" /\ h = Len(txs) + 1
      /\ \A i \in DOMAIN txs' : i \in DOMAIN txs \/ i = h
      /\ \A i \in DOMAIN txs : txs'[i] = txs[i]
  BY Sent
<1> HIDE DEF h
<1>7. \A i \in DOMAIN txs' : txs'[i].kind = "launch"
  BY <1>5, <1>6
<1>8. "answer" \notin lost => DOMAIN txs = {} /\ h = 1
  BY <1>5, <1>6
<1>. QED BY <1>2, <1>3, <1>4, <1>6, <1>7, <1>8

(* Sign: a launch is the first transaction unless an answer was lost, any  *)
(* other one follows the stored policy.                                    *)
LEMMA SignInv ==
    ASSUME NEW f \in Flows, Inv, Sign(f)
    PROVE  Inv'
<1> DEFINE d == flow[f].snap
           k == flow[f].kind
           h == Len(txs')
           r == [flow[f] EXCEPT !.pc = "save", !.hash = h]
<1>1. /\ Send(f) /\ At(f, "sign") /\ flow' = [flow EXCEPT ![f].pc = "save", ![f].hash = h]
      /\ UNCHANGED <<draft, page, held, allowance, now, lost>>
  BY DEF Sign, Send
<1>2. /\ k \in Kinds /\ Alive(f) /\ flow[f] \in FlowType
      /\ d \in DraftType /\ Evidence(d)
      /\ k \in {"approve", "lock"} => Proposed(d)
      /\ k = "burn" => Unburned(d)
      /\ txs' \in Seq(TxType) /\ Len(txs') <= MaxTx /\ h \in TxId
      /\ h \in DOMAIN txs' /\ txs'[h].kind = k
      /\ k = "lock" => txs'[h].unlock = d.unlock
      /\ Grows
  BY <1>1, Sent
<1> HIDE DEF h
<1>3. r \in FlowType /\ r.pc = "save" /\ r.kind = k /\ r.hash = h /\ r.snap = d
  BY <1>2 DEF FlowType, Pcs
<1>4. flow' = [flow EXCEPT ![f] = r]
  BY <1>1
<1> HIDE DEF r
<1>5. Types'
  <2>1. flow' \in [Flows -> FlowType]
    BY <1>3, <1>4 DEF Inv, Types
  <2>. QED BY <1>1, <1>2, <2>1 DEF Inv, Types
<1>6. Documents'
  <2>1. PICK q \in FlowType : q = r
    BY <1>3
  <2>2. q.pc = "save" /\ q.kind = k /\ q.snap = d
    BY <1>3, <2>1
  <2>3. /\ q.hash \in DOMAIN txs' /\ txs'[q.hash].kind = q.kind
        /\ q.kind = "lock" => txs'[q.hash].unlock = q.snap.unlock
    BY <1>2, <1>3, <2>1
  <2>4. (k \in {"approve", "lock"} => Proposed(q.snap)) /\ (k = "burn" => Unburned(q.snap))
    BY <1>2, <2>2
  <2>5. Place(q)'
    BY <2>2, <2>3, <2>4 DEF Place, HasKind, Proposed, Unlocked, Unburned,
                            isLockCommitted, proposeUnlock
  <2>. QED BY <1>1, <1>2, <1>4, <2>1, <2>2, <2>5, SentDocuments
<1>7. LaunchOK'
  <2>1. CASE k = "launch"
    <3>1. /\ ~isLaunchCommitted(draft) /\ BeforeLaunch /\ d = draft /\ "draft" \notin lost
          /\ \A g \in Flows : Alive(g) => g = f
          /\ draft.policy \in Policies /\ draft # BlankDraft
          /\ page.ref => page.flow = f /\ page.flow # "none"
          /\ \A i \in DOMAIN txs' :
                txs'[i].kind = "launch" /\ ("answer" \notin lost => i = 1)
      BY <1>1, <2>1, SentLaunch
    <3>2. \A g \in Flows : Alive(g)' => g = f
      BY <1>4, <3>1 DEF Alive, Inv, Types
    <3>3. Launching(f)' /\ ~Prompting(f)' /\ flow'[f].snap = draft' /\ Alive(f)'
      BY <1>1, <1>3, <1>4, <2>1, <3>1 DEF Launching, Prompting, At, Alive, Inv, Types
    <3>4. BeforeLaunch'
      BY <1>1, <3>1, <3>2, <3>3 DEF BeforeLaunch
    <3>5. \A g \in Flows : ~Prompting(g)'
      BY <3>2, <3>3 DEF Prompting, At, Alive
    <3>. QED BY <1>1, <3>1, <3>4, <3>5 DEF LaunchOK, isLaunchCommitted
  <2>2. CASE k # "launch"
    <3>1. /\ isLaunchCommitted(draft) /\ AfterLaunch /\ "draft" \notin lost
          /\ d.policy = draft.policy /\ d.launchTx # NoTx
          /\ \A i \in DOMAIN txs' :
                /\ "answer" \notin lost /\ txs'[i].kind = "launch" => i = 1
                /\ txs'[i].kind = "lock" => draft.policy # "burn"
                /\ txs'[i].kind = "burn" => draft.policy = "burn"
      BY <1>1, <2>2, SentLater
    <3>2. PICK q \in FlowType : q = r
      BY <1>3
    <3>3. /\ q.pc # "prepare" /\ q.kind # "launch" /\ q.snap.launchTx # NoTx
          /\ q.snap.policy = draft.policy /\ flow' = [flow EXCEPT ![f] = q] /\ UNCHANGED draft
      BY <1>1, <1>3, <1>4, <2>2, <3>1, <3>2
    <3>4. AfterLaunch' /\ \A g \in Flows : ~Prompting(g)'
      BY <3>1, <3>3, MovedLater
    <3>. QED BY <1>1, <3>1, <3>4 DEF LaunchOK, isLaunchCommitted
  <2>. QED BY <2>1, <2>2
<1>. QED BY <1>5, <1>6, <1>7 DEF Inv

(* SignLost: the transaction is sent, and nobody knows its hash.           *)
LEMMA SignLostInv ==
    ASSUME NEW f \in Flows, Inv, SignLost(f)
    PROVE  Inv'
<1> DEFINE k == flow[f].kind
<1>1. /\ Send(f) /\ flow' = [flow EXCEPT ![f] = IdleFlow]
      /\ page' = IF page.flow = f THEN [page EXCEPT !.flow = "none"] ELSE page
      /\ lost' = lost \cup NotKept(k)
      /\ UNCHANGED <<draft, held, allowance, now>>
  BY DEF SignLost, Send, Goto
<1>2. /\ k \in Kinds /\ txs' \in Seq(TxType) /\ Len(txs') <= MaxTx /\ Grows
  BY <1>1, Sent
<1>3. IdleFlow \in FlowType /\ IdleFlow.pc = "idle" /\ Evidence(IdleFlow.snap)
  BY BlankType, BlankEvidence DEF IdleFlow
<1>4. /\ lost' \subseteq Kinds \cup {"draft", "answer"}
      /\ "draft" \in lost' <=> "draft" \in lost
      /\ "answer" \in lost' <=> "answer" \in lost \/ k = "launch"
  BY <1>1, <1>2 DEF Inv, Types, NotKept, Kinds
<1>5. Types'
  <2>1. flow' \in [Flows -> FlowType] /\ page' \in PageType
    BY <1>1, <1>3 DEF Inv, Types, PageType
  <2>. QED BY <1>1, <1>2, <1>4, <2>1 DEF Inv, Types
<1>6. Documents'
  <2>1. Place(IdleFlow)'
    BY DEF Place, IdleFlow
  <2>. QED BY <1>1, <1>2, <1>3, <2>1, SentDocuments
<1>7. LaunchOK'
  <2>1. CASE k = "launch"
    <3>1. /\ ~isLaunchCommitted(draft) /\ BeforeLaunch /\ "draft" \notin lost
          /\ \A g \in Flows : Alive(g) => g = f
          /\ draft # BlankDraft /\ \A i \in DOMAIN txs' : txs'[i].kind = "launch"
      BY <1>1, <2>1, SentLaunch
    <3>2. \A g \in Flows : ~Alive(g)'
      BY <1>1, <1>3, <3>1 DEF Alive, Inv, Types
    <3>3. BeforeLaunch'
      BY <1>1, <1>4, <2>1, <3>1, <3>2 DEF BeforeLaunch
    <3>. QED BY <1>1, <1>4, <2>1, <3>1, <3>3 DEF LaunchOK, isLaunchCommitted
  <2>2. CASE k # "launch"
    <3>1. /\ isLaunchCommitted(draft) /\ AfterLaunch /\ "draft" \notin lost
          /\ \A i \in DOMAIN txs' :
                /\ "answer" \notin lost /\ txs'[i].kind = "launch" => i = 1
                /\ txs'[i].kind = "lock" => draft.policy # "burn"
                /\ txs'[i].kind = "burn" => draft.policy = "burn"
      BY <1>1, <2>2, SentLater
    <3>2. PICK q \in FlowType : q = IdleFlow
      BY <1>3
    <3>3. q.pc = "idle" /\ flow' = [flow EXCEPT ![f] = q] /\ UNCHANGED draft
      BY <1>1, <1>3, <3>2
    <3>4. AfterLaunch' /\ \A g \in Flows : ~Prompting(g)'
      BY <3>1, <3>3, MovedLater
    <3>. QED BY <1>1, <1>4, <3>1, <3>4 DEF LaunchOK, isLaunchCommitted
  <2>. QED BY <2>1, <2>2
<1>. QED BY <1>5, <1>6, <1>7 DEF Inv


(* Documents that stay, beside transactions that only gain.                *)
LEMMA GrownDocuments ==
    ASSUME Types, Documents, Grows, UNCHANGED <<draft, flow>>
    PROVE  Documents'
<1>1. PICK e \in DraftType, s \in [Flows -> FlowType] : e = draft /\ s = flow
  BY DEF Types
<1>2. Evidence(e)' /\ \A g \in Flows : Evidence(s[g].snap)' /\ Place(s[g])'
  <2>1. Evidence(e) /\ \A g \in Flows : Evidence(s[g].snap) /\ Place(s[g])
    BY <1>1 DEF Documents
  <2>2. \A g \in Flows : s[g] \in FlowType /\ s[g].snap \in DraftType
    BY DEF FlowType
  <2>. QED BY <2>1, <2>2, EvidenceStays, PlaceStays
<1>3. draft' = e /\ flow' = s
  BY <1>1
<1>4. Evidence(draft)'
  BY <1>2, <1>3 DEF Evidence, HasKind, Succeeded, MatchingLocks
<1>5. \A g \in Flows : Evidence(flow[g].snap)' /\ Place(flow[g])'
  BY <1>2, <1>3 DEF Evidence, Place, HasKind, Succeeded, MatchingLocks
<1>. QED BY <1>4, <1>5 DEF Documents

(* A transaction is mined: it gets a verdict and a time.                   *)
LEMMA TxsMined ==
    ASSUME Types, NEW i \in DOMAIN txs, NEW v \in {"success", "reverted"},
           txs[i].status = "pending",
           txs' = [txs EXCEPT ![i].status = v, ![i].at = now]
    PROVE  /\ txs' \in Seq(TxType) /\ Len(txs') = Len(txs) /\ DOMAIN txs' = DOMAIN txs
           /\ \A j \in DOMAIN txs : /\ txs'[j].kind = txs[j].kind
                                    /\ txs'[j].unlock = txs[j].unlock
                                    /\ j # i => txs'[j] = txs[j]
           /\ txs'[i].status = v
           /\ Grows
<1>1. txs \in Seq(TxType) /\ DOMAIN txs = 1..Len(txs) /\ now \in Times
  BY LenProperties DEF Types
<1> DEFINE t == [txs[i] EXCEPT !.status = v, !.at = now]
<1>2. txs[i] \in TxType
  BY <1>1, ElementOfSeq
<1>3. t \in TxType /\ t.kind = txs[i].kind /\ t.unlock = txs[i].unlock /\ t.status = v
  BY <1>1, <1>2 DEF TxType
<1>4. txs' = [txs EXCEPT ![i] = t]
  BY <1>1
<1> HIDE DEF t
<1>5. /\ txs' \in Seq(TxType) /\ Len(txs') = Len(txs)
      /\ \A j \in 1..Len(txs) : txs'[j] = IF j = i THEN t ELSE txs[j]
  <2>1. \A s \in Seq(TxType) : \A j \in 1..Len(s), e \in TxType :
           /\ [s EXCEPT ![j] = e] \in Seq(TxType) /\ Len([s EXCEPT ![j] = e]) = Len(s)
           /\ \A m \in 1..Len(s) : [s EXCEPT ![j] = e][m] = IF m = j THEN e ELSE s[m]
    BY ExceptSeq
  <2>2. i \in 1..Len(txs)
    BY <1>1
  <2>3. /\ [txs EXCEPT ![i] = t] \in Seq(TxType) /\ Len([txs EXCEPT ![i] = t]) = Len(txs)
        /\ \A m \in 1..Len(txs) : [txs EXCEPT ![i] = t][m] = IF m = i THEN t ELSE txs[m]
    BY <1>1, <1>3, <2>1, <2>2
  <2>. QED BY <1>4, <2>3
<1>6. DOMAIN txs' = 1..Len(txs')
  BY <1>5, LenProperties
<1>7. Grows
  BY <1>1, <1>3, <1>5, <1>6 DEF Grows, Succeeded
<1>. QED BY <1>1, <1>3, <1>5, <1>6, <1>7

(* Mine: verdicts only add evidence, and the balances do not go below      *)
(* zero.                                                                   *)
LEMMA MineInv ==
    ASSUME Inv, NEW i \in TxId, Mine(i)
    PROVE  Inv'
<1>1. /\ i \in DOMAIN txs /\ txs[i].status = "pending"
      /\ UNCHANGED <<draft, page, flow, now, lost>>
  BY DEF Mine
<1>2. \E v \in {"success", "reverted"} : txs' = [txs EXCEPT ![i].status = v, ![i].at = now]
  BY DEF Mine, MineSuccess, MineReverted
<1>3. /\ txs' \in Seq(TxType) /\ Len(txs') = Len(txs) /\ DOMAIN txs' = DOMAIN txs
      /\ \A j \in DOMAIN txs : txs'[j].kind = txs[j].kind
      /\ Grows
  BY <1>1, <1>2, TxsMined DEF Inv
<1>4. held' \in Nat /\ allowance' \in 0..1
  <2>1. held \in Nat /\ allowance \in 0..1 /\ Reserve \in Nat
    BY PonsAssumption DEF Inv, Types
  <2>2. CASE MineReverted(i)
    BY <2>1, <2>2 DEF MineReverted
  <2>3. CASE MineSuccess(i)
    <3>1. Affordable(txs[i].kind)
      BY <2>3 DEF MineSuccess
    <3>2. held' = CASE txs[i].kind = "launch" -> held + 1 + Reserve
                    [] txs[i].kind \in {"lock", "burn"} -> held - 1
                    [] OTHER -> held
      BY <2>3 DEF MineSuccess
    <3>3. allowance' = CASE txs[i].kind = "approve" -> 1
                         [] txs[i].kind = "lock" -> allowance - 1
                         [] OTHER -> allowance
      BY <2>3 DEF MineSuccess
    <3>4. held' \in Nat
      BY <2>1, <3>1, <3>2 DEF Affordable
    <3>5. allowance' \in 0..1
      BY <2>1, <3>1, <3>3 DEF Affordable
    <3>. QED BY <3>4, <3>5
  <2>. QED BY <2>2, <2>3 DEF Mine
<1>5. Types'
  BY <1>1, <1>3, <1>4 DEF Inv, Types
<1>6. Documents'
  BY <1>1, <1>3, GrownDocuments DEF Inv
<1>7. LaunchOK'
  <2>1. txs = <<>> => FALSE
    BY <1>1
  <2>2. BeforeLaunch => BeforeLaunch'
    BY <1>1, <2>1 DEF BeforeLaunch, Alive, Launching, Masked, Prompting, At
  <2>3. AfterLaunch => AfterLaunch'
    BY <1>1 DEF AfterLaunch, Alive, Launching, Prompting, At
  <2>4. Gone => Gone'
    BY <1>1 DEF Gone, Alive
  <2>5. "answer" \notin lost => \A g \in Flows : ~Prompting(g)'
    BY <1>1, <2>1 DEF Inv, LaunchOK, Prompting, At
  <2>. QED BY <1>1, <1>3, <2>2, <2>3, <2>4, <2>5 DEF Inv, LaunchOK, isLaunchCommitted
<1>. QED BY <1>5, <1>6, <1>7 DEF Inv

(* Time passes.                                                            *)
LEMMA TickInv ==
    ASSUME Inv, Tick
    PROVE  Inv'
<1>1. now' \in Times /\ UNCHANGED <<draft, page, flow, txs, held, allowance, lost>>
  BY PonsAssumption DEF Tick, Inv, Types, Times
<1>2. Types'
  BY <1>1 DEF Inv, Types
<1>3. Documents'
  BY <1>1, Unmoved, GrownDocuments DEF Inv
<1>4. LaunchOK'
  BY <1>1 DEF Inv, LaunchOK, BeforeLaunch, AfterLaunch, Gone, Alive, Launching, Masked,
              Prompting, At, isLaunchCommitted
<1>. QED BY <1>2, <1>3, <1>4 DEF Inv

(* Remount: the new mount offers the draft only if its launch is stored.   *)
LEMMA RemountInv ==
    ASSUME Inv, Remount
    PROVE  Inv'
<1>1. /\ page' = [ref |-> isLaunchCommitted(draft), flow |-> "none", busy |-> FALSE]
      /\ UNCHANGED <<draft, flow, txs, held, allowance, now, lost>>
  BY DEF Remount, Mounted, chain
<1>2. Types'
  BY <1>1 DEF Inv, Types, PageType, isLaunchCommitted
<1>3. Documents'
  BY <1>1, Unmoved, GrownDocuments DEF Inv
<1>4. LaunchOK'
  <2>1. ~isLaunchCommitted(draft) => page'.ref = FALSE
    BY <1>1
  <2>2. ~isLaunchCommitted(draft) /\ BeforeLaunch => BeforeLaunch'
    BY <1>1, <2>1 DEF BeforeLaunch, Alive, Launching, Masked, Prompting, At
  <2>3. AfterLaunch => AfterLaunch'
    BY <1>1 DEF AfterLaunch, Alive, Launching, Prompting, At
  <2>4. Gone => Gone'
    BY <1>1, <2>1, BlankType DEF Gone, Alive, isLaunchCommitted, BlankDraft, NoTx
  <2>5. "answer" \notin lost => \A g \in Flows : Prompting(g)' => txs' = <<>>
    BY <1>1 DEF Inv, LaunchOK, Prompting, At
  <2>. QED BY <1>1, <2>2, <2>3, <2>4, <2>5 DEF Inv, LaunchOK, isLaunchCommitted
<1>. QED BY <1>2, <1>3, <1>4 DEF Inv

(* Reload: no flow survives, and a draft that is gone is marked as lost.   *)
LEMMA ReloadInv ==
    ASSUME Inv, Reload
    PROVE  Inv'
<1>1. /\ draft' = IF Durable THEN draft ELSE BlankDraft
      /\ page' = [ref |-> isLaunchCommitted(draft'), flow |-> "none", busy |-> FALSE]
      /\ flow' = [g \in Flows |-> IdleFlow]
      /\ lost' = lost \cup {flow[f].kind : f \in {g \in Flows : At(g, "save")}}
                      \cup (IF Durable THEN {} ELSE {"draft"})
      /\ UNCHANGED <<txs, held, allowance, now>>
  BY DEF Reload, Mounted, chain
<1>2. PICK e \in DraftType : e = draft' /\ Evidence(e)
  BY <1>1, BlankType, BlankEvidence DEF Inv, Types, Documents
<1>3. \A f \in Flows : At(f, "save") => flow[f].kind \in Kinds
  <2> TAKE f \in Flows
  <2> HAVE At(f, "save")
  <2>1. HasKind(flow[f].hash, flow[f].kind)
    BY SnapFacts DEF Place, At, Inv
  <2>. QED BY <2>1, KindFacts DEF Inv
<1>4. flow' \in [Flows -> FlowType]
  BY <1>1, BlankType
<1>5. lost' \subseteq Kinds \cup {"draft", "answer"}
  BY <1>1, <1>3 DEF Inv, Types
<1>6. page' \in PageType
  BY <1>1 DEF PageType, isLaunchCommitted
<1>7. Types'
  BY <1>1, <1>2, <1>4, <1>5, <1>6 DEF Inv, Types
<1>8. Documents'
  <2>1. PICK s \in [Flows -> FlowType] : s = flow' /\ \A g \in Flows : s[g] = IdleFlow
    BY <1>1, <1>4
  <2>2. \A g \in Flows : Evidence(s[g].snap) /\ Place(s[g])
    BY <2>1, BlankEvidence
  <2>. QED BY <1>1, <1>2, <2>1, <2>2, SameDocuments DEF Inv
<1>9. \A g \in Flows : ~Alive(g)' /\ ~Prompting(g)'
  BY <1>1 DEF Alive, Prompting, At, IdleFlow
<1>10. "draft" \notin Kinds
  BY DEF Kinds
<1>11. "draft" \in lost' => draft' = BlankDraft
  BY <1>1, <1>3, <1>10 DEF Inv, LaunchOK, Gone
<1>12. ~isLaunchCommitted(BlankDraft)
  BY DEF isLaunchCommitted, BlankDraft, NoTx
<1>13. "draft" \in lost' => Gone'
  BY <1>1, <1>9, <1>11, <1>12 DEF Gone
<1>14. "draft" \notin lost' => draft' = draft /\ "draft" \notin lost
  BY <1>1
<1>15. isLaunchCommitted(draft') => AfterLaunch'
  BY <1>9 DEF AfterLaunch
<1>16. ~isLaunchCommitted(draft') => BeforeLaunch'
  <2> HAVE ~isLaunchCommitted(draft')
  <2>1. draft' = [BlankDraft EXCEPT !.policy = draft'.policy]
    <3>1. CASE draft' = draft
      BY <3>1, <1>2 DEF Inv, LaunchOK, BeforeLaunch, isLaunchCommitted
    <3>2. CASE draft' = BlankDraft
      BY <3>2 DEF BlankDraft
    <3>. QED BY <3>1, <3>2, <1>1
  <2>2. draft' = BlankDraft /\ "draft" \notin lost' => txs' = <<>>
    BY <1>1, <1>14, <1>12 DEF Inv, LaunchOK, BeforeLaunch
  <2>3. ~page'.ref
    BY <1>1
  <2>. QED BY <1>9, <2>1, <2>2, <2>3 DEF BeforeLaunch
<1>17. LaunchOK'
  BY <1>1, <1>9, <1>13, <1>14, <1>15, <1>16 DEF Inv, LaunchOK, isLaunchCommitted
<1>. QED BY <1>7, <1>8, <1>17 DEF Inv

(* The initial state.                                                      *)
LEMMA InitInv == Init => Inv
<1> SUFFICES ASSUME Init
             PROVE  Inv
  OBVIOUS
<1>1. txs \in Seq(TxType) /\ Len(txs) = 0 /\ DOMAIN txs = {}
  BY EmptySeq DEF Init
<1>2. \A f \in Flows : flow[f] = IdleFlow /\ ~Alive(f) /\ ~Prompting(f)
  BY DEF Init, Alive, Prompting, At, IdleFlow
<1>3. Types
  BY <1>1, BlankType, PonsAssumption DEF Init, Types, Times, PageType
<1>4. Documents
  BY <1>2, BlankEvidence DEF Init, Documents
<1>5. ~isLaunchCommitted(BlankDraft) /\ BlankDraft = [BlankDraft EXCEPT !.policy = BlankDraft.policy]
  BY DEF isLaunchCommitted, BlankDraft, NoTx
<1>6. LaunchOK
  BY <1>1, <1>2, <1>5 DEF Init, LaunchOK, BeforeLaunch
<1>. QED BY <1>3, <1>4, <1>6 DEF Inv

(* Nothing changes.                                                        *)
LEMMA StutterInv == Inv /\ UNCHANGED vars => Inv'
<1> SUFFICES ASSUME Inv, UNCHANGED vars
             PROVE  Inv'
  OBVIOUS
<1>1. Types'
  BY DEF Inv, Types, vars
<1>2. Documents'
  BY Unmoved, GrownDocuments DEF Inv, vars
<1>3. LaunchOK'
  BY DEF Inv, LaunchOK, BeforeLaunch, AfterLaunch, Gone, Alive, Launching, Masked,
         Prompting, At, isLaunchCommitted, vars
<1>. QED BY <1>1, <1>2, <1>3 DEF Inv

(* What a flow does while the draft has no launch, or has one.             *)
LEMMA FlowInv ==
    ASSUME NEW f \in Flows, Inv, Steps(f)
    PROVE  Inv'
<1>1. CASE Prepare(f)
  BY <1>1, PrepareInv
<1>2. CASE Saves(f) /\ flow[f].kind = "launch"
  BY <1>2, LaunchStoredInv
<1>3. CASE ~Prepare(f) /\ ~(Saves(f) /\ flow[f].kind = "launch")
  <2>1. Works(f)
    BY <1>3, StepWorks DEF Inv
  <2>2. CASE isLaunchCommitted(draft)
    BY <2>1, <2>2, WorkInv
  <2>3. CASE ~isLaunchCommitted(draft) /\ ~Throw(f)
    <3>1. Alive(f)
      BY <2>1 DEF Works, Worked
    <3>2. Launching(f) \/ Masked(f)
      BY <2>3, <3>1 DEF Inv, LaunchOK, BeforeLaunch
    <3>3. CASE Launching(f)
      <4>1. flow[f].pc \in {"prepare", "save"} \/ (flow[f].pc = "sign" /\ flow[f].kind = "launch")
        BY <3>3 DEF Launching, Prompting, At
      <4>2. flow[f].pc = "save" => flow[f].kind = "launch"
        BY <3>3 DEF Launching, Prompting, At
      <4>. QED
        BY <1>3, <2>3, <4>1, <4>2
        DEF Steps, Saves, SaveHashMasked,
            FlowStep, SaveHash, ReceiptReverted, Prepare, LaunchConfirmed, RecoverLaunch,
            SearchLock, Preflight, ApprovalConfirmed, SimulateLock, LockConfirmed, VerifyLock,
            RecoverLockId, RecoverLockTx, CheckBurn, BurnConfirmed, RecoverBurn, Confirmed, At
    <3>4. CASE Masked(f)
      <4>1. flow[f].pc = "wait" /\ flow[f].kind = "launch"
        BY <3>4 DEF Masked, At
      <4>2. ReceiptReverted(f) \/ LaunchConfirmed(f)
        BY <2>3, <4>1
        DEF Steps, SaveHashMasked,
            FlowStep, SaveHash, Prepare, RecoverLaunch,
            SearchLock, Preflight, ApprovalConfirmed, SimulateLock, LockConfirmed, VerifyLock,
            RecoverLockId, RecoverLockTx, CheckBurn, BurnConfirmed, RecoverBurn, Confirmed, At
      <4>3. flow[f].snap \in DraftType
        BY SnapFacts DEF Inv
      <4>4. draft' = [flow[f].snap EXCEPT !.lastError = "TX_REVERTED"]
            \/ draft' = [flow[f].snap EXCEPT !.token = TRUE]
        BY <4>2 DEF ReceiptReverted, LaunchConfirmed, SaveAndReturn, SaveAndFinish
      <4>5. draft'.launchTx = flow[f].snap.launchTx
        BY <4>3, <4>4 DEF DraftType
      <4>. QED BY <2>1, <2>3, <3>4, <4>5, MaskedInv DEF Masked
    <3>. QED BY <3>2, <3>3, <3>4
  <2>4. CASE ~isLaunchCommitted(draft) /\ Throw(f)
    BY <2>4, ThrowInv
  <2>. QED BY <2>2, <2>3, <2>4
<1>. QED BY <1>1, <1>2, <1>3

(* Every step preserves the invariant.                                     *)
LEMMA StepInv == Inv /\ [Next]_vars => Inv'
BY SubmitInv, ResumeInv, SignInv, SignLostInv, FlowInv, MineInv, TickInv, RemountInv,
   ReloadInv, StutterInv DEF Next, Steps


-----------------------------------------------------------------------------
(* Pages that are not left with their flow running. *)

(* A draft that is not launched has nothing to settle.                     *)
LEMMA NothingToSettle ==
    ASSUME Inv, ~isLaunchCommitted(draft), "draft" \notin lost
    PROVE  \A kind \in {"lock", "burn"} : Live(kind) = {}
BY DEF Inv, LaunchOK, Live

(* The fields that hold the hash of a lock and of a burn.                  *)
LEMMA KindFields ==
    ASSUME NEW d \in DraftType
    PROVE  d[HashField["lock"]] = d.lockTx /\ d[HashField["burn"]] = d.burnTx
BY HashFields

(* A snapshot ahead of its draft keeps what the draft knows, and the other *)
(* hashes.                                                                 *)
LEMMA AheadKeeps ==
    ASSUME NEW f \in Flows, Inv, Ahead(f), isLaunchCommitted(draft)
    PROVE  /\ Keeps(draft, flow[f].snap) /\ flow[f].kind \in Kinds \ {"launch"}
           /\ \A kind \in {"lock", "burn"} : kind # flow[f].kind =>
                 flow[f].snap[HashField[kind]] = draft[HashField[kind]]
           /\ flow[f].kind = "burn" => draft.burnTx = NoTx
<1> DEFINE k == flow[f].kind
           h == flow[f].hash
           w == WithHash(draft, k, h)
<1>1. /\ At(f, "wait") /\ flow[f].snap = w
      /\ k # "approve" => draft[HashField[k]] = NoTx
  BY DEF Ahead
<1>2. draft \in DraftType /\ Evidence(draft) /\ Place(flow[f])
  BY SnapFacts DEF Inv, Types, Documents
<1>3. HasKind(h, k)
  BY <1>1, <1>2 DEF Place, At
<1>4. h \in TxId /\ k \in Kinds
  BY <1>3, KindFacts DEF Inv
<1>5. /\ w \in DraftType
      /\ k # "launch" => w.launchTx = draft.launchTx
      /\ k # "lock" => w.lockTx = draft.lockTx
      /\ k # "burn" => w.burnTx = draft.burnTx
      /\ w.policy = draft.policy /\ w.token = draft.token /\ w.lockId = draft.lockId
      /\ w.lockVerified = draft.lockVerified /\ w.burnVerified = draft.burnVerified
  BY <1>2, <1>4, HashStored
<1>6. k # "launch"
  BY <1>1, <1>2, HashFields DEF isLaunchCommitted, Evidence
<1>7. k = "lock" => draft.lockTx = NoTx
  BY <1>1, <1>2, KindFields
<1>8. k = "burn" => draft.burnTx = NoTx
  BY <1>1, <1>2, KindFields
<1> HIDE DEF w
<1>9. Keeps(draft, w)
  BY <1>5, <1>6, <1>7, <1>8 DEF Keeps, Settled
<1>10. \A kind \in {"lock", "burn"} : kind # k => w[HashField[kind]] = draft[HashField[kind]]
  BY <1>2, <1>5, KindFields
<1>. QED BY <1>1, <1>4, <1>6, <1>8, <1>9, <1>10

(* What is kept twice is kept.                                             *)
LEMMA KeepsOn ==
    ASSUME NEW d \in DraftType, NEW e \in DraftType, NEW w \in DraftType,
           Keeps(d, e), Keeps(e, w), d.burnTx = e.burnTx \/ d.burnTx = NoTx
    PROVE  Keeps(d, w)
BY DEF Keeps

(* The hash that the only flow keeps to itself is ahead of its draft.      *)
LEMMA HidAhead ==
    ASSUME NEW f \in Flows, NEW w \in DraftType, NEW r \in FlowType, Inv,
           flow[f].snap = draft, Worked(f, w, r), Hid(f, w, r)
    PROVE  Ahead(f)'
<1> DEFINE k == flow[f].kind
<1>1. /\ draft' = draft /\ At(f, "save") /\ k \in Kinds \ {"launch"}
      /\ w = WithHash(draft, k, flow[f].hash)
      /\ r = [flow[f] EXCEPT !.pc = "wait", !.snap = w]
      /\ lost' = lost \cup {k}
  BY DEF Hid
<1>2. flow'[f] = r
  BY DEF Worked, Inv, Types
<1>3. flow[f] \in FlowType /\ draft \in DraftType /\ Place(flow[f])
  BY SnapFacts DEF Inv, Types
<1>4. r.pc = "wait" /\ r.kind = k /\ r.hash = flow[f].hash /\ r.snap = w
  BY <1>1, <1>3 DEF FlowType
<1>5. k = "lock" => draft.lockTx = NoTx
  BY <1>1, <1>3 DEF Place, At, Proposed, Unlocked, isLockCommitted
<1>6. k = "burn" => draft.burnTx = NoTx
  BY <1>1, <1>3 DEF Place, At, Unburned
<1>7. k # "approve" => draft[HashField[k]] = NoTx
  BY <1>1, <1>3, <1>5, <1>6, KindFields DEF Kinds
<1>8. flow'[f].pc = "wait" /\ flow'[f].kind = k /\ flow'[f].hash = flow[f].hash /\ flow'[f].snap = w
  BY <1>2, <1>4
<1>. QED BY <1>1, <1>7, <1>8 DEF Ahead, At, WithHash

(* The only flow stores its own snapshot, which keeps what the draft knew  *)
(* and the hash of every lock and burn.                                    *)
LEMMA WorkAlone ==
    ASSUME NEW f \in Flows, Inv, OneMount, Works(f)
    PROVE  OneMount' /\ (isLaunchCommitted(draft) => Keeps(draft, draft'))
<1>1. PICK w \in DraftType, r \in FlowType : Worked(f, w, r)
  BY DEF Works
<1>2. Alive(f) /\ page.flow = f /\ (flow[f].snap = draft \/ Ahead(f))
  BY <1>1 DEF Worked, OneMount, Alone
<1>3. \A g \in Flows : Alive(g) => g = f
  BY <1>2 DEF OneMount, Alone
<1>4. txs' = txs /\ lost \subseteq lost' /\ ("draft" \in lost' <=> "draft" \in lost)
  BY <1>1 DEF Worked, Hid, chain, Kinds
<1>5. flow'[f] = r /\ \A g \in Flows : g # f => flow'[g] = flow[g]
  BY <1>1 DEF Worked, Inv, Types
<1>0. draft \in DraftType /\ flow[f].snap \in DraftType
  BY SnapFacts DEF Inv, Types
<1>6. Alone'
  <2>1. \A g \in Flows : Alive(g)' => g = f
    BY <1>3, <1>5 DEF Alive
  <2>2. Alive(f)' => page' = page /\ r.snap = w
    BY <1>1, <1>5 DEF Worked, Alive
  <2>3. Alive(f)' => draft' = w \/ Ahead(f)'
    <3>1. CASE Hid(f, w, r)
      <4>1. ~Ahead(f)
        BY <3>1 DEF Hid, Ahead, At
      <4>. QED BY <1>1, <1>2, <3>1, <4>1, HidAhead
    <3>2. CASE draft' = draft /\ w = flow[f].snap /\ ~Hid(f, w, r)
      <4>1. Ahead(f) => At(f, "wait")
        BY DEF Ahead
      <4>2. At(f, "wait") => r.pc = "idle" \/ draft' = w
        BY <1>1, <3>2 DEF Worked
      <4>. QED BY <1>2, <1>5, <3>2, <4>1, <4>2 DEF Alive
    <3>. QED BY <1>1, <3>1, <3>2 DEF Worked
  <2>. QED BY <1>2, <1>5, <2>1, <2>2, <2>3 DEF Alone
<1>7. isLaunchCommitted(draft) => Keeps(flow[f].snap, w) /\ Keeps(draft, flow[f].snap)
      /\ (draft.burnTx = flow[f].snap.burnTx \/ draft.burnTx = NoTx)
  <2> HAVE isLaunchCommitted(draft)
  <2>1. Keeps(flow[f].snap, w)
    BY <1>1 DEF Worked
  <2>2. CASE flow[f].snap = draft
    BY <2>1, <2>2 DEF Keeps
  <2>3. CASE Ahead(f)
    <3>1. /\ Keeps(draft, flow[f].snap) /\ flow[f].kind \in Kinds \ {"launch"}
          /\ "burn" # flow[f].kind =>
                flow[f].snap[HashField["burn"]] = draft[HashField["burn"]]
          /\ flow[f].kind = "burn" => draft.burnTx = NoTx
      BY <2>3, AheadKeeps
    <3>. QED BY <1>0, <2>1, <3>1, KindFields
  <2>. QED BY <1>2, <2>2, <2>3
<1>8. isLaunchCommitted(draft) => Keeps(draft, w)
  BY <1>0, <1>7, KeepsOn
<1>9. isLaunchCommitted(draft) => Keeps(draft, draft')
  <2>1. CASE draft' = w
    BY <1>8, <2>1
  <2>2. CASE draft' = draft
    BY <2>2 DEF Keeps
  <2>. QED BY <1>1, <2>1, <2>2 DEF Worked, Hid
<1>10. Accounted'
  <2> SUFFICES ASSUME NEW kind \in {"lock", "burn"}, lost' \cap {kind, "draft"} = {},
                      NEW i \in Live(kind)
               PROVE  i = draft'[HashField[kind]]
    BY <1>4 DEF Accounted, Stored, Live
  <2>0. lost \cap {kind, "draft"} = {} /\ isLaunchCommitted(draft)
    BY <1>4, NothingToSettle
  <2>1. i \in DOMAIN txs /\ txs[i].kind = kind /\ txs[i].status # "reverted" /\ i # NoTx
    <3>1. HasKind(i, kind) /\ txs[i].status # "reverted"
      BY DEF Live, HasKind
    <3>. QED BY <3>1, KindFacts DEF HasKind, Inv
  <2>2. Stored(kind, i)
    BY <2>0 DEF OneMount, Accounted
  <2>3. draft' \in DraftType
    BY <1>0, <1>1 DEF Worked, Hid
  <2>4. CASE i = draft[HashField[kind]]
    <3>1. CASE kind = "lock"
      BY <1>0, <1>9, <2>0, <2>1, <2>3, <2>4, <3>1, KindFields DEF Keeps
    <3>2. CASE kind = "burn"
      BY <1>0, <1>9, <2>0, <2>1, <2>3, <2>4, <3>2, KindFields DEF Keeps
    <3>. QED BY <3>1, <3>2
  <2>5. CASE \E g \in Flows : At(g, "save") /\ flow[g].kind = kind /\ flow[g].hash = i
    <3>1. At(f, "save") /\ flow[f].kind = kind /\ flow[f].hash = i
      BY <1>3, <2>5 DEF At, Alive
    <3>2. w[HashField[kind]] = i
      BY <1>1, <3>1 DEF Worked
    <3>3. ~Hid(f, w, r)
      BY <3>1 DEF Hid
    <3>4. CASE draft' = w
      BY <3>2, <3>4
    <3>5. CASE draft' = draft /\ w = flow[f].snap
      <4>1. flow[f].snap = draft
        BY <1>2, <3>1 DEF Ahead, At
      <4>. QED BY <3>2, <3>5, <4>1
    <3>. QED BY <1>1, <3>3, <3>4, <3>5 DEF Worked
  <2>. QED BY <2>2, <2>4, <2>5 DEF Stored
<1>. QED BY <1>6, <1>9, <1>10 DEF OneMount

(* With the snapshot of the flow that launches nothing is to settle.       *)
LEMMA LaunchAlone ==
    ASSUME Inv, OneMount, ~isLaunchCommitted(draft), "draft" \notin lost, UNCHANGED txs
    PROVE  Accounted'
BY NothingToSettle DEF Accounted, Live

(* Starting, launching and signing on one page.                            *)
LEMMA OtherAlone ==
    ASSUME Inv, OneMount, ~Detached, NEW f \in Flows,
           \/ Submit(f) \/ Resume(f) \/ Sign(f) \/ SignLost(f) \/ Prepare(f)
           \/ (Saves(f) /\ flow[f].kind = "launch")
    PROVE  OneMount'
<1>1. CASE Submit(f)
  <2>1. /\ page.flow = "none" /\ ~isLaunchCommitted(draft)
        /\ page' = [ref |-> TRUE, flow |-> f, busy |-> FALSE]
        /\ UNCHANGED <<txs, lost>>
        /\ flow' = [flow EXCEPT ![f] = Begun("prepare", draft')]
    BY <1>1 DEF Submit, chain, Begun
  <2>2. "draft" \notin lost
    BY <1>1 DEF Submit, Inv, LaunchOK, Gone
  <2>3. \A g \in Flows : ~Alive(g)
    BY <2>1, PonsAssumption DEF OneMount, Alone
  <2>4. draft' \in DraftType
    BY <1>1, SubmitInv DEF Inv, Types
  <2>5. flow'[f].snap = draft'
    BY <2>1, <2>4, Started DEF Pcs, Inv, Types
  <2>6. Alone'
    BY <2>1, <2>3, <2>5 DEF Alone, Alive, Inv, Types
  <2>. QED BY <2>1, <2>2, <2>6, LaunchAlone DEF OneMount
<1>2. CASE Resume(f)
  <2>1. /\ page.flow = "none" /\ page' = [page EXCEPT !.flow = f] /\ At(f, "idle")
        /\ UNCHANGED <<draft, txs, lost>>
        /\ flow' = [flow EXCEPT ![f] = Begun(ResumeStep(draft), draft)]
    BY <1>2 DEF Resume, chain, Begun
  <2>2. \A g \in Flows : ~Alive(g)
    BY <2>1, PonsAssumption DEF OneMount, Alone
  <2>3. draft \in DraftType /\ ResumeStep(draft) \in Pcs
    BY DEF Inv, Types, ResumeStep, FinishStep, Pcs
  <2>4. flow'[f].snap = draft
    BY <2>1, <2>3, Started DEF Inv, Types
  <2>5. page'.flow = f
    BY <2>1 DEF Inv, Types, PageType
  <2>6. Alone'
    BY <2>1, <2>2, <2>4, <2>5 DEF Alone, Alive, Inv, Types
  <2>7. \A g \in Flows : ~At(g, "save")
    BY <2>2 DEF Alive, At
  <2>8. Accounted'
    BY <2>1, <2>7 DEF OneMount, Accounted, Stored, Live
  <2>. QED BY <2>6, <2>8 DEF OneMount
<1>3. CASE Sign(f)
  <2> DEFINE k == flow[f].kind
             h == Len(txs')
  <2>1. /\ Send(f) /\ At(f, "sign")
        /\ flow' = [flow EXCEPT ![f].pc = "save", ![f].hash = h]
        /\ UNCHANGED <<draft, page, lost>>
    BY <1>3 DEF Sign, Send
  <2>2. /\ k \in Kinds /\ Alive(f) /\ txs'[h].kind = k
        /\ \A i \in DOMAIN txs' : i \in DOMAIN txs \/ i = h
        /\ \A i \in DOMAIN txs : txs'[i] = txs[i]
    BY <2>1, Sent
  <2> HIDE DEF h
  <2>3. /\ flow'[f].pc = "save" /\ flow'[f].kind = k /\ flow'[f].hash = h
        /\ flow'[f].snap = flow[f].snap
        /\ \A g \in Flows : g # f => flow'[g] = flow[g]
    BY <2>1 DEF Inv, Types, FlowType
  <2>4. /\ page.flow = f /\ flow[f].snap = draft
        /\ \A g \in Flows : Alive(g) => g = f
    BY <2>1, <2>2 DEF OneMount, Alone, Ahead, At
  <2>5. Alone'
    BY <2>1, <2>3, <2>4 DEF Alone, Alive
  <2>6. Accounted'
    <3> SUFFICES ASSUME NEW kind \in {"lock", "burn"}, lost' \cap {kind, "draft"} = {},
                        NEW i \in Live(kind)'
                 PROVE  Stored(kind, i)'
      BY DEF Accounted
    <3>1. i \in DOMAIN txs' /\ txs'[i].kind = kind /\ txs'[i].status # "reverted"
      BY DEF Live
    <3>2. CASE i = h
      BY <2>2, <2>3, <3>1, <3>2 DEF Stored, At
    <3>3. CASE i \in DOMAIN txs
      <4>1. i \in Live(kind)
        BY <2>2, <3>1, <3>3 DEF Live
      <4>2. Stored(kind, i)
        BY <2>1, <4>1 DEF OneMount, Accounted
      <4>3. ~At(f, "save")
        BY <2>1 DEF At
      <4>. QED BY <2>1, <2>3, <4>2, <4>3 DEF Stored, At
    <3>. QED BY <2>2, <3>1, <3>2, <3>3
  <2>. QED BY <2>5, <2>6 DEF OneMount
<1>6. CASE SignLost(f)
  <2> DEFINE k == flow[f].kind
             h == Len(txs')
  <2>1. /\ Send(f) /\ At(f, "sign") /\ flow' = [flow EXCEPT ![f] = IdleFlow]
        /\ UNCHANGED draft /\ lost' = lost \cup NotKept(k)
    BY <1>6 DEF SignLost, Send, Goto
  <2>2. /\ k \in Kinds /\ Alive(f) /\ txs'[h].kind = k
        /\ \A i \in DOMAIN txs' : i \in DOMAIN txs \/ i = h
        /\ \A i \in DOMAIN txs : txs'[i] = txs[i]
    BY <2>1, Sent
  <2> HIDE DEF h
  <2>3. /\ flow'[f] = IdleFlow
        /\ \A g \in Flows : g # f => flow'[g] = flow[g]
    BY <2>1 DEF Inv, Types
  <2>4. \A g \in Flows : ~Alive(g)'
    BY <2>2, <2>3 DEF OneMount, Alone, Alive, IdleFlow
  <2>5. Alone'
    BY <2>4 DEF Alone
  <2>6. Accounted'
    <3> SUFFICES ASSUME NEW kind \in {"lock", "burn"}, lost' \cap {kind, "draft"} = {},
                        NEW i \in Live(kind)'
                 PROVE  Stored(kind, i)'
      BY DEF Accounted
    <3>1. i \in DOMAIN txs' /\ txs'[i].kind = kind /\ txs'[i].status # "reverted"
      BY DEF Live
    <3>2. kind # k /\ lost \cap {kind, "draft"} = {}
      BY <2>1 DEF NotKept
    <3>3. i \in DOMAIN txs
      BY <2>2, <3>1, <3>2
    <3>4. i \in Live(kind)
      BY <2>2, <3>1, <3>3 DEF Live
    <3>5. Stored(kind, i)
      BY <3>2, <3>4 DEF OneMount, Accounted
    <3>6. \A g \in Flows : ~At(g, "save")
      <4>1. \A g \in Flows : Alive(g) => g = f
        BY <2>2 DEF OneMount, Alone
      <4>. QED BY <2>1, <4>1 DEF Alive, At
    <3>. QED BY <2>1, <3>5, <3>6 DEF Stored
  <2>. QED BY <2>5, <2>6 DEF OneMount
<1>4. CASE Prepare(f)
  <2>1. At(f, "prepare") /\ UNCHANGED <<draft, page, txs, lost>>
        /\ flow' = [flow EXCEPT ![f] = GoneTo("sign", "launch", draft)]
    BY <1>4 DEF Prepare, Goto, GoneTo, chain
  <2>2. Launching(f)
    BY <2>1 DEF Launching, Prompting
  <2>3. ~isLaunchCommitted(draft) /\ "draft" \notin lost
    BY <2>2, LaunchingFacts
  <2>4. flow'[f].snap = draft /\ \A g \in Flows : g # f => flow'[g] = flow[g]
    BY <2>1 DEF Inv, Types, GoneTo
  <2>5. Alone'
    BY <2>1, <2>4 DEF OneMount, Alone, Alive, At
  <2>. QED BY <2>1, <2>3, <2>5, LaunchAlone DEF OneMount
<1>5. CASE Saves(f) /\ flow[f].kind = "launch"
  <2>1. /\ At(f, "save") /\ UNCHANGED <<page, txs>>
        /\ flow' = [flow EXCEPT ![f].pc = "wait", ![f].snap = Hashed(f)]
        /\ \/ draft' = Hashed(f)
           \/ draft' = draft /\ lost' = lost \cup {"launch", "answer"}
    BY <1>5 DEF Saves, SaveHash, SaveHashMasked, chain, NotKept
  <2>2. Launching(f)
    BY <1>5, <2>1 DEF Launching
  <2>3. /\ ~isLaunchCommitted(draft) /\ "draft" \notin lost /\ Alive(f)
        /\ flow[f].snap = draft /\ \A g \in Flows : Alive(g) => g = f
    BY <2>2, LaunchingFacts
  <2>4. /\ flow'[f].snap = Hashed(f) /\ flow'[f].pc = "wait" /\ flow'[f].kind = "launch"
        /\ flow'[f].hash = flow[f].hash /\ \A g \in Flows : g # f => flow'[g] = flow[g]
    BY <1>5, <2>1 DEF Inv, Types, FlowType
  <2>5. Hashed(f) = WithHash(draft, "launch", flow[f].hash)
    BY <1>5, <2>3 DEF Hashed, WithHash
  <2>6. draft[HashField["launch"]] = NoTx
    BY <2>3, HashFields DEF isLaunchCommitted
  <2>7. draft' = Hashed(f) \/ Ahead(f)'
    BY <2>1, <2>4, <2>5, <2>6 DEF Ahead, At, WithHash
  <2>8. Alone'
    BY <2>1, <2>3, <2>4, <2>7 DEF OneMount, Alone, Alive
  <2>. QED BY <2>1, <2>3, <2>8, LaunchAlone DEF OneMount
<1>. QED BY <1>1, <1>2, <1>3, <1>4, <1>5, <1>6

(* A flow is ahead as long as it and the draft stay.                       *)
LEMMA AheadStays ==
    ASSUME UNCHANGED <<draft, flow, lost>>
    PROVE  \A f \in Flows : Ahead(f) => Ahead(f)'
<1>1. draft' = draft /\ flow' = flow /\ lost' = lost
  OBVIOUS
<1>. QED BY Zenon, <1>1 DEF Ahead, WithHash, At

(* The chain, the clock and a reload, which marks the hash of a flow about *)
(* to store it as lost.                                                    *)
LEMMA WorldAlone ==
    ASSUME Inv, OneMount, ~Detached,
           (\E i \in TxId : Mine(i)) \/ Remount \/ Reload \/ Tick \/ UNCHANGED vars
    PROVE  OneMount'
<1>1. ASSUME NEW i \in TxId, Mine(i)
      PROVE  OneMount'
  <2>1. i \in DOMAIN txs /\ txs[i].status = "pending" /\ UNCHANGED <<draft, page, flow, lost>>
    BY <1>1 DEF Mine
  <2>2. \E v \in {"success", "reverted"} : txs' = [txs EXCEPT ![i].status = v, ![i].at = now]
    BY <1>1 DEF Mine, MineSuccess, MineReverted
  <2>3. /\ DOMAIN txs' = DOMAIN txs
        /\ \A j \in DOMAIN txs : txs'[j].kind = txs[j].kind /\ (j # i => txs'[j] = txs[j])
    BY <2>1, <2>2, TxsMined DEF Inv
  <2>4. \A kind : Live(kind)' \subseteq Live(kind)
    BY <2>1, <2>3 DEF Live
  <2>5. Alone'
    BY <2>1, AheadStays DEF OneMount, Alone, Alive
  <2>6. Accounted'
    BY <2>1, <2>4 DEF OneMount, Accounted, Stored, At
  <2>. QED BY <2>5, <2>6 DEF OneMount
<1>2. CASE Tick \/ UNCHANGED vars
  <2>1. UNCHANGED <<draft, page, flow, txs, lost>>
    BY <1>2 DEF Tick, vars
  <2>2. Alone'
    BY <2>1, AheadStays DEF OneMount, Alone, Alive
  <2>3. Accounted'
    BY <2>1 DEF OneMount, Accounted, Stored, Live, At
  <2>. QED BY <2>2, <2>3 DEF OneMount
<1>3. CASE Reload
  <2>1. /\ draft' = IF Durable THEN draft ELSE BlankDraft
        /\ flow' = [g \in Flows |-> IdleFlow] /\ txs' = txs
        /\ lost' = lost \cup {flow[f].kind : f \in {g \in Flows : At(g, "save")}}
                        \cup (IF Durable THEN {} ELSE {"draft"})
    BY <1>3 DEF Reload, chain
  <2>2. Alone'
    BY <2>1 DEF Alone, Alive, IdleFlow
  <2>3. Accounted'
    <3> SUFFICES ASSUME NEW kind \in {"lock", "burn"}, lost' \cap {kind, "draft"} = {},
                        NEW i \in Live(kind)
                 PROVE  Stored(kind, i)'
      BY <2>1 DEF Accounted, Live
    <3>1. Durable /\ draft' = draft /\ lost \cap {kind, "draft"} = {}
      BY <2>1
    <3>2. \A g \in Flows : At(g, "save") => flow[g].kind # kind
      BY <2>1
    <3>3. i = draft[HashField[kind]]
      BY <3>1, <3>2 DEF OneMount, Accounted, Stored
    <3>. QED BY <3>1, <3>3 DEF Stored
  <2>. QED BY <2>2, <2>3 DEF OneMount
<1>. QED BY <1>1, <1>2, <1>3 DEF Remount

(* The initial state.                                                      *)
LEMMA InitAlone == Init => OneMount
<1> SUFFICES ASSUME Init
             PROVE  OneMount
  OBVIOUS
<1>1. DOMAIN txs = {}
  BY EmptySeq DEF Init
<1>2. Alone
  BY DEF Init, Alone, Alive, IdleFlow
<1>. QED BY <1>1, <1>2 DEF OneMount, Accounted, Live

(* Every step preserves OneMount.                                          *)
LEMMA StepAlone ==
    ASSUME ~Detached, Inv, OneMount, [Next]_vars
    PROVE  OneMount'
<1>1. ASSUME NEW f \in Flows, Steps(f)
      PROVE  OneMount'
  <2>1. CASE Prepare(f) \/ (Saves(f) /\ flow[f].kind = "launch")
    BY <2>1, OtherAlone
  <2>2. CASE ~Prepare(f) /\ ~(Saves(f) /\ flow[f].kind = "launch")
    BY <1>1, <2>2, StepWorks, WorkAlone DEF Inv
  <2>. QED BY <2>1, <2>2
<1>. QED BY <1>1, OtherAlone, WorldAlone DEF Next, Steps


-----------------------------------------------------------------------------
(* The theorems. *)

(* A set with at most one element.                                         *)
LEMMA AtMostOne ==
    ASSUME NEW S, NEW x, S \subseteq {x}
    PROVE  Cardinality(S) <= 1
<1>1. CASE S = {}
  <2>1. Cardinality(S) = 0
    BY <1>1, FS_EmptySet
  <2>. QED BY <2>1
<1>2. CASE S # {}
  <2>1. S = {x}
    BY <1>2
  <2>2. Cardinality({x}) = 1
    BY FS_Singleton
  <2>. QED BY <2>1, <2>2
<1>. QED BY <1>1, <1>2

(* The invariant holds in every reachable state, for any number of flows   *)
(* on pages that are left, reloaded and mounted again.                     *)
THEOREM Invariance == Spec => []Inv
BY InitInv, StepInv, PTL DEF Spec

(* The draft, the transactions and the balance have their types, and a     *)
(* hash of the draft is that of a transaction of its kind.                 *)
THEOREM TypeCorrect == Spec => []TypeOK
<1>1. Inv => TypeOK
  <2> SUFFICES ASSUME Inv
               PROVE  TypeOK
    OBVIOUS
  <2>1. ASSUME NEW k \in Kinds, draft[HashField[k]] # NoTx
        PROVE  txs[draft[HashField[k]]].kind = k
    <3>1. Evidence(draft) /\ draft \in DraftType
      BY DEF Inv, Types, Documents
    <3>2. CASE k = "launch"
      BY <2>1, <3>1, <3>2, HashFields DEF Evidence, HasKind
    <3>3. CASE k = "approve"
      BY <2>1, <3>1, <3>3, HashFields DEF Evidence, HasKind
    <3>4. CASE k = "lock"
      BY <2>1, <3>1, <3>4, HashFields DEF Evidence, HasKind
    <3>5. CASE k = "burn"
      BY <2>1, <3>1, <3>5, HashFields DEF Evidence, HasKind
    <3>. QED BY <3>2, <3>3, <3>4, <3>5 DEF Kinds
  <2>2. \A f \in Flows : flow[f].kind \in Kinds \cup {"none"}
    BY DEF Inv, Types, FlowType
  <2>3. draft \in DraftType /\ page \in PageType
        /\ held \in Nat /\ allowance \in 0..1 /\ now \in Times
    BY DEF Inv, Types
  <2>. QED BY <2>1, <2>2, <2>3 DEF TypeOK, DraftType, Errors, PageType
<1>. QED BY <1>1, Invariance, PTL

(* LaunchAndBuy is signed at most once for a draft, in any number of       *)
(* mounts and flows, reloaded or not: assertPonsRelaunchAllowed and the    *)
(* mount that offers only a committed draft are enough, as long as no      *)
(* living mount lost the wallet's answer or its write.                     *)
THEOREM OneLaunch == Spec => []LaunchedOnce
<1>1. Inv => LaunchedOnce
  <2> SUFFICES ASSUME Inv
               PROVE  LaunchedOnce
    OBVIOUS
  <2>1. "answer" \notin lost => {i \in DOMAIN txs : txs[i].kind = "launch"} \subseteq {1}
    BY DEF Inv, LaunchOK
  <2>. QED BY <2>1, AtMostOne DEF LaunchedOnce
<1>. QED BY <1>1, Invariance, PTL

(* A draft calls verified only what is on chain, and a draft that is       *)
(* locked was never burned nor one that is burned locked, also where two   *)
(* flows write their snapshots over each other.                            *)
THEOREM DraftIsTrue == Spec => []VerifiedOnChain
<1>1. Inv => VerifiedOnChain
  <2> SUFFICES ASSUME Inv
               PROVE  VerifiedOnChain
    OBVIOUS
  <2>1. Evidence(draft)
    BY DEF Inv, Documents
  <2>2. draft.lockVerified \/ draft.burnVerified => "draft" \notin lost
    BY DEF Inv, LaunchOK, Gone, BlankDraft
  <2>3. draft.lockVerified =>
           /\ draft.policy # "burn" /\ Live("burn") = {}
           /\ draft.lockId \in MatchingLocks(draft.policy, draft.ref)
    BY <2>1, <2>2 DEF Evidence, Inv, LaunchOK, Live
  <2>4. draft.burnVerified =>
           /\ draft.policy = "burn" /\ Live("lock") = {}
           /\ txs[draft.burnTx].kind = "burn" /\ txs[draft.burnTx].status = "success"
    BY <2>1, <2>2 DEF Evidence, Inv, LaunchOK, Live, HasKind, Succeeded
  <2>. QED BY <2>3, <2>4 DEF VerifiedOnChain
<1>. QED BY <1>1, Invariance, PTL

(* While no page is left with its flow running there is one flow, its      *)
(* snapshot is the draft or ahead of it by a hash whose write was lost,    *)
(* and every lock and burn is accounted for.                               *)
THEOREM OneFlow == ~Detached /\ Spec => []OneMount
<1> SUFFICES ASSUME ~Detached
             PROVE  Spec => []OneMount
  OBVIOUS
<1>1. Init => OneMount
  BY InitAlone
<1>2. Inv /\ Inv' /\ OneMount /\ [Next]_vars => OneMount'
  BY StepAlone
<1>. QED BY <1>1, <1>2, Invariance, PTL DEF Spec

(* The allocation is settled at most once, however often the creator       *)
(* reloads and resumes: a flow that may sign a lock or a burn knows the    *)
(* hash of the one before, unless no draft kept it.                        *)
THEOREM OneSettlement == ~Detached /\ Spec => []SettledOnce
<1>1. Inv /\ OneMount => SettledOnce
  <2> SUFFICES ASSUME Inv, OneMount, lost \cap {"lock", "burn", "draft"} = {}
               PROVE  Cardinality(Live("lock") \cup Live("burn")) <= 1
    BY DEF SettledOnce
  <2>1. Live("lock") = {} \/ Live("burn") = {}
    BY DEF Inv, LaunchOK, Live
  <2>2. draft \in DraftType
    BY DEF Inv, Types
  <2>3. ASSUME NEW kind \in {"lock", "burn"}
        PROVE  \A i, j \in Live(kind) : i = j
    <3> SUFFICES ASSUME NEW i \in Live(kind), NEW j \in Live(kind)
                 PROVE  i = j
      OBVIOUS
    <3>1. Stored(kind, i) /\ Stored(kind, j)
      BY DEF OneMount, Accounted
    <3>2. i # NoTx /\ j # NoTx
      <4>1. HasKind(i, kind) /\ HasKind(j, kind)
        BY DEF Live, HasKind
      <4>. QED BY <4>1, KindFacts DEF Inv
    <3>3. ASSUME NEW f \in Flows, At(f, "save"), flow[f].kind = kind
          PROVE  draft[HashField[kind]] = NoTx
      <4>1. Place(flow[f]) /\ flow[f].snap = draft
        BY <3>3, SnapFacts DEF OneMount, Alone, Ahead, Alive, At, Inv
      <4>2. kind = "lock" => draft.lockTx = NoTx
        BY <3>3, <4>1 DEF Place, At, Proposed, Unlocked, isLockCommitted
      <4>3. kind = "burn" => draft.burnTx = NoTx
        BY <3>3, <4>1 DEF Place, At, Unburned
      <4>. QED BY <4>2, <4>3, <2>2, KindFields
    <3>4. \A f, g \in Flows : At(f, "save") /\ At(g, "save") => f = g
      BY DEF OneMount, Alone, Alive, At
    <3>. QED BY <3>1, <3>2, <3>3, <3>4 DEF Stored
  <2>4. \A i, j \in Live("lock") \cup Live("burn") : i = j
    BY <2>1, <2>3
  <2>5. \E x : Live("lock") \cup Live("burn") \subseteq {x}
    BY <2>4
  <2>. QED BY <2>5, AtMostOne
<1>. QED BY <1>1, Invariance, OneFlow, PTL

(* Whatever a later flow does, it keeps the launch, the token, the policy, *)
(* the lock's hash and id and a verdict of the stored draft; it forgets a  *)
(* burn hash only when that burn reverted.                                 *)
THEOREM NothingForgotten == ~Detached /\ Spec => EvidenceKept
<1> DEFINE A == isLaunchCommitted(draft) /\ draft' # BlankDraft =>
         /\ draft'.launchTx = draft.launchTx /\ draft'.policy = draft.policy
         /\ draft.token => draft'.token
         /\ draft.lockTx # NoTx => draft'.lockTx = draft.lockTx
         /\ draft.lockId # NoTx => draft'.lockId = draft.lockId
         /\ Settled(draft) => Settled(draft')
         /\ draft.burnTx \notin {NoTx, draft'.burnTx} =>
               draft'.burnTx = NoTx /\ txs[draft.burnTx].status = "reverted"
<1> SUFFICES ASSUME ~Detached
             PROVE  Spec => [][A]_draft
  BY DEF EvidenceKept
<1>1. Inv /\ OneMount /\ [Next]_vars => [A]_draft
  <2> SUFFICES ASSUME Inv, OneMount, [Next]_vars, draft' # draft,
                      isLaunchCommitted(draft), draft' # BlankDraft
               PROVE  Keeps(draft, draft')
    BY DEF Keeps
  <2>1. ASSUME NEW f \in Flows, Steps(f)
        PROVE  Keeps(draft, draft')
    <3>1. ~Prepare(f)
      BY DEF Prepare
    <3>2. ~(Saves(f) /\ flow[f].kind = "launch")
      BY LaunchingFacts DEF Saves, SaveHash, SaveHashMasked, Launching
    <3>. QED BY <2>1, <3>1, <3>2, StepWorks, WorkAlone DEF Inv
  <2>2. \A f \in Flows : ~Submit(f) /\ ~Resume(f) /\ ~Sign(f) /\ ~SignLost(f)
    BY DEF Submit, Resume, Sign, SignLost, Send
  <2>3. ~Reload /\ ~Remount /\ ~Tick /\ ~UNCHANGED vars /\ \A i \in TxId : ~Mine(i)
    BY DEF Reload, Remount, Tick, vars, Mine
  <2>. QED BY <2>1, <2>2, <2>3 DEF Next, Steps
<1>. QED BY <1>1, Invariance, OneFlow, PTL DEF Spec
=============================================================================
