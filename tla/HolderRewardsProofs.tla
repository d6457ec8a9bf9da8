------------------------- MODULE HolderRewardsProofs -------------------------
(***************************************************************************)
(* Proofs, for every number of rounds, holders, deposits and faults, of    *)
(* the safety of HolderRewards.  The invariant adds to the two properties  *)
(* that the root the worker works on is the saved one from "delete" on,    *)
(* and that a row's root and its snapshot go together.                     *)
(***************************************************************************)
EXTENDS HolderRewards, WellFoundedInduction, TLAPS

(* From "delete" on the worker acts on the root of the round's row.        *)
Acting == {"delete", "insert", "publish", "check", "published", "filter",
           "push", "pushed"}

WorkingRoot ==
  /\ pc \in {"compute", "persist"} => root.snapshot \in 1 .. MaxHead
  /\ pc \in Acting => root \in Roots /\ rows[round].root = root

RowsOK ==
  \A r \in Rounds :
    /\ rows[r].root # NoRoot => rows[r].snapshot = rows[r].root.snapshot
    /\ rows[r].status = "absent" => rows[r].root = NoRoot

Inv == TypeOK /\ WorkingRoot /\ RowsOK /\ PublishedAsPersisted /\ EntitlementsOfRoot

----------------------------------------------------------------------------
(* Minima and maxima of sets of natural numbers. *)

(* A set of natural numbers has a minimum.                                 *)
LEMMA MinNat ==
  ASSUME NEW S \in SUBSET Nat, S # {}
  PROVE  Min(S) \in S /\ \A y \in S : Min(S) <= y
<1>. DEFINE R == {ss \in Nat \X Nat : ss[1] < ss[2]}
<1>1. IsWellFoundedOn(R, Nat)
  BY NatLessThanWellFounded DEF OpToRel
<1>2. \A a, b \in Nat : <<a, b>> \notin R => b <= a
  OBVIOUS
<1>. HIDE DEF R
<1>3. PICK x \in S : \A y \in S : <<y, x>> \notin R
  BY <1>1, WFMin
<1>4. \A y \in S : x <= y
  BY <1>2, <1>3
<1>. QED BY <1>3, <1>4 DEF Min

(* A bounded one has a maximum: the least distance from the bound.         *)
LEMMA MaxNat ==
  ASSUME NEW n \in Nat, NEW S \in SUBSET (0 .. n), S # {}
  PROVE  Max(S) \in S /\ \A y \in S : y <= Max(S)
<1>. DEFINE T == {m \in Nat : \E x \in S : m = n - x}
<1>1. \A y \in S : n - y \in T
  OBVIOUS
<1>2. PICK t \in T : \A y \in T : t <= y
  <2>1. T \in SUBSET Nat /\ T # {}
    BY <1>1
  <2>. HIDE DEF T
  <2>. QED BY <2>1, MinNat
<1>3. PICK x \in S : \A y \in S : y <= x
  <2>1. PICK x \in S : t = n - x
    BY <1>2
  <2>2. ASSUME NEW y \in S PROVE y <= x
    BY <1>1, <1>2, <2>1
  <2>. QED BY <2>2
<1>. QED BY <1>3 DEF Max

(* The greater and the smaller of two numbers.                             *)
LEMMA MaxPair ==
  ASSUME NEW a \in Int, NEW b \in Int
  PROVE  Max({a, b}) = IF a >= b THEN a ELSE b
BY DEF Max

LEMMA MinPair ==
  ASSUME NEW a \in Int, NEW b \in Int
  PROVE  Min({a, b}) = IF a <= b THEN a ELSE b
BY DEF Min

(* The window of a run lies within the rounds, and ends at the last        *)
(* completed one.                                                          *)
LEMMA WindowType ==
  ASSUME TypeOK, Completed # {}, FirstRound(Max(Completed)) <= Max(Completed)
  PROVE  Max(Completed) \in Rounds /\ FirstRound(Max(Completed)) \in Rounds
<1>. DEFINE last == Max(Completed)
            starts == {r \in Rounds : deposited <= HourEnd[r]} \cup {LastRound + 1}
<1>. USE RewardsAssumption DEF Rounds
<1>1. last \in Rounds
  BY MaxNat DEF Completed
<1>2. RoundOf(deposited) \in Nat
  <2>1. starts \in SUBSET Nat /\ starts # {}
    OBVIOUS
  <2>2. RoundOf(deposited) = Min(starts)
    BY DEF RoundOf
  <2>. HIDE DEF starts
  <2>. QED BY <2>1, <2>2, MinNat
<1>3. FirstRound(last) \in Nat
  <2>. DEFINE start == IF deposited # 0 /\ deposited <= indexed
                         THEN RoundOf(deposited) ELSE last
              cap == last - MaxRoundsPerRun + 1
  <2>1. start \in Nat
    BY <1>1, <1>2
  <2>2. FirstRound(last) = Max({start, cap})
    BY DEF FirstRound
  <2>3. cap \in Int
    BY <1>1
  <2>. HIDE DEF last, start, cap
  <2>4. FirstRound(last) = IF start >= cap THEN start ELSE cap
    BY <2>1, <2>2, <2>3, MaxPair
  <2>. QED BY <2>1, <2>3, <2>4
<1>. QED BY <1>1, <1>3

(* The block a round is computed at is one the chain has.                  *)
LEMMA SnapshotType ==
  ASSUME TypeOK, NEW r \in Rounds
  PROVE  ResolvedSnapshot(r) \in 0 .. MaxHead
<1>1. Min({HourEnd[r], indexed}) \in 0 .. MaxHead
  <2>1. HourEnd[r] \in Nat /\ indexed \in 0 .. MaxHead
    BY RewardsAssumption DEF TypeOK
  <2>2. Min({HourEnd[r], indexed}) = IF HourEnd[r] <= indexed THEN HourEnd[r]
                                                              ELSE indexed
    BY <2>1, MinPair
  <2>. QED BY <2>1, <2>2, RewardsAssumption
<1>. QED BY <1>1 DEF ResolvedSnapshot, TypeOK

(* A root that is saved or published is none of those with zeroes.         *)
LEMMA NoRootIsNoRoot == NoRoot \notin Roots
BY DEF NoRoot, Roots

(* A row with another status is a row still.                               *)
RowType == [status : Statuses, snapshot : 0 .. MaxHead, root : Roots \cup {NoRoot}]

LEMMA WithStatusType ==
  ASSUME NEW row \in RowType, NEW status \in Statuses, NEW snapshot \in 0 .. MaxHead
  PROVE  /\ WithStatus(row, status, snapshot) \in RowType
         /\ WithStatus(row, status, snapshot).status = status
         /\ WithStatus(row, status, snapshot).root = row.root
         /\ WithStatus(row, status, snapshot).snapshot =
              IF row.status = "absent" THEN snapshot ELSE row.snapshot
BY DEF WithStatus, RowType

(* Leaving a round lets go of the root, and stays among the rounds.        *)
LEMMA NextRoundLeaves ==
  ASSUME TypeOK, NextRound
  PROVE  /\ pc' \in {"idle", "resolve"} /\ round' \in Rounds /\ latest' \in Rounds
         /\ root' \in [snapshot : 0 .. MaxHead, amount : 0 .. MaxFunds]
         /\ unpaid' = {}
BY SMTT(30), RewardsAssumption DEF TypeOK, NextRound, NoRoot, Rounds

(* What a transaction the vault accepts does to the vault: a publishRound  *)
(* commits funds the vault has.                                            *)
LEMMA ExecuteKeepsType ==
  ASSUME TypeOK, NEW tx \in Txs, NEW refused, Accepts(tx), Execute(tx, refused)
  PROVE  /\ uncommitted' \in 0 .. funded
         /\ published' \in [Rounds -> Roots \cup {NoRoot}]
         /\ paid' \in [Rounds -> SUBSET Holders]
<1>1. tx.round \in Rounds /\ tx.root \in Roots /\ tx.kind \in {"publish", "push"}
  BY DEF Txs
<1>2. MaxFunds \in Nat /\ funded \in 0 .. MaxFunds /\ uncommitted \in 0 .. funded
  BY RewardsAssumption DEF TypeOK
<1>3. CASE tx.kind = "publish"
  <2>1. /\ published' = [published EXCEPT ![tx.round] = tx.root]
        /\ uncommitted' = uncommitted - tx.root.amount /\ paid' = paid
        /\ tx.root.amount <= uncommitted
    BY <1>3 DEF Execute, Accepts
  <2>2. tx.root.amount \in 1 .. MaxFunds
    BY <1>1, <1>2 DEF Roots
  <2>3. uncommitted' \in 0 .. funded
    <3>1. \A f \in Nat : \A u \in 0 .. f : \A a \in Nat : a <= u => u - a \in 0 .. f
      OBVIOUS
    <3>2. funded \in Nat /\ tx.root.amount \in Nat
      BY <1>2, <2>2
    <3>. QED BY <1>2, <2>1, <3>1, <3>2
  <2>. QED BY <1>1, <2>1, <2>3 DEF TypeOK
<1>4. CASE tx.kind = "push"
  <2>1. tx.accounts \in SUBSET Holders
    BY <1>4 DEF Txs
  <2>2. /\ paid' = [paid EXCEPT ![tx.round] = @ \cup (tx.accounts \ refused)]
        /\ published' = published /\ uncommitted' = uncommitted
    BY <1>4 DEF Execute
  <2>. QED BY <1>1, <2>1, <2>2 DEF TypeOK
<1>. QED BY <1>1, <1>3, <1>4

(* Initially nothing is saved, sent or worked on.                          *)
LEMMA InitInv == Init => Inv
<1>. SUFFICES ASSUME Init PROVE Inv
  OBVIOUS
<1>. USE RewardsAssumption DEF Init
<1>1. TypeOK
  BY DEF TypeOK, NoRow, NoRoot, Rounds, Statuses, Steps
<1>2. WorkingRoot /\ RowsOK
  BY DEF WorkingRoot, RowsOK, Acting, NoRow
<1>3. PublishedAsPersisted
  BY DEF PublishedAsPersisted, PublishTxs, NoTx
<1>4. EntitlementsOfRoot
  BY DEF EntitlementsOfRoot
<1>. QED BY <1>1, <1>2, <1>3, <1>4 DEF Inv

(* Every step keeps the types.                                             *)
LEMMA TypeStep == Inv /\ [Next]_vars => TypeOK'
<1>. SUFFICES ASSUME Inv, [Next]_vars PROVE TypeOK'
  OBVIOUS
<1>. USE RewardsAssumption
<1>. USE DEF Inv, chainVars, vaultVars, dbVars, txVars, localVars, workerVars
<1>n. ASSUME NextRound
      PROVE  /\ pc' \in Steps /\ round' \in Rounds /\ latest' \in Rounds
             /\ root' \in [snapshot : 0 .. MaxHead, amount : 0 .. MaxFunds]
             /\ unpaid' \subseteq Holders
  BY <1>n, NextRoundLeaves DEF Steps
<1>1. CASE NewBlock
  BY <1>1 DEF TypeOK, NewBlock
<1>2. CASE Index
  BY <1>2 DEF TypeOK, Index
<1>3. CASE Regress
  BY <1>3 DEF TypeOK, Regress
<1>4. CASE Deposit
  BY <1>4 DEF TypeOK, Deposit
<1>5. CASE MineSent
  <2>1. sent \in Txs
    BY <1>5 DEF TypeOK, MineSent
  <2>2. CASE Accepts(sent)
    BY <1>5, <2>1, <2>2, ExecuteKeepsType DEF TypeOK, MineSent
  <2>3. CASE ~Accepts(sent)
    BY <1>5, <2>3 DEF TypeOK, MineSent
  <2>. QED BY <2>2, <2>3
<1>6. CASE MineSentPartly
  <2>1. sent \in Txs
    BY <1>6 DEF TypeOK, MineSentPartly
  <2>. QED BY <1>6, <2>1, ExecuteKeepsType DEF TypeOK, MineSentPartly
<1>7. CASE MinePending
  <2>1. PICK tx \in pending :
          /\ pending' = pending \ {tx}
          /\ (Accepts(tx) /\ Execute(tx, {})) \/ UNCHANGED vaultVars
          /\ UNCHANGED <<chainVars, dbVars, sent, receipt, workerVars, faults>>
    BY <1>7 DEF MinePending
  <2>2. tx \in Txs
    BY DEF TypeOK
  <2>3. CASE Accepts(tx) /\ Execute(tx, {})
    BY <2>1, <2>2, <2>3, ExecuteKeepsType DEF TypeOK
  <2>4. CASE UNCHANGED vaultVars
    BY <2>1, <2>4 DEF TypeOK
  <2>. QED BY <2>1, <2>3, <2>4
<1>8. CASE StepFails
  BY <1>8, <1>n DEF TypeOK, StepFails, Abandon
<1>9. CASE Crash
  BY <1>9 DEF TypeOK, Crash, Abandon, Steps, NoRoot
<1>10. CASE StartRun
  BY <1>10, WindowType DEF TypeOK, StartRun, Steps
<1>11. CASE SkipTerminal
  BY <1>11, <1>n DEF TypeOK, SkipTerminal
<1>12. CASE NotReady
  <2>1. rows[round] \in RowType /\ ResolvedSnapshot(round) \in 0 .. MaxHead
    BY SnapshotType DEF TypeOK, RowType
  <2>2. WithStatus(rows[round], "snapshot_not_ready", ResolvedSnapshot(round))
          \in RowType
    BY <2>1, WithStatusType DEF Statuses
  <2>3. rows' \in [Rounds -> RowType]
    BY <1>12, <2>2 DEF TypeOK, NotReady, RowType
  <2>. QED BY <1>12, <1>n, <2>3 DEF TypeOK, NotReady, RowType
<1>13. CASE Resume
  <2>1. Roots \cup {NoRoot} \subseteq [snapshot : 0 .. MaxHead, amount : 0 .. MaxFunds]
    BY DEF Roots, NoRoot
  <2>2. {leaf.account : leaf \in stored[round]} \subseteq Holders
    <3>1. stored[round] \subseteq [account : Holders, root : Roots]
      BY DEF Inv, TypeOK
    <3>. QED BY <3>1
  <2>. QED BY <1>13, <1>n, <2>1, <2>2 DEF TypeOK, Resume, Goto, Steps
<1>14. CASE Recompute
  BY <1>14, SnapshotType DEF TypeOK, Recompute, Goto, Steps
<1>15. CASE ReadAmount
  <2>. uncommitted \in 0 .. MaxFunds
    BY DEF TypeOK
  <2>1. root' \in [snapshot : 0 .. MaxHead, amount : 0 .. MaxFunds]
    BY <1>15 DEF TypeOK, ReadAmount
  <2>. QED BY <1>15, <2>1 DEF TypeOK, ReadAmount, Goto, Steps
<1>16. CASE SkipRound
  <2>. DEFINE status == IF root.amount = 0 THEN "skipped_no_reward"
                                           ELSE "skipped_no_holders"
  <2>1. rows[round] \in RowType /\ root.snapshot \in 0 .. MaxHead
    BY DEF TypeOK, RowType
  <2>2. WithStatus(rows[round], status, root.snapshot) \in RowType
    BY <2>1, WithStatusType DEF Statuses, Skipped
  <2>3. rows' \in [Rounds -> RowType]
    BY <1>16, <2>2 DEF TypeOK, SkipRound, RowType
  <2>. QED BY <1>16, <1>n, <2>3 DEF TypeOK, SkipRound, RowType
<1>17. CASE SaveRoot
  <2>1. root \in Roots /\ EligibleAt[root.snapshot] \subseteq Holders
    BY <1>17 DEF TypeOK, SaveRoot, WorkingRoot, Roots
  <2>2. [status |-> "publish_ready", snapshot |-> root.snapshot, root |-> root]
          \in RowType
    BY <2>1 DEF RowType, Roots, Statuses, Continuing
  <2>3. rows' \in [Rounds -> RowType]
    <3>1. CASE rows[round].root \in {NoRoot, root}
      BY <1>17, <2>2, <3>1 DEF TypeOK, SaveRoot, RowType
    <3>2. CASE rows[round].root \notin {NoRoot, root}
      BY <1>17, <3>2 DEF TypeOK, SaveRoot, RowType
    <3>. QED BY <3>1, <3>2
  <2>. QED BY <1>17, <1>n, <2>1, <2>3 DEF TypeOK, SaveRoot, Goto, Steps, RowType
<1>18. CASE DeleteEntitlements
  BY <1>18 DEF TypeOK, DeleteEntitlements, Goto, Steps
<1>19. CASE InsertEntitlement
  <2>1. root \in Roots /\ EligibleAt[root.snapshot] \subseteq Holders
    BY <1>19 DEF TypeOK, InsertEntitlement, WorkingRoot, Acting, Roots
  <2>. QED BY <1>19, <2>1 DEF TypeOK, InsertEntitlement, Goto, Steps
<1>20. CASE ReadRound
  BY <1>20, <1>n DEF TypeOK, ReadRound, Goto, Steps
<1>21. CASE SendPublish
  <2>1. [kind |-> "publish", round |-> round, root |-> root] \in Txs
    BY <1>21 DEF TypeOK, SendPublish, WorkingRoot, Acting, Txs
  <2>. QED BY <1>21, <1>n, <2>1 DEF TypeOK, SendPublish, Goto, Steps
<1>22. CASE Published
  <2>1. [rows[round] EXCEPT !.status = "published"] \in RowType
    BY ZenonT(30) DEF TypeOK, RowType, Statuses, Continuing
  <2>2. rows' \in [Rounds -> RowType]
    BY <1>22, <2>1 DEF TypeOK, Published, RowType
  <2>. QED BY <1>22, <1>n, <2>2 DEF TypeOK, Published, Goto, Steps, RowType
<1>23. CASE FilterPaid
  BY <1>23 DEF TypeOK, FilterPaid, Goto, Steps
<1>24. CASE SendBatch
  <2>1. \A batch \in SUBSET unpaid :
          [kind |-> "push", round |-> round, root |-> root,
           accounts |-> batch] \in Txs
    BY <1>24 DEF TypeOK, SendBatch, WorkingRoot, Acting, Txs
  <2>. QED BY <1>24, <2>1 DEF TypeOK, SendBatch, Goto, Steps
<1>25. CASE BatchDone
  BY <1>25, <1>n DEF TypeOK, BatchDone, Goto, Steps
<1>26. CASE RoundComplete
  BY <1>26, <1>n DEF TypeOK, RoundComplete
<1>27. CASE UNCHANGED vars
  BY <1>27 DEF TypeOK, vars
<1>. QED
  BY <1>1, <1>2, <1>3, <1>4, <1>5, <1>6, <1>7, <1>8, <1>9, <1>10, <1>11,
     <1>12, <1>13, <1>14, <1>15, <1>16, <1>17, <1>18, <1>19, <1>20, <1>21,
     <1>22, <1>23, <1>24, <1>25, <1>26, <1>27 DEF Next, Worker, Environment

----------------------------------------------------------------------------
(* What a step may do to the rows, the vault, the transactions and the     *)
(* entitlements. *)

(* Most steps leave the rows alone.                                        *)
LEMMA RowsKept ==
  [Next]_vars => NotReady \/ SkipRound \/ SaveRoot \/ Published \/ rows' = rows
BY DEF Next, Worker, Environment, vars, chainVars, vaultVars, dbVars, txVars,
       workerVars, NewBlock, Index, Regress, Deposit, MineSent, MineSentPartly,
       MinePending, StepFails, Crash, StartRun, SkipTerminal, Resume, Recompute,
       ReadAmount, DeleteEntitlements, InsertEntitlement, ReadRound,
       SendPublish, FilterPaid, SendBatch, BatchDone, RoundComplete

(* A saved root is never replaced, nor is its snapshot.                    *)
LEMMA SavedStep ==
  Inv /\ [Next]_vars =>
    \A r \in Rounds : rows[r].root # NoRoot =>
      rows'[r].root = rows[r].root /\ rows'[r].snapshot = rows[r].snapshot
<1>. SUFFICES ASSUME Inv, [Next]_vars, NEW r \in Rounds, rows[r].root # NoRoot
              PROVE  /\ rows'[r].root = rows[r].root
                     /\ rows'[r].snapshot = rows[r].snapshot
  OBVIOUS
<1>1. /\ rows \in [Rounds -> RowType] /\ rows[r] \in RowType
      /\ rows[round] \in RowType /\ rows[r].status # "absent"
  BY DEF Inv, TypeOK, RowsOK, RowType
<1>2. CASE NotReady
  <2>1. ResolvedSnapshot(round) \in 0 .. MaxHead /\ "snapshot_not_ready" \in Statuses
    BY SnapshotType DEF Inv, TypeOK, Statuses
  <2>2. /\ WithStatus(rows[round], "snapshot_not_ready", ResolvedSnapshot(round)).root
             = rows[round].root
        /\ rows[round].status # "absent" =>
             WithStatus(rows[round], "snapshot_not_ready",
                        ResolvedSnapshot(round)).snapshot = rows[round].snapshot
    BY <1>1, <2>1, WithStatusType
  <2>. QED BY <1>1, <1>2, <2>2 DEF NotReady
<1>3. CASE SkipRound
  <2>. DEFINE status == IF root.amount = 0 THEN "skipped_no_reward"
                                           ELSE "skipped_no_holders"
  <2>1. status \in Statuses /\ root.snapshot \in 0 .. MaxHead
    BY DEF Inv, TypeOK, Statuses, Skipped
  <2>2. /\ WithStatus(rows[round], status, root.snapshot).root = rows[round].root
        /\ rows[round].status # "absent" =>
             WithStatus(rows[round], status, root.snapshot).snapshot
               = rows[round].snapshot
    BY <1>1, <2>1, WithStatusType
  <2>3. rows' = [rows EXCEPT ![round] = WithStatus(rows[round], status, root.snapshot)]
    BY <1>1, <1>3 DEF SkipRound
  <2>. QED BY <1>1, <2>2, <2>3
<1>4. CASE SaveRoot
  <2>1. CASE rows[round].root \in {NoRoot, root}
    BY <1>1, <1>4, <2>1 DEF SaveRoot, Inv, RowsOK
  <2>2. CASE rows[round].root \notin {NoRoot, root}
    BY <1>4, <2>2 DEF SaveRoot
  <2>. QED BY <2>1, <2>2
<1>5. CASE Published
  BY <1>1, <1>5 DEF Published, RowType
<1>. QED BY <1>2, <1>3, <1>4, <1>5, RowsKept

(* The vault changes a round only by a publishRound sent before.           *)
LEMMA PublishedStep ==
  Inv /\ [Next]_vars =>
    \A r \in Rounds :
      \/ published'[r] = published[r]
      \/ \E tx \in PublishTxs : tx.round = r /\ published'[r] = tx.root
<1>. SUFFICES ASSUME Inv, [Next]_vars, NEW r \in Rounds
              PROVE  \/ published'[r] = published[r]
                     \/ \E tx \in PublishTxs :
                          tx.round = r /\ published'[r] = tx.root
  OBVIOUS
<1>1. ASSUME NEW tx \in pending \cup {sent}, NEW refused,
             Accepts(tx), Execute(tx, refused)
      PROVE  \/ published'[r] = published[r]
             \/ \E t \in PublishTxs : t.round = r /\ published'[r] = t.root
  BY <1>1 DEF Execute, Accepts, PublishTxs, Inv, TypeOK
<1>2. CASE MineSent
  BY <1>1, <1>2 DEF MineSent, vaultVars
<1>3. CASE MineSentPartly
  BY <1>1, <1>3 DEF MineSentPartly
<1>4. CASE MinePending
  BY <1>1, <1>4 DEF MinePending, vaultVars
<1>5. MineSent \/ MineSentPartly \/ MinePending \/ published' = published
  BY DEF Next, Worker, Environment, vars, vaultVars, NewBlock, Index, Regress,
         Deposit, StepFails, Crash, StartRun, SkipTerminal, NotReady, Resume,
         Recompute, ReadAmount, SkipRound, SaveRoot, DeleteEntitlements,
         InsertEntitlement, ReadRound, SendPublish, Published, FilterPaid,
         SendBatch, BatchDone, RoundComplete
<1>. QED BY <1>2, <1>3, <1>4, <1>5

(* A publishRound comes from the step that checked the round.              *)
LEMMA SentStep ==
  Inv /\ [Next]_vars =>
    \A tx \in PublishTxs' :
      \/ tx \in PublishTxs
      \/ pc = "check" /\ tx.round = round /\ tx.root = root
<1>. SUFFICES ASSUME Inv, [Next]_vars, NEW tx \in PublishTxs', tx \notin PublishTxs
              PROVE  pc = "check" /\ tx.round = round /\ tx.root = root
  OBVIOUS
<1>1. tx.kind = "publish" /\ tx \in pending' \cup {sent'} /\ tx \notin pending \cup {sent}
  BY DEF PublishTxs
<1>2. NoTx.kind = "none"
  BY DEF NoTx
<1>3. CASE SendPublish
  BY <1>1, <1>3 DEF SendPublish
<1>4. CASE SendBatch
  BY <1>1, <1>4 DEF SendBatch
<1>5. CASE MineSent \/ MineSentPartly
  BY <1>1, <1>2, <1>5 DEF MineSent, MineSentPartly
<1>6. CASE MinePending
  BY <1>1, <1>6 DEF MinePending
<1>7. CASE StepFails \/ Crash
  BY <1>1, <1>2, <1>7 DEF StepFails, Crash, Abandon
<1>8. CASE pending' = pending /\ sent' = sent
  BY <1>1, <1>8
<1>9. \/ SendPublish \/ SendBatch \/ MineSent \/ MineSentPartly \/ MinePending
      \/ StepFails \/ Crash \/ (pending' = pending /\ sent' = sent)
  BY DEF Next, Worker, Environment, vars, txVars, NewBlock, Index, Regress,
         Deposit, StartRun, SkipTerminal, NotReady, Resume, Recompute,
         ReadAmount, SkipRound, SaveRoot, DeleteEntitlements,
         InsertEntitlement, ReadRound, Published, FilterPaid, BatchDone,
         RoundComplete
<1>. QED BY <1>3, <1>4, <1>5, <1>6, <1>7, <1>8, <1>9

(* An entitlement comes from the step that inserts those of the root.      *)
LEMMA StoredStep ==
  Inv /\ [Next]_vars =>
    \A r \in Rounds : \A leaf \in stored'[r] :
      \/ leaf \in stored[r]
      \/ /\ pc = "insert" /\ r = round /\ leaf.root = root
         /\ leaf.account \in EligibleAt[root.snapshot]
<1>. SUFFICES ASSUME Inv, [Next]_vars, NEW r \in Rounds, NEW leaf \in stored'[r],
                     leaf \notin stored[r]
              PROVE  /\ pc = "insert" /\ r = round /\ leaf.root = root
                     /\ leaf.account \in EligibleAt[root.snapshot]
  OBVIOUS
<1>1. stored \in [Rounds -> SUBSET [account : Holders, root : Roots]]
  BY DEF Inv, TypeOK
<1>2. CASE DeleteEntitlements
  BY <1>1, <1>2 DEF DeleteEntitlements
<1>3. CASE InsertEntitlement
  BY <1>1, <1>3 DEF InsertEntitlement
<1>4. DeleteEntitlements \/ InsertEntitlement \/ stored' = stored
  BY DEF Next, Worker, Environment, vars, chainVars, vaultVars, dbVars, txVars,
         workerVars, NewBlock, Index, Regress, Deposit, MineSent,
         MineSentPartly, MinePending, StepFails, Crash, StartRun, SkipTerminal,
         NotReady, Resume, Recompute, ReadAmount, SkipRound, SaveRoot,
         ReadRound, SendPublish, Published, FilterPaid, SendBatch, BatchDone,
         RoundComplete
<1>. QED BY <1>2, <1>3, <1>4

----------------------------------------------------------------------------
(* The invariant is inductive. *)

(* The worker's root is the one in the row from "delete" on.               *)
LEMMA WorkingStep == Inv /\ [Next]_vars => WorkingRoot'
<1>. SUFFICES ASSUME Inv, [Next]_vars PROVE WorkingRoot'
  OBVIOUS
<1>. USE DEF Inv, WorkingRoot, Acting
<1>n. NextRound => WorkingRoot'
  BY DEF NextRound
<1>1. CASE UNCHANGED <<pc, round, root, rows>>
  BY <1>1
<1>2. CASE NextRound
  BY <1>2, <1>n
<1>3. CASE pc \in Acting /\ pc' \in Acting /\ round' = round /\ root' = root
  BY <1>3, SavedStep, NoRootIsNoRoot DEF TypeOK
<1>4. CASE Resume
  BY <1>4, <1>n, NoRootIsNoRoot DEF Resume, Goto, dbVars, TypeOK
<1>5. CASE Recompute
  BY <1>5, SnapshotType DEF Recompute, Goto, Ready, TypeOK
<1>6. CASE ReadAmount
  BY <1>6 DEF ReadAmount, Goto, TypeOK
<1>7. CASE SaveRoot
  <2>1. root \in Roots
    BY <1>7 DEF SaveRoot, TypeOK, Roots
  <2>2. CASE rows[round].root \in {NoRoot, root}
    BY <1>7, <2>1, <2>2 DEF SaveRoot, Goto, TypeOK
  <2>. QED BY <1>7, <1>n, <2>2 DEF SaveRoot
<1>8. CASE StartRun \/ Crash
  BY <1>8 DEF StartRun, Crash, TypeOK, dbVars, localVars
<1>. QED
  <2>1. \/ UNCHANGED <<pc, round, root, rows>> \/ NextRound
        \/ pc \in Acting /\ pc' \in Acting /\ round' = round /\ root' = root
        \/ Resume \/ Recompute \/ ReadAmount \/ SaveRoot \/ StartRun \/ Crash
    BY DEF Next, Worker, Environment, vars, dbVars, workerVars, localVars, Goto,
           NewBlock, Index, Regress, Deposit, MineSent, MineSentPartly,
           MinePending, StepFails, SkipTerminal, NotReady, SkipRound,
           DeleteEntitlements, InsertEntitlement, ReadRound, SendPublish,
           Published, FilterPaid, SendBatch, BatchDone, RoundComplete
  <2>. QED BY <1>1, <1>2, <1>3, <1>4, <1>5, <1>6, <1>7, <1>8, <2>1

(* A row's root is computed at the row's snapshot.                         *)
LEMMA RowsStep == Inv /\ [Next]_vars => RowsOK'
<1>. SUFFICES ASSUME Inv, [Next]_vars, NEW r \in Rounds
              PROVE  /\ rows'[r].root # NoRoot =>
                          rows'[r].snapshot = rows'[r].root.snapshot
                     /\ rows'[r].status = "absent" => rows'[r].root = NoRoot
  BY DEF RowsOK
<1>1. /\ rows \in [Rounds -> RowType] /\ round \in Rounds
      /\ rows[round] \in RowType /\ rows[r] \in RowType
      /\ rows[r].root # NoRoot => rows[r].snapshot = rows[r].root.snapshot
      /\ rows[r].status = "absent" => rows[r].root = NoRoot
  BY DEF Inv, TypeOK, RowsOK, RowType
<1>2. CASE r # round \/ rows' = rows
  <2>1. rows'[r] = rows[r]
    BY <1>1, <1>2, RowsKept DEF NotReady, SkipRound, SaveRoot, Published
  <2>. QED BY <1>1, <2>1
<1>3. ASSUME NEW status \in Statuses, NEW snapshot \in 0 .. MaxHead, r = round,
             status # "absent",
             rows' = [rows EXCEPT ![round] = WithStatus(rows[round], status, snapshot)]
      PROVE  /\ rows'[r].root # NoRoot =>
                  rows'[r].snapshot = rows'[r].root.snapshot
             /\ rows'[r].status = "absent" => rows'[r].root = NoRoot
  <2>1. rows'[r] = WithStatus(rows[r], status, snapshot)
    BY <1>1, <1>3
  <2>2. /\ rows'[r].status = status /\ rows'[r].root = rows[r].root
        /\ rows'[r].snapshot = IF rows[r].status = "absent" THEN snapshot
                                                          ELSE rows[r].snapshot
    BY <1>1, <1>3, <2>1, WithStatusType
  <2>. QED BY <1>1, <1>3, <2>2
<1>4. CASE NotReady /\ r = round
  <2>1. ResolvedSnapshot(round) \in 0 .. MaxHead
    BY <1>1, SnapshotType DEF Inv
  <2>2. "snapshot_not_ready" \in Statuses
    BY DEF Statuses
  <2>3. rows' = [rows EXCEPT ![round] =
                   WithStatus(rows[round], "snapshot_not_ready", ResolvedSnapshot(round))]
    BY <1>1, <1>4 DEF NotReady
  <2>. QED BY <1>3, <1>4, <2>1, <2>2, <2>3
<1>5. CASE SkipRound /\ r = round
  <2>. DEFINE status == IF root.amount = 0 THEN "skipped_no_reward"
                                           ELSE "skipped_no_holders"
  <2>1. status \in Statuses /\ status # "absent" /\ root.snapshot \in 0 .. MaxHead
    BY DEF Inv, TypeOK, Statuses, Skipped
  <2>2. rows' = [rows EXCEPT ![round] = WithStatus(rows[round], status, root.snapshot)]
    BY <1>1, <1>5 DEF SkipRound
  <2>. HIDE DEF status
  <2>. QED BY <1>3, <1>5, <2>1, <2>2
<1>6. CASE SaveRoot /\ r = round
  BY <1>1, <1>6 DEF SaveRoot
<1>7. CASE Published /\ r = round
  <2>1. pc = "published" => rows[round].root \in Roots
    BY DEF Inv, WorkingRoot, Acting
  <2>. QED BY <1>1, <1>7, <2>1 DEF Published, RowType
<1>. QED BY <1>2, <1>4, <1>5, <1>6, <1>7, RowsKept

(* What is published, or on its way, is what the row has.                  *)
LEMMA PublishedAsPersistedStep == Inv /\ [Next]_vars => PublishedAsPersisted'
<1>. SUFFICES ASSUME Inv, [Next]_vars PROVE PublishedAsPersisted'
  OBVIOUS
<1>1. \A tx \in PublishTxs :
        tx.round \in Rounds /\ tx.root \in Roots /\ rows[tx.round].root = tx.root
  BY DEF PublishTxs, Inv, TypeOK, Txs, NoTx, PublishedAsPersisted
<1>2. \A r \in Rounds : rows[r].root \in Roots => rows'[r].root = rows[r].root
  BY SavedStep, NoRootIsNoRoot
<1>3. ASSUME NEW r \in Rounds, published'[r] # NoRoot
      PROVE  rows'[r].root = published'[r]
  <2>1. CASE published'[r] = published[r]
    BY <1>2, <1>3, <2>1 DEF Inv, TypeOK, PublishedAsPersisted
  <2>2. CASE \E tx \in PublishTxs : tx.round = r /\ published'[r] = tx.root
    BY <1>1, <1>2, <2>2
  <2>. QED BY <2>1, <2>2, PublishedStep
<1>4. ASSUME NEW tx \in PublishTxs'
      PROVE  rows'[tx.round].root = tx.root
  <2>1. CASE tx \in PublishTxs
    BY <1>1, <1>2, <2>1
  <2>2. CASE pc = "check" /\ tx.round = round /\ tx.root = root
    BY <1>2, <2>2 DEF Inv, TypeOK, WorkingRoot, Acting
  <2>. QED BY <2>1, <2>2, SentStep
<1>. QED BY <1>3, <1>4 DEF PublishedAsPersisted

(* What is stored belongs to the root the row has.                         *)
LEMMA EntitlementsStep == Inv /\ [Next]_vars => EntitlementsOfRoot'
<1>. SUFFICES ASSUME Inv, [Next]_vars, NEW r \in Rounds, NEW leaf \in stored'[r]
              PROVE  /\ leaf.root = rows'[r].root
                     /\ leaf.account \in EligibleAt[rows'[r].snapshot]
  BY DEF EntitlementsOfRoot
<1>1. rows[r].root \in Roots =>
        rows'[r].root = rows[r].root /\ rows'[r].snapshot = rows[r].snapshot
  BY SavedStep, NoRootIsNoRoot
<1>2. CASE leaf \in stored[r]
  BY <1>1, <1>2 DEF Inv, TypeOK, EntitlementsOfRoot
<1>3. CASE /\ pc = "insert" /\ r = round /\ leaf.root = root
           /\ leaf.account \in EligibleAt[root.snapshot]
  <2>1. rows[r].root = root /\ root \in Roots /\ rows[r].snapshot = root.snapshot
    BY <1>3, NoRootIsNoRoot DEF Inv, WorkingRoot, Acting, RowsOK
  <2>. QED BY <1>1, <1>3, <2>1
<1>. QED BY <1>2, <1>3, StoredStep

(* The conjuncts together.                                                 *)
THEOREM Invariance == Spec => []Inv
<1>1. Inv /\ [Next]_vars => Inv'
  BY TypeStep, WorkingStep, RowsStep, PublishedAsPersistedStep, EntitlementsStep
     DEF Inv
<1>. QED BY <1>1, InitInv, PTL DEF Spec

----------------------------------------------------------------------------
(* The theorems. *)

(* The variables of the worker, of its tables and of the vault have their  *)
(* types: no more is committed than was deposited, and a round's root is   *)
(* computed at a block of the chain from funds the vault has.              *)
THEOREM TypeCorrect == Spec => []TypeOK
BY Invariance, PTL DEF Inv

(* The root on chain is the one saved in the round's row, for every        *)
(* interleaving of runs, crashes, abandoned transactions and reorgs of the *)
(* indexer: readRound (publish.ts:61) never meets a different root.        *)
THEOREM PublishedIsPersisted == Spec => []PublishedAsPersisted
BY Invariance, PTL DEF Inv

(* Whatever cuts upsertWorkerRoundComputed, the DELETE and the INSERTs of  *)
(* replaceWorkerEntitlements apart, the stored entitlements belong to the  *)
(* saved root and to holders eligible at its snapshot.                     *)
THEOREM EntitlementsBelong == Spec => []EntitlementsOfRoot
BY Invariance, PTL DEF Inv

(* A root, once saved in worker_rounds, is never replaced, nor is the      *)
(* snapshot it is computed at: later runs resume it or leave the round.    *)
THEOREM SavedRootStays ==
  Spec => [][\A r \in Rounds : rows[r].root # NoRoot =>
               /\ rows'[r].root = rows[r].root
               /\ rows'[r].snapshot = rows[r].snapshot]_vars
<1>1. Inv /\ [Next]_vars =>
        [\A r \in Rounds : rows[r].root # NoRoot =>
           /\ rows'[r].root = rows[r].root
           /\ rows'[r].snapshot = rows[r].snapshot]_vars
  BY SavedStep
<1>. QED BY <1>1, Invariance, PTL DEF Spec
=============================================================================
