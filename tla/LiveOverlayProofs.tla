------------------------- MODULE LiveOverlayProofs -------------------------
(***************************************************************************)
(* Proofs, for any windows, lags, chains and number of reorganisations, of *)
(* what a page shows in LiveOverlay.  A transaction that no reorganisation *)
(* moved has one place for good, and whatever read the chain before - the  *)
(* indexer, a window, a row - has it at that place.                        *)
(***************************************************************************)
EXTENDS LiveOverlay, FiniteSetTheorems, SequenceTheorems, WellFoundedInduction, TLAPS

Blocks == Seq(SUBSET Txs)
Settled == Txs \ moved

JobType == [from : Nat, to : Int, blocks : Blocks]
TipType == [block : 1..MaxHeight, price : {NoPrice} \cup TradeTxs, seen : 0..MaxHeight]

Types ==
    /\ chain \in Blocks /\ Valid(chain) /\ Len(chain) <= MaxHeight
    /\ canon \in Blocks /\ anchors \subseteq DOMAIN canon
    /\ listed \in BOOLEAN /\ watching \in BOOLEAN
    /\ checkpoint \in NoCheckpoint..Len(chain)
    /\ job \in JobType
    /\ events \subseteq Event
    /\ \A e, f \in events : e.tx = f.tx => e = f
    /\ tip \in TipType \cup {NoTip}
    /\ lapsed \in NoCheckpoint..checkpoint
    /\ missed \subseteq Txs /\ moved \subseteq Txs

(* What the indexer has of settled transactions is what the chain has, and *)
(* from a stored hash that differs on there is none of them.               *)
CanonOK ==
    /\ Len(canon) <= Len(chain)
    /\ \A i \in 1..Len(canon), x \in Settled : x \in canon[i] <=> x \in chain[i]
    /\ \A k \in anchors, i \in 1..Len(canon) :
          k <= i /\ Differs(k) => canon[i] \subseteq moved
    /\ Launch \in Mined(canon) => listed

(* A window begins behind the checkpoint, has of settled transactions what *)
(* the chain has there, and no trade before the launch.                    *)
JobOK ==
    job # NoJob =>
        /\ job.from > checkpoint /\ job.from >= 1
        /\ job.to > checkpoint /\ job.to >= job.from - 1 /\ job.to <= Len(chain)
        /\ Len(job.blocks) = job.to - job.from + 1
        /\ \A i \in DOMAIN job.blocks, x \in Settled :
              x \in job.blocks[i] <=> x \in chain[job.from - 1 + i]
        /\ \A i, j \in DOMAIN job.blocks :
              Launch \in job.blocks[i] /\ job.blocks[j] # {} => i <= j

EventsOK ==
    /\ \A e \in events :
          /\ e.block <= checkpoint /\ e.seen <= checkpoint
          /\ e.tx \notin moved => e.tx \in chain[e.block]
    /\ tip.seen <= checkpoint

(* Every scanned trade has a row that a page shows, until the indexer has  *)
(* it or the row lapses.                                                   *)
Shown(x) == \E e \in events : e.tx = x /\ Fresh(e)

RowsKept ==
    \A i \in 1..checkpoint : \A x \in (chain[i] \cap Settled) \ {Launch} :
        x \in missed \/ x \in Canonical \/ Shown(x)

(* The tip covers every settled row a page shows: it is not older, and of  *)
(* that trade, of one that moved, or of a row that is later and lives as   *)
(* long.                                                                   *)
Covers(e) ==
    /\ tip.block >= e.block /\ tip.seen >= e.seen
    /\ \/ tip.price \in {e.tx} \cup moved
       \/ \E f \in events : f.tx = tip.price /\ Later(f, e) /\ f.seen >= e.seen

TipOK ==
    \A e \in events :
        Fresh(e) /\ Beyond(e.block) /\ e.tx \notin moved => Covers(e)

LaunchShown ==
    \A i \in 1..checkpoint : Launch \in chain[i] /\ Launch \notin missed \cup moved =>
        tip # NoTip /\ Fresh(tip) /\ tip.block >= i

Inv ==
    /\ Types /\ CanonOK /\ JobOK /\ EventsOK /\ RowsKept
    /\ TipOK /\ LaunchShown

-----------------------------------------------------------------------------
(* Numbers, and sequences of blocks. *)

(* A non-empty set of natural numbers with a bound has a greatest member. *)
LEMMA GreatestExists ==
    ASSUME NEW S, S \subseteq Nat, S # {}, NEW b \in Nat, \A x \in S : x <= b
    PROVE  \E m \in S : \A x \in S : x <= m
<1> DEFINE T == {y \in Nat : y <= b /\ b - y \in S}
<1>1. PICK a \in S : TRUE
    OBVIOUS
<1>2. b - a \in T
    <2>1. a \in Nat /\ a <= b
        BY <1>1
    <2>2. b - a \in Nat /\ b - a <= b /\ b - (b - a) = a
        BY <2>1
    <2> QED
        BY <1>1, <2>2
<1>3. T \subseteq Nat /\ T # {}
    BY <1>2
<1> HIDE DEF T
<1>4. PICK y \in T : \A z \in T : ~ (<<z, y>> \in OpToRel(<, Nat))
    BY <1>3, WFMin, NatLessThanWellFounded
<1>5. y \in Nat /\ y <= b /\ b - y \in S
    BY DEF T
<1>6. \A x \in S : x <= b - y
    <2> SUFFICES ASSUME NEW x \in S, ~(x <= b - y)
                 PROVE  FALSE
        OBVIOUS
    <2>1. x \in Nat /\ x <= b
        OBVIOUS
    <2>2. b - x \in Nat /\ b - x <= b /\ b - (b - x) = x /\ b - x < y
        BY <2>1, <1>5
    <2>3. b - x \in T
        BY <2>2 DEF T
    <2>4. <<b - x, y>> \in OpToRel(<, Nat)
        BY <2>2, <1>5 DEF OpToRel
    <2> QED
        BY <2>3, <2>4, <1>4
<1> QED
    BY <1>5, <1>6

(* The greater of two numbers. *)
LEMMA MaxOfTwo ==
    ASSUME NEW a \in Int, NEW b \in Int
    PROVE  Max({a, b}) = IF a >= b THEN a ELSE b
<1>1. \E x \in {a, b} : \A y \in {a, b} : x >= y
    <2>1. CASE a >= b
        BY <2>1
    <2>2. CASE ~(a >= b)
        BY <2>2
    <2> QED
        BY <2>1, <2>2
<1>2. Max({a, b}) \in {a, b} /\ \A y \in {a, b} : Max({a, b}) >= y
    BY <1>1, Zenon DEF Max
<1> QED
    BY <1>2

(* The lesser of two numbers.                                              *)
LEMMA MinOfTwo ==
    ASSUME NEW a \in Int, NEW b \in Int
    PROVE  Min({a, b}) = IF a <= b THEN a ELSE b
<1>1. \E x \in {a, b} : \A y \in {a, b} : x <= y
    <2>1. CASE a <= b
        BY <2>1
    <2>2. CASE ~(a <= b)
        BY <2>2
    <2> QED
        BY <2>1, <2>2
<1>2. Min({a, b}) \in {a, b} /\ \A y \in {a, b} : Min({a, b}) <= y
    BY <1>1, Zenon DEF Min
<1> QED
    BY <1>2

(* The blocks of a sequence, and what is mined in them. *)
LEMMA BlocksAre ==
    ASSUME NEW s \in Blocks
    PROVE  /\ Len(s) \in Nat /\ DOMAIN s = 1..Len(s)
           /\ \A i \in 1..Len(s) : s[i] \subseteq Txs
BY LenProperties, ElementOfSeq DEF Blocks

(* What is mined in a sequence of blocks.                                  *)
LEMMA MinedIn ==
    ASSUME NEW s \in Blocks
    PROVE  \A x : x \in Mined(s) <=> \E i \in 1..Len(s) : x \in s[i]
BY BlocksAre DEF Mined, Range

(* A window of blocks. *)
LEMMA WindowOf ==
    ASSUME NEW s \in Blocks, NEW m \in Nat \ {0}, NEW n \in Int, m - 1 <= n, n <= Len(s)
    PROVE  /\ SubSeq(s, m, n) \in Blocks
           /\ Len(SubSeq(s, m, n)) = n - m + 1
           /\ \A i \in 1..n - m + 1 : SubSeq(s, m, n)[i] = s[m - 1 + i]
           /\ \A x : x \in Mined(SubSeq(s, m, n)) <=> \E i \in m..n : x \in s[i]
<1>1. Len(s) \in Nat /\ \A i \in m..n : s[i] \in SUBSET Txs
    BY BlocksAre
<1>2. /\ SubSeq(s, m, n) \in Seq(SUBSET Txs)
      /\ Len(SubSeq(s, m, n)) = IF m <= n THEN n - m + 1 ELSE 0
      /\ \A i \in 1..n - m + 1 : SubSeq(s, m, n)[i] = s[m + i - 1]
    BY <1>1, SubSeqProperties
<1>3. \A i \in 1..n - m + 1 : m + i - 1 = m - 1 + i
    OBVIOUS
<1>4. /\ SubSeq(s, m, n) \in Blocks
      /\ Len(SubSeq(s, m, n)) = n - m + 1
      /\ \A i \in 1..n - m + 1 : SubSeq(s, m, n)[i] = s[m - 1 + i]
    BY <1>2, <1>3 DEF Blocks
<1>5. ASSUME NEW x
      PROVE  x \in Mined(SubSeq(s, m, n)) <=> \E i \in m..n : x \in s[i]
    <2>1. x \in Mined(SubSeq(s, m, n))
            <=> \E i \in 1..n - m + 1 : x \in s[m - 1 + i]
        BY ZenonT(30), <1>4, MinedIn
    <2>2. ASSUME NEW i \in m..n
          PROVE  i - m + 1 \in 1..n - m + 1 /\ m - 1 + (i - m + 1) = i
        OBVIOUS
    <2>3. ASSUME NEW i \in 1..n - m + 1
          PROVE  m - 1 + i \in m..n
        OBVIOUS
    <2> QED
        BY <2>1, <2>2, <2>3
<1> QED
    BY <1>4, <1>5

(* In a valid sequence a transaction is in one block, and a block that is  *)
(* not empty is the launch's or behind it.                                 *)
LEMMA ValidBlocks ==
    ASSUME NEW s \in Blocks
    PROVE  Valid(s) <=>
              /\ \A i, j \in 1..Len(s) : i # j => s[i] \cap s[j] = {}
              /\ \A i \in 1..Len(s) :
                    s[i] # {} => \E j \in 1..i : Launch \in s[j]
<1>1. Len(s) \in Nat /\ DOMAIN s = 1..Len(s)
    BY BlocksAre
<1>2. ASSUME NEW i \in 1..Len(s)
      PROVE  Launch \in Mined(SubSeq(s, 1, i)) <=> \E j \in 1..i : Launch \in s[j]
    <2>1. 1 \in Nat \ {0} /\ i \in Int /\ 1 - 1 <= i /\ i <= Len(s)
        BY <1>1
    <2> QED
        BY <2>1, WindowOf
<1>3. (\A i \in 1..Len(s) : \A j \in 1..i - 1 : s[i] \cap s[j] = {})
         <=> \A i, j \in 1..Len(s) : i # j => s[i] \cap s[j] = {}
    <2>1. ASSUME \A i \in 1..Len(s) : \A j \in 1..i - 1 : s[i] \cap s[j] = {},
                 NEW i \in 1..Len(s), NEW j \in 1..Len(s), i # j
          PROVE  s[i] \cap s[j] = {}
        <3>1. CASE j < i
            <4>1. j \in 1..i - 1
                BY <3>1, <1>1
            <4> QED
                BY <2>1, <4>1
        <3>2. CASE i < j
            <4>1. i \in 1..j - 1
                BY <3>2, <1>1
            <4> QED
                BY <2>1, <4>1
        <3> QED
            BY <3>1, <3>2, <2>1, <1>1
    <2>2. ASSUME NEW i \in 1..Len(s), NEW j \in 1..i - 1
          PROVE  j \in 1..Len(s) /\ i # j
        BY <1>1
    <2> QED
        BY <2>1, <2>2
<1> QED
    BY <1>1, <1>2, <1>3 DEF Valid

(* Rows of distinct trades have a newest one. *)
LEMMA NewestOf ==
    ASSUME NEW S, S # {}, S \subseteq Event, \A e, f \in S : e.tx = f.tx => e = f
    PROVE  /\ Newest(S) \in S
           /\ \A f \in S \ {Newest(S)} : Later(Newest(S), f)
<1>1. \A e \in S : e.block \in Nat /\ e.block <= MaxHeight /\ e.tx \in Nat /\ e.tx <= Trades
    BY OverlayAssumption DEF Event, TradeTxs
<1>2. MaxHeight \in Nat /\ Trades \in Nat
    BY OverlayAssumption
<1> DEFINE Bs == {e.block : e \in S}
<1>3. PICK b \in Bs : \A c \in Bs : c <= b
    <2>1. Bs \subseteq Nat /\ Bs # {} /\ \A c \in Bs : c <= MaxHeight
        BY <1>1
    <2> HIDE DEF Bs
    <2> QED
        BY <2>1, <1>2, GreatestExists
<1> DEFINE Xs == {e.tx : e \in {f \in S : f.block = b}}
<1>4. PICK x \in Xs : \A y \in Xs : y <= x
    <2>1. Xs \subseteq Nat /\ Xs # {} /\ \A c \in Xs : c <= Trades
        BY <1>1, <1>3
    <2> HIDE DEF Xs
    <2> QED
        BY <2>1, <1>2, GreatestExists
<1>5. PICK e \in S : e.block = b /\ e.tx = x
    BY <1>4
<1>6. \A f \in S \ {e} : Later(e, f)
    <2> SUFFICES ASSUME NEW f \in S \ {e}
                 PROVE  Later(e, f)
        OBVIOUS
    <2>1. f.block <= e.block
        BY <1>3, <1>5
    <2>2. CASE f.block = e.block
        <3>1. f.tx \in Xs
            BY <2>2, <1>5
        <3>2. f.tx <= e.tx /\ f.tx # e.tx
            BY <3>1, <1>4, <1>5
        <3>3. f.tx \in Nat /\ e.tx \in Nat
            BY <1>1, <1>5
        <3>4. e.tx > f.tx
            BY <3>2, <3>3
        <3> QED
            BY <3>4, <2>2 DEF Later
    <2>3. CASE f.block # e.block
        <3>1. f.block \in Nat /\ e.block \in Nat
            BY <1>1, <1>5
        <3> QED
            BY <2>1, <2>3, <3>1 DEF Later
    <2> QED
        BY <2>2, <2>3
<1>7. \E g \in S : \A f \in S \ {g} : Later(g, f)
    BY <1>5, <1>6
<1> QED
    BY <1>7, Zenon DEF Newest

-----------------------------------------------------------------------------
(* The chain: how a step of it keeps the places of settled transactions. *)

(* What a step of the chain leaves as it was. *)
Extends ==
    /\ Len(chain') >= Len(chain) /\ moved \subseteq moved'
    /\ \A i \in 1..Len(chain), x \in Txs \ moved' :
          /\ x \in chain[i] => x \in chain'[i]
          /\ x \in chain'[i] /\ WasRead(i) => x \in chain[i]

(* Mine adds one block. *)
LEMMA MineAdds ==
    ASSUME Types, Mine
    PROVE  /\ chain' \in Blocks /\ Valid(chain') /\ Len(chain') = Len(chain) + 1
           /\ \A i \in 1..Len(chain) : chain'[i] = chain[i]
<1>1. PICK txs \in SUBSET (Txs \ Mined(chain)) :
          chain' = Append(chain, txs) /\ Valid(chain')
    BY DEF Mine
<1>2. chain \in Seq(SUBSET Txs) /\ Len(chain) \in Nat /\ txs \in SUBSET Txs
    BY BlocksAre DEF Types, Blocks
<1> QED
    BY <1>1, <1>2, AppendProperties DEF Blocks

(* Reorg keeps the first blocks; what the others had is moved, and so is   *)
(* what they have now where a reader is past them.                         *)
LEMMA ReorgReplaces ==
    ASSUME Types, Reorg
    PROVE  /\ chain' \in Blocks /\ Len(chain') = Len(chain) /\ Valid(chain')
           /\ moved' \subseteq Txs
           /\ \E kept \in 0..Len(chain) :
                 /\ \A i \in 1..kept : chain'[i] = chain[i]
                 /\ \A x \in Txs : x \in moved' <=>
                       \/ x \in moved
                       \/ \E i \in kept + 1..Len(chain) :
                             x \in chain[i] \/ (WasRead(i) /\ x \in chain'[i])
<1>1. chain \in Blocks /\ Len(chain) \in Nat
    BY BlocksAre DEF Types
<1>2. PICK d \in 1..Min({MaxDepth, Len(chain)}) :
          LET kept == Len(chain) - d
              replaced == kept + 1..Len(chain)
          IN /\ \E other \in [1..d -> SUBSET Txs] : chain' = Prefix(kept) \o other
             /\ Valid(chain') /\ chain' # chain
             /\ moved' = moved \cup {tx \in Txs : \E i \in replaced :
                    tx \in chain[i] \/ (WasRead(i) /\ tx \in chain'[i])}
    BY DEF Reorg
<1> DEFINE kept == Len(chain) - d
<1>3. PICK other \in [1..d -> SUBSET Txs] : chain' = Prefix(kept) \o other
    BY <1>2
<1>4. /\ Valid(chain')
      /\ moved' = moved \cup {tx \in Txs : \E i \in kept + 1..Len(chain) :
             tx \in chain[i] \/ (WasRead(i) /\ tx \in chain'[i])}
    BY <1>2
<1>5. d \in Nat /\ d >= 1 /\ d <= Len(chain)
    <2>1. Min({MaxDepth, Len(chain)}) \in Int /\ Min({MaxDepth, Len(chain)}) <= Len(chain)
        BY <1>1, OverlayAssumption, MinOfTwo
    <2>2. d \in Int /\ d >= 1 /\ d <= Min({MaxDepth, Len(chain)})
        BY <2>1
    <2> HIDE DEF kept
    <2> QED
        BY <1>1, <2>1, <2>2
<1>6. kept \in 0..Len(chain) /\ d = Len(chain) - kept
    BY <1>1, <1>5
<1> HIDE DEF kept
<1>7. /\ Prefix(kept) \in Blocks /\ Len(Prefix(kept)) = kept
      /\ \A i \in 1..kept : Prefix(kept)[i] = chain[i]
    <2>1. 1 \in Nat \ {0} /\ kept \in Int /\ 1 - 1 <= kept /\ kept <= Len(chain)
        BY <1>6, <1>1
    <2>2. kept - 1 + 1 = kept /\ \A i \in 1..kept : 1 - 1 + i = i
        BY <1>6
    <2> QED
        BY <2>1, <2>2, <1>1, WindowOf DEF Prefix
<1>8. other \in Blocks /\ Len(other) = d
    <2>1. other \in Seq(SUBSET Txs)
        BY <1>5, SeqDef
    <2> QED
        BY <2>1, <1>5, LenProperties DEF Blocks
<1>9. /\ chain' \in Blocks /\ Len(chain') = kept + d
      /\ \A i \in 1..kept + d :
            chain'[i] = IF i <= kept THEN Prefix(kept)[i] ELSE other[i - kept]
    <2>1. Prefix(kept) \in Seq(SUBSET Txs) /\ other \in Seq(SUBSET Txs)
        BY <1>7, <1>8 DEF Blocks
    <2>2. /\ Prefix(kept) \o other \in Seq(SUBSET Txs)
          /\ Len(Prefix(kept) \o other) = Len(Prefix(kept)) + Len(other)
          /\ \A i \in 1..Len(Prefix(kept)) + Len(other) :
                (Prefix(kept) \o other)[i] =
                    IF i <= Len(Prefix(kept)) THEN Prefix(kept)[i]
                    ELSE other[i - Len(Prefix(kept))]
        BY <2>1, ConcatProperties
    <2>3. Len(Prefix(kept)) = kept /\ Len(other) = d
        BY <1>7, <1>8
    <2>4. chain' = Prefix(kept) \o other
        BY <1>3
    <2> QED
        BY <2>2, <2>3, <2>4 DEF Blocks
<1>10. Len(chain') = Len(chain)
    BY <1>9, <1>6, <1>1
<1>11. \A i \in 1..kept : chain'[i] = chain[i]
    BY <1>9, <1>7, <1>6, <1>1, <1>5
<1>12. \A x \in Txs : x \in moved' <=>
                 \/ x \in moved
                 \/ \E i \in kept + 1..Len(chain) :
                       x \in chain[i] \/ (WasRead(i) /\ x \in chain'[i])
    BY <1>4
<1>13. moved' \subseteq Txs
    BY <1>4 DEF Types
<1> QED
    BY <1>4, <1>6, <1>9, <1>10, <1>11, <1>12, <1>13

(* Both keep every settled transaction where it is, put no new one before  *)
(* a reader, and replace no block without moving what is in it and behind  *)
(* it.                                                                     *)
LEMMA ChainExtends ==
    ASSUME Types, Mine \/ Reorg
    PROVE  /\ chain' \in Blocks /\ Valid(chain') /\ Extends
           /\ \A k, i \in 1..Len(chain) :
                 k <= i /\ chain'[k] # chain[k] => chain[i] \subseteq moved'
<1>1. chain \in Blocks /\ Len(chain) \in Nat
    BY BlocksAre DEF Types
<1>2. CASE Mine
    <2>1. moved' = moved
        BY <1>2 DEF Mine, hist
    <2> QED
        BY <1>1, <1>2, <2>1, MineAdds DEF Extends
<1>3. CASE Reorg
    <2>1. chain' \in Blocks /\ Len(chain') = Len(chain) /\ Valid(chain')
        BY <1>3, ReorgReplaces
    <2>2. PICK kept \in 0..Len(chain) :
             /\ \A i \in 1..kept : chain'[i] = chain[i]
             /\ \A x \in Txs : x \in moved' <=>
                   \/ x \in moved
                   \/ \E i \in kept + 1..Len(chain) :
                         x \in chain[i] \/ (WasRead(i) /\ x \in chain'[i])
        BY <1>3, ReorgReplaces
    <2>3. \A i \in 1..Len(chain) : i \in 1..kept \/ i \in kept + 1..Len(chain)
        BY <1>1, <2>2
    <2>4. ASSUME NEW i \in 1..Len(chain), NEW x \in Txs \ moved'
          PROVE  /\ x \in chain[i] => x \in chain'[i]
                 /\ x \in chain'[i] /\ WasRead(i) => x \in chain[i]
        BY <2>2, <2>3
    <2>5. ASSUME NEW k \in 1..Len(chain), NEW i \in 1..Len(chain),
                 k <= i, chain'[k] # chain[k]
          PROVE  chain[i] \subseteq moved'
        <3>1. k \in kept + 1..Len(chain)
            BY <2>5, <2>2, <2>3
        <3>2. i \in kept + 1..Len(chain)
            BY <3>1, <2>5, <2>2, <1>1
        <3> QED
            BY <3>2, <2>2, <1>1, BlocksAre
    <2>6. moved \subseteq moved'
        BY <2>2 DEF Types
    <2> QED
        BY <2>1, <2>4, <2>5, <2>6, <1>1 DEF Extends
<1> QED
    BY <1>2, <1>3

-----------------------------------------------------------------------------
(* What is behind the steps of the indexer and of the observer. *)

(* The indexer takes over the chain behind its last block, unless a stored *)
(* hash differs.                                                           *)
LEMMA IndexTakes ==
    ASSUME Types, Index
    PROVE  /\ canon' \in Blocks /\ Len(canon') \in Len(canon)..Len(chain)
           /\ \A i \in 1..Len(canon) : canon'[i] = canon[i]
           /\ \A i \in Len(canon) + 1..Len(canon') : canon'[i] = chain[i]
           /\ \A i \in anchors : ~Differs(i)
           /\ \A i \in anchors' : i \in anchors \/ i \in Len(canon) + 1..Len(canon')
           /\ listed' = (listed \/ Launch \in Mined(canon'))
<1>1. chain \in Blocks /\ canon \in Blocks /\ Len(chain) \in Nat /\ Len(canon) \in Nat
    BY BlocksAre DEF Types
<1> DEFINE L == Len(canon)
<1>2. PICK n \in L + 1..Len(chain) - Lag :
          /\ canon' = canon \o SubSeq(chain, L + 1, n)
          /\ \E unsampled \in SUBSET {i \in L + 1..n : chain[i] = {}} :
                anchors' = anchors \cup ((L + 1..n) \ unsampled) \cup {n}
          /\ listed' = (listed \/ Launch \in Mined(canon'))
    BY DEF Index, MainCheckpoint
<1>3. L \in Nat
    BY <1>1
<1> HIDE DEF L
<1>4. n \in Nat /\ n <= Len(chain) /\ n >= L + 1
    BY <1>1, <1>2, <1>3, OverlayAssumption
<1> DEFINE t == SubSeq(chain, L + 1, n)
<1>5. t \in Blocks /\ Len(t) = n - L /\ \A i \in 1..n - L : t[i] = chain[L + i]
    <2>1. L + 1 \in Nat \ {0} /\ n \in Int /\ (L + 1) - 1 <= n /\ n <= Len(chain)
        BY <1>3, <1>4
    <2>2. n - (L + 1) + 1 = n - L /\ \A i \in 1..n - L : (L + 1) - 1 + i = L + i
        BY <1>3, <1>4
    <2> HIDE DEF t
    <2>3. /\ t \in Blocks /\ Len(t) = n - (L + 1) + 1
          /\ \A i \in 1..n - (L + 1) + 1 : t[i] = chain[(L + 1) - 1 + i]
        BY <2>1, <1>1, WindowOf DEF t
    <2> QED
        BY <2>2, <2>3
<1> HIDE DEF t
<1>6. /\ canon \o t \in Blocks /\ Len(canon \o t) = L + Len(t)
      /\ \A i \in 1..L + Len(t) :
            (canon \o t)[i] = IF i <= L THEN canon[i] ELSE t[i - L]
    BY <1>1, <1>5, ConcatProperties DEF Blocks, L
<1>7. canon' = canon \o t
    BY <1>2 DEF t
<1>8. L + Len(t) = n
    BY <1>3, <1>4, <1>5
<1>9. \A i \in 1..L : canon'[i] = canon[i]
    BY <1>3, <1>4, <1>6, <1>7, <1>8
<1>10. ASSUME NEW i \in L + 1..n
       PROVE  canon'[i] = chain[i]
    <2>1. i \in 1..n /\ ~(i <= L) /\ i - L \in 1..n - L /\ L + (i - L) = i
        BY <1>3, <1>4
    <2> QED
        BY <2>1, <1>5, <1>6, <1>7, <1>8
<1>11. \A i \in anchors' : i \in anchors \/ i \in L + 1..n
    BY <1>2, <1>4
<1>12. \A i \in anchors : ~Differs(i)
    BY DEF Index
<1>13. n \in L..Len(chain)
    BY <1>3, <1>4
<1> QED
    BY <1>2, <1>6, <1>7, <1>8, <1>9, <1>10, <1>11, <1>12, <1>13 DEF L

(* The indexer returns to the block before the first stored hash that      *)
(* differs.                                                                *)
LEMMA RollbackAgrees ==
    ASSUME Types, Rollback
    PROVE  /\ canon' \in Blocks /\ Len(canon') <= Len(canon)
           /\ \A i \in 1..Len(canon') : canon'[i] = canon[i]
           /\ anchors' \subseteq anchors /\ anchors' \subseteq 1..Len(canon')
           /\ \E first \in anchors : Differs(first) /\ Len(canon') = first - 1
<1>1. canon \in Blocks /\ Len(canon) \in Nat /\ anchors \subseteq 1..Len(canon)
    BY BlocksAre DEF Types
<1>2. PICK first \in anchors :
          /\ Differs(first) /\ canon' = SubSeq(canon, 1, first - 1)
          /\ anchors' = {i \in anchors : i < first}
    BY DEF Rollback
<1>3. first \in 1..Len(canon)
    BY <1>1
<1> DEFINE n == first - 1
<1>4. n \in Nat /\ n <= Len(canon)
    BY <1>1, <1>3
<1>5. canon' = SubSeq(canon, 1, n)
    BY <1>2
<1> HIDE DEF n
<1>6. /\ 1 \in Nat \ {0} /\ n \in Int /\ 1 - 1 <= n
      /\ n - 1 + 1 = n /\ \A i \in 1..n : 1 - 1 + i = i
    BY <1>4
<1>7. /\ canon' \in Blocks /\ Len(canon') = n
      /\ \A i \in 1..n : canon'[i] = canon[i]
    BY <1>1, <1>4, <1>5, <1>6, WindowOf
<1>8. \A i \in anchors : i < first => i \in 1..n
    BY <1>1, <1>3 DEF n
<1>9. anchors' \subseteq anchors /\ anchors' \subseteq 1..Len(canon')
    BY <1>2, <1>7, <1>8
<1>10. Differs(first) /\ Len(canon') = first - 1
    BY <1>2, <1>7 DEF n
<1> QED
    BY <1>4, <1>7, <1>9, <1>10

(* A window begins behind the last scanned block, which the checkpoint is  *)
(* not beyond: a jump near the head only goes forward.                     *)
LEMMA ScanReads ==
    ASSUME Types, Scan
    PROVE  /\ job' \in JobType
           /\ job'.from > checkpoint /\ job'.from >= 1
           /\ job'.to > checkpoint /\ job'.to >= job'.from - 1 /\ job'.to <= Len(chain)
           /\ Len(job'.blocks) = job'.to - job'.from + 1
           /\ \A i \in 1..Len(job'.blocks) : job'.blocks[i] = chain[job'.from - 1 + i]
<1>1. /\ chain \in Blocks /\ Len(chain) \in Nat
      /\ checkpoint \in Int /\ checkpoint >= -1 /\ checkpoint <= Len(chain)
    BY BlocksAre DEF Types, NoCheckpoint
<1>2. /\ Replay \in Nat /\ StaleLag \in Nat /\ MaxCatchup \in Nat /\ MaxCatchup >= 1
      /\ Replay <= StaleLag
    BY OverlayAssumption
<1>3. LastScanned \in Int /\ LastScanned >= checkpoint /\ LastScanned >= -1
    <2>1. Len(chain) - Replay \in Int /\ 0 \in Int
        BY <1>1, <1>2
    <2>2. Max({Len(chain) - Replay, 0}) =
             IF Len(chain) - Replay >= 0 THEN Len(chain) - Replay ELSE 0
        BY <2>1, MaxOfTwo
    <2>3. CASE checkpoint = -1
        BY <2>2, <2>3, <1>1, <1>2 DEF LastScanned, Jumps, NoCheckpoint
    <2>4. CASE checkpoint # -1
        <3>1. CASE Len(chain) - checkpoint > StaleLag
            <4>1. Len(chain) - Replay > checkpoint /\ Len(chain) - Replay >= 0
                BY <3>1, <2>4, <1>1, <1>2
            <4> QED
                BY <4>1, <2>2, <3>1, <1>1, <1>2 DEF LastScanned, Jumps
        <3>2. CASE ~(Len(chain) - checkpoint > StaleLag)
            BY <3>2, <2>4, <1>1 DEF LastScanned, Jumps, NoCheckpoint
        <3> QED
            BY <3>1, <3>2
    <2> QED
        BY <2>3, <2>4
<1>4. LastScanned < ScanEnd
    BY DEF Scan
<1>5. ScanEnd \in Int /\ ScanEnd <= Len(chain)
    <2>1. LastScanned + MaxCatchup \in Int
        BY <1>2, <1>3
    <2>2. Min({Len(chain), LastScanned + MaxCatchup}) =
             IF Len(chain) <= LastScanned + MaxCatchup THEN Len(chain)
             ELSE LastScanned + MaxCatchup
        BY <2>1, <1>1, MinOfTwo
    <2> QED
        BY <2>1, <2>2, <1>1 DEF ScanEnd
<1> DEFINE from == Max({LastScanned + 1, 1})
<1>6. from \in Nat \ {0} /\ from >= LastScanned + 1 /\ from - 1 <= ScanEnd
    <2>1. from = IF LastScanned + 1 >= 1 THEN LastScanned + 1 ELSE 1
        BY <1>3, MaxOfTwo
    <2> HIDE DEF from
    <2> QED
        BY <2>1, <1>3, <1>4, <1>5
<1>7. job' = [from |-> from, to |-> ScanEnd, blocks |-> SubSeq(chain, from, ScanEnd)]
    BY DEF Scan
<1> HIDE DEF from
<1>8. /\ SubSeq(chain, from, ScanEnd) \in Blocks
      /\ Len(SubSeq(chain, from, ScanEnd)) = ScanEnd - from + 1
      /\ \A i \in 1..ScanEnd - from + 1 :
            SubSeq(chain, from, ScanEnd)[i] = chain[from - 1 + i]
    BY <1>1, <1>5, <1>6, WindowOf
<1>9. /\ job'.from = from /\ job'.to = ScanEnd
      /\ job'.blocks = SubSeq(chain, from, ScanEnd)
    BY <1>7
<1>10. job' \in JobType
    BY <1>5, <1>6, <1>7, <1>8 DEF JobType
<1>11. from > checkpoint /\ from >= 1 /\ ScanEnd > checkpoint
    BY <1>1, <1>3, <1>4, <1>5, <1>6
<1> QED
    BY <1>5, <1>6, <1>8, <1>9, <1>10, <1>11

(* The block a transaction of the window is stored with is one that it was *)
(* read in.                                                                *)
LEMMA BlockRead ==
    ASSUME job \in JobType, NEW x \in Captured
    PROVE  \E i \in 1..Len(job.blocks) : x \in job.blocks[i] /\ BlockOf(x) = job.from - 1 + i
<1>1. job.blocks \in Blocks
    BY DEF JobType
<1>2. DOMAIN job.blocks = 1..Len(job.blocks)
    BY <1>1, BlocksAre
<1>3. \E i \in DOMAIN job.blocks : x \in job.blocks[i]
    BY <1>1, <1>2, MinedIn DEF Captured
<1> DEFINE c == CHOOSE i \in DOMAIN job.blocks : x \in job.blocks[i]
<1>4. c \in DOMAIN job.blocks /\ x \in job.blocks[c]
    BY <1>3, Zenon
<1>5. BlockOf(x) = job.from - 1 + c
    BY DEF BlockOf
<1> QED
    BY <1>2, <1>4, <1>5

(* Where x is captured at the time of a commit. *)
LEMMA CapturedIn ==
    ASSUME Types, JobOK, job # NoJob
    PROVE  /\ job.from \in Nat /\ job.from >= 1 /\ job.from > checkpoint
           /\ job.to \in Nat /\ job.to > checkpoint /\ job.to <= Len(chain)
           /\ Captured \subseteq Txs
           /\ \A x \in Captured : /\ BlockOf(x) \in job.from..job.to
                                  /\ x \notin moved => x \in chain[BlockOf(x)]
           /\ \A i \in job.from..job.to : chain[i] \cap Settled \subseteq Captured
<1>1. /\ chain \in Blocks /\ Len(chain) \in Nat /\ checkpoint \in Int /\ checkpoint >= -1
      /\ job \in JobType
    BY BlocksAre DEF Types, NoCheckpoint
<1>2. job.from \in Nat /\ job.to \in Int /\ job.blocks \in Blocks
    BY <1>1 DEF JobType
<1>3. /\ job.from > checkpoint /\ job.from >= 1
      /\ job.to > checkpoint /\ job.to >= job.from - 1 /\ job.to <= Len(chain)
      /\ Len(job.blocks) = job.to - job.from + 1
      /\ \A i \in DOMAIN job.blocks, x \in Settled :
            x \in job.blocks[i] <=> x \in chain[job.from - 1 + i]
    BY DEF JobOK
<1>4. DOMAIN job.blocks = 1..Len(job.blocks) /\ \A i \in 1..Len(job.blocks) : job.blocks[i] \subseteq Txs
    BY <1>2, BlocksAre
<1>5. \A x : x \in Captured <=> \E i \in 1..Len(job.blocks) : x \in job.blocks[i]
    BY <1>2, MinedIn DEF Captured
<1>6. Captured \subseteq Txs
    BY <1>4, <1>5
<1>7. ASSUME NEW x \in Captured
      PROVE  BlockOf(x) \in job.from..job.to /\ (x \notin moved => x \in chain[BlockOf(x)])
    <2>1. PICK i \in 1..Len(job.blocks) : x \in job.blocks[i] /\ BlockOf(x) = job.from - 1 + i
        BY <1>1, BlockRead
    <2>2. job.from - 1 + i \in job.from..job.to
        BY <1>2, <1>3
    <2>3. x \notin moved => x \in Settled
        BY <1>6 DEF Settled
    <2> QED
        BY <2>1, <2>2, <2>3, <1>3, <1>4
<1>8. ASSUME NEW i \in job.from..job.to, NEW x \in chain[i], x \in Settled
      PROVE  x \in Captured
    <2>1. i - job.from + 1 \in 1..Len(job.blocks) /\ job.from - 1 + (i - job.from + 1) = i
        BY SMTT(30), <1>2, <1>3
    <2> QED
        BY <2>1, <1>3, <1>4, <1>5, <1>8
<1> QED
    BY <1>2, <1>3, <1>1, <1>6, <1>7, <1>8

(* The trades of a window, as rows. *)
LEMMA SwapsAre ==
    ASSUME Types, JobOK, job # NoJob
    PROVE  /\ Swaps \subseteq Event
           /\ \A w \in Swaps : /\ w.tx \in Captured \ {Launch} /\ w.block = BlockOf(w.tx)
                               /\ w.seen = job.to
           /\ \A v, w \in Swaps : v.tx = w.tx => v = w
           /\ Watches => \A x \in Captured \ {Launch} : \E w \in Swaps : w.tx = x
<1>1. /\ job.from \in Nat /\ job.from >= 1 /\ job.to \in Nat /\ job.to <= Len(chain)
      /\ Captured \subseteq Txs
      /\ \A x \in Captured : BlockOf(x) \in job.from..job.to
    BY CapturedIn
<1>2. Len(chain) \in Nat /\ Len(chain) <= MaxHeight /\ MaxHeight \in Nat
    BY BlocksAre, OverlayAssumption DEF Types
<1>3. ASSUME NEW w \in Swaps
      PROVE  \E x \in Captured \ {Launch} :
                 w = [tx |-> x, block |-> BlockOf(x), seen |-> job.to]
    <2>1. PICK x \in IF Watches THEN Captured \ {Launch} ELSE {} :
              w = [tx |-> x, block |-> BlockOf(x), seen |-> job.to]
        BY DEF Swaps
    <2>2. x \in Captured \ {Launch}
        OBVIOUS
    <2> QED
        BY <2>1, <2>2
<1>4. Captured \ {Launch} \subseteq TradeTxs
    BY <1>1 DEF Txs
<1>5. \A x \in Captured : BlockOf(x) \in 1..MaxHeight
    BY <1>1, <1>2
<1>6. job.to \in 0..MaxHeight
    BY <1>1, <1>2
<1>7. ASSUME NEW w \in Swaps
      PROVE  /\ w \in Event /\ w.tx \in Captured \ {Launch}
             /\ w.block = BlockOf(w.tx) /\ w.seen = job.to
             /\ w = [tx |-> w.tx, block |-> BlockOf(w.tx), seen |-> job.to]
    BY <1>3, <1>4, <1>5, <1>6 DEF Event
<1>8. \A v, w \in Swaps : v.tx = w.tx => v = w
    BY <1>7
<1>9. ASSUME Watches, NEW x \in Captured \ {Launch}
      PROVE  \E w \in Swaps : w.tx = x
    <2> DEFINE w == [tx |-> x, block |-> BlockOf(x), seen |-> job.to]
    <2>1. x \in IF Watches THEN Captured \ {Launch} ELSE {}
        BY <1>9
    <2>2. w \in Swaps
        BY <2>1 DEF Swaps
    <2> QED
        BY <2>2
<1> QED
    BY <1>7, <1>8, <1>9

(* A row in conflict with a swap keeps its block and lives longer. *)
LEMMA RefreshedIs ==
    ASSUME Types, JobOK, EventsOK, job # NoJob, NEW e \in events
    PROVE  /\ Refreshed(e) \in Event
           /\ Refreshed(e).tx = e.tx /\ Refreshed(e).block = e.block
           /\ Refreshed(e).seen >= e.seen /\ Refreshed(e).seen <= job.to
           /\ Refreshed(e) = e \/ (Refreshed(e).seen = job.to /\ e.tx \in Captured)
           /\ (\E w \in Swaps : w.tx = e.tx) => Refreshed(e).seen = job.to
<1>1. e \in Event /\ e.seen <= checkpoint /\ checkpoint \in Int
    BY DEF Types, EventsOK, NoCheckpoint
<1>2. job.to \in Nat /\ job.to > checkpoint /\ job.to <= Len(chain)
    BY CapturedIn
<1>3. Len(chain) \in Nat /\ Len(chain) <= MaxHeight /\ MaxHeight \in Nat
    BY BlocksAre, OverlayAssumption DEF Types
<1>4. e.seen \in Int /\ e = [tx |-> e.tx, block |-> e.block, seen |-> e.seen]
    BY <1>1, <1>3 DEF Event
<1>5. CASE e.tx \in {w.tx : w \in Swaps}
    <2>1. Refreshed(e) = [e EXCEPT !.seen = job.to]
        BY <1>5 DEF Refreshed
    <2>2. job.to \in 0..MaxHeight
        BY <1>2, <1>3
    <2>3. /\ [e EXCEPT !.seen = job.to] \in Event
          /\ [e EXCEPT !.seen = job.to].tx = e.tx
          /\ [e EXCEPT !.seen = job.to].block = e.block
          /\ [e EXCEPT !.seen = job.to].seen = job.to
        BY <1>1, <2>2 DEF Event
    <2>4. e.tx \in Captured
        BY <1>5, SwapsAre
    <2> QED
        BY <2>1, <2>3, <2>4, <1>1, <1>2, <1>4
<1>6. CASE e.tx \notin {w.tx : w \in Swaps}
    <2>1. Refreshed(e) = e
        BY <1>6 DEF Refreshed
    <2>2. ~ \E w \in Swaps : w.tx = e.tx
        BY <1>6
    <2> QED
        BY <2>1, <2>2, <1>1, <1>2, <1>4
<1> QED
    BY <1>5, <1>6

(* The rows after a commit: those before, and the inserted ones. *)
LEMMA CommitRows ==
    ASSUME Types, JobOK, EventsOK, Commit
    PROVE  /\ job # NoJob
           /\ \A f \in events' : (\E e \in events : f = Refreshed(e)) \/ f \in Inserted
           /\ \A e \in events : Refreshed(e) \in events'
           /\ Inserted \subseteq Swaps /\ Inserted \subseteq events'
           /\ \A w \in Inserted, e \in events : e.tx # w.tx
           /\ Watches => \A x \in Captured \ {Launch} : \E f \in events' :
                             f.tx = x /\ f.seen = job.to
<1>1. job # NoJob /\ events' = {Refreshed(e) : e \in events} \cup Inserted
    BY DEF Commit
<1>2. \A f \in events' : (\E e \in events : f = Refreshed(e)) \/ f \in Inserted
    BY <1>1
<1>3. (\A e \in events : Refreshed(e) \in events') /\ Inserted \subseteq events'
    BY <1>1
<1>4. Inserted \subseteq Swaps /\ \A w \in Inserted, e \in events : e.tx # w.tx
    BY DEF Inserted, Stored
<1>5. ASSUME Watches, NEW x \in Captured \ {Launch}
      PROVE  \E f \in events' : f.tx = x /\ f.seen = job.to
    <2>1. PICK w \in Swaps : w.tx = x /\ w.seen = job.to
        BY <1>1, <1>5, SwapsAre
    <2>2. CASE Stored(w)
        <3>1. PICK e \in events : e.tx = w.tx
            BY <2>2 DEF Stored
        <3>2. Refreshed(e).tx = x /\ Refreshed(e).seen = job.to
            BY <3>1, <2>1, <1>1, RefreshedIs
        <3> QED
            BY <3>2, <1>3
    <2>3. CASE ~Stored(w)
        BY <2>1, <2>3, <1>3 DEF Inserted
    <2> QED
        BY <2>2, <2>3
<1> QED
    BY <1>1, <1>2, <1>3, <1>4, <1>5

(* The tip after a commit: of the newest inserted trade, or of the launch, *)
(* or as before.                                                           *)
LEMMA CommitTip ==
    ASSUME Types, JobOK, EventsOK, Commit
    PROVE  /\ Inserted # {} =>
                 /\ Newest(Inserted) \in Inserted
                 /\ \A f \in Inserted \ {Newest(Inserted)} : Later(Newest(Inserted), f)
                 /\ tip'.block = Newest(Inserted).block /\ tip'.price = Newest(Inserted).tx
                 /\ tip'.seen = job.to
           /\ Inserted = {} /\ Launch \in Captured =>
                 /\ tip'.block = BlockOf(Launch) /\ tip'.seen = job.to
                 /\ tip'.price = tip.price
           /\ Inserted = {} /\ Launch \notin Captured => tip' = tip
           /\ tip' \in TipType \cup {NoTip}
<1>1. tip' = NewTip /\ job # NoJob
    BY DEF Commit
<1>2. /\ job.to \in Nat /\ job.to <= Len(chain)
      /\ \A x \in Captured : BlockOf(x) \in job.from..job.to
      /\ job.from \in Nat /\ job.from >= 1
    BY <1>1, CapturedIn
<1>3. Len(chain) \in Nat /\ Len(chain) <= MaxHeight /\ MaxHeight \in Nat
    BY BlocksAre, OverlayAssumption DEF Types
<1>4. job.to \in 0..MaxHeight /\ \A x \in Captured : BlockOf(x) \in 1..MaxHeight
    BY <1>2, <1>3
<1>5. CASE Inserted # {}
    <2>1. Inserted \subseteq Event /\ \A e, f \in Inserted : e.tx = f.tx => e = f
        BY <1>1, SwapsAre DEF Inserted
    <2>2. /\ Newest(Inserted) \in Inserted
          /\ \A f \in Inserted \ {Newest(Inserted)} : Later(Newest(Inserted), f)
        BY <1>5, <2>1, NewestOf
    <2>3. tip' = [block |-> Newest(Inserted).block, price |-> Newest(Inserted).tx,
                  seen |-> job.to]
        BY <1>1, <1>5 DEF NewTip
    <2>4. Newest(Inserted).block \in 1..MaxHeight /\ Newest(Inserted).tx \in TradeTxs
        BY <2>1, <2>2 DEF Event
    <2>5. tip' \in TipType
        BY <2>3, <2>4, <1>4 DEF TipType
    <2> QED
        BY <1>5, <2>2, <2>3, <2>5
<1>6. CASE Inserted = {} /\ Launch \in Captured
    <2>1. tip' = [tip EXCEPT !.block = BlockOf(Launch), !.seen = job.to]
        BY <1>1, <1>6 DEF NewTip, TipOfLaunch
    <2>2. \A t \in TipType \cup {NoTip} :
              /\ DOMAIN t = {"block", "price", "seen"}
              /\ t = [block |-> t.block, price |-> t.price, seen |-> t.seen]
              /\ t.price \in {NoPrice} \cup TradeTxs
        BY DEF TipType, NoTip
    <2>3. tip \in TipType \cup {NoTip}
        BY DEF Types
    <2>4. tip' = [block |-> BlockOf(Launch), price |-> tip.price, seen |-> job.to]
        BY <2>1, <2>2, <2>3
    <2>5. tip' \in TipType
        BY <2>2, <2>3, <2>4, <1>4, <1>6 DEF TipType
    <2> QED
        BY <1>6, <2>4, <2>5
<1>7. CASE Inserted = {} /\ Launch \notin Captured
    BY <1>1, <1>7 DEF NewTip, TipOfLaunch, Types
<1> QED
    BY <1>5, <1>6, <1>7

(* What a commit passes over without storing it. *)
LEMMA PassedOverIs ==
    ASSUME Types, JobOK, job # NoJob
    PROVE  /\ PassedOver \subseteq Txs
           /\ \A i \in 1..job.from - 1 : i > checkpoint => chain[i] \subseteq PassedOver
           /\ ~Watches => Captured \subseteq PassedOver
<1>1. /\ job.from \in Nat /\ job.from >= 1 /\ job.from > checkpoint
      /\ Captured \subseteq Txs
    BY CapturedIn
<1>2. chain \in Blocks /\ Len(chain) \in Nat /\ checkpoint \in Int
    BY BlocksAre DEF Types, NoCheckpoint
<1>3. job.from - 1 <= Len(chain)
    <2>1. job.to \in Nat /\ job.to >= job.from - 1 /\ job.to <= Len(chain)
        BY CapturedIn DEF JobOK
    <2> QED
        BY <2>1, <1>1, <1>2
<1> DEFINE m == Max({checkpoint + 1, 1})
<1>4. m = IF checkpoint + 1 >= 1 THEN checkpoint + 1 ELSE 1
    BY <1>2, MaxOfTwo
<1>5. PassedOver = Mined(SubSeq(chain, m, job.from - 1))
                      \cup IF Watches THEN {} ELSE Captured
    BY DEF PassedOver
<1> HIDE DEF m
<1>6. m \in Nat \ {0} /\ job.from - 1 \in Int /\ m - 1 <= job.from - 1
    BY <1>1, <1>2, <1>4
<1>7. \A x : x \in Mined(SubSeq(chain, m, job.from - 1))
                <=> \E i \in m..job.from - 1 : x \in chain[i]
    BY <1>2, <1>3, <1>6, WindowOf
<1>8. \A i \in m..job.from - 1 : chain[i] \subseteq Txs
    <2>1. \A i \in m..job.from - 1 : i \in 1..Len(chain)
        BY <1>1, <1>2, <1>3, <1>6
    <2> QED
        BY <2>1, <1>2, BlocksAre
<1>9. \A i \in 1..job.from - 1 : i > checkpoint => i \in m..job.from - 1
    BY <1>1, <1>2, <1>4
<1>10. Mined(SubSeq(chain, m, job.from - 1)) \subseteq PassedOver
    BY <1>5
<1>11. ~Watches => Captured \subseteq PassedOver
    BY <1>5
<1>12. PassedOver \subseteq Mined(SubSeq(chain, m, job.from - 1)) \cup Captured
    BY <1>5
<1> QED
    BY <1>1, <1>7, <1>8, <1>9, <1>10, <1>11, <1>12

-----------------------------------------------------------------------------
(* The invariant holds at first. *)

(* Nothing is mined, indexed, read or stored.                              *)
LEMMA InitInv ==
    ASSUME Init
    PROVE  Inv
<1>1. /\ chain = <<>> /\ canon = <<>> /\ anchors = {} /\ listed = FALSE
      /\ checkpoint = -1 /\ watching = FALSE /\ job = NoJob
      /\ events = {} /\ tip = NoTip /\ lapsed = -1 /\ missed = {} /\ moved = {}
    BY DEF Init, NoCheckpoint
<1>2. <<>> \in Blocks /\ Len(<<>>) = 0
    BY EmptySeq DEF Blocks
<1>3. Valid(chain)
    BY <1>1, <1>2, ValidBlocks
<1>4. /\ job.from = 0 /\ job.to = -1 /\ job.blocks = <<>> /\ job \in JobType
    BY <1>1, <1>2 DEF NoJob, JobType
<1>5. Types
    <2>1. chain \in Blocks /\ Len(chain) = 0 /\ canon \in Blocks
        BY <1>1, <1>2
    <2>2. MaxHeight \in Nat /\ -1 \in -1..0
        BY OverlayAssumption
    <2>3. Len(chain) <= MaxHeight /\ checkpoint \in -1..Len(chain) /\ lapsed \in -1..checkpoint
        BY <1>1, <2>1, <2>2
    <2> QED
        BY <1>1, <1>3, <1>4, <2>1, <2>3 DEF Types, NoCheckpoint
<1>6. \A x : x \notin Mined(canon) /\ x \notin Mined(chain)
    BY <1>1, <1>2, MinedIn
<1>7. CanonOK
    BY <1>1, <1>2, <1>6 DEF CanonOK
<1>8. JobOK /\ EventsOK /\ RowsKept /\ TipOK /\ LaunchShown
    BY <1>1 DEF JobOK, EventsOK, RowsKept, TipOK, LaunchShown, NoTip, NoCheckpoint
<1> QED
    BY <1>5, <1>7, <1>8 DEF Inv

-----------------------------------------------------------------------------
(* Types. *)

(* Every step keeps the types; the key of the rows, because a commit       *)
(* inserts only trades that have no row.                                   *)
LEMMA TypesKept ==
    ASSUME Inv, [Next]_vars
    PROVE  Types'
<1> USE DEF Inv
<1> DEFINE ChainT == chain \in Blocks /\ Valid(chain) /\ Len(chain) <= MaxHeight
           CanonT == /\ canon \in Blocks /\ anchors \subseteq DOMAIN canon
                     /\ listed \in BOOLEAN
           ObserverT == /\ watching \in BOOLEAN /\ job \in JobType
                        /\ checkpoint \in NoCheckpoint..Len(chain)
           RowsT == /\ events \subseteq Event
                    /\ \A e, f \in events : e.tx = f.tx => e = f
                    /\ tip \in TipType \cup {NoTip}
                    /\ lapsed \in NoCheckpoint..checkpoint
                    /\ missed \subseteq Txs
<1>1. ChainT /\ CanonT /\ ObserverT /\ RowsT /\ moved \subseteq Txs
    BY DEF Types
<1>2. (ChainT /\ CanonT /\ ObserverT /\ RowsT /\ moved \subseteq Txs)' => Types'
    BY DEF Types
<1>3. Len(chain) \in Nat /\ MaxHeight \in Nat /\ checkpoint \in Int /\ checkpoint >= -1
    BY BlocksAre, OverlayAssumption DEF Types, NoCheckpoint
<1>4. NoJob \in JobType
    BY EmptySeq DEF NoJob, JobType, Blocks
<1>5. Watches \in BOOLEAN
    BY DEF Watches, Types
<1>6. CASE Mine \/ Reorg
    <2>1. chain' \in Blocks /\ Valid(chain') /\ Len(chain') >= Len(chain)
        BY <1>6, ChainExtends DEF Extends
    <2>2. Len(chain') \in Nat /\ Len(chain') <= MaxHeight
        <3>1. CASE Mine
            BY <3>1, <1>3, MineAdds DEF Mine
        <3>2. CASE Reorg
            BY <3>2, <1>3, ReorgReplaces DEF Types
        <3> QED
            BY <1>6, <3>1, <3>2
    <2>3. moved' \subseteq Txs
        <3>1. CASE Mine
            BY <3>1 DEF Mine, hist, Types
        <3>2. CASE Reorg
            BY <3>2, ReorgReplaces
        <3> QED
            BY <1>6, <3>1, <3>2
    <2>4. UNCHANGED <<indexer, observer, rows>>
        BY <1>6 DEF Mine, Reorg
    <2>5. checkpoint' \in NoCheckpoint..Len(chain')
        BY <1>1, <1>3, <2>1, <2>2, <2>4 DEF observer, NoCheckpoint
    <2>6. ChainT' /\ CanonT' /\ ObserverT' /\ RowsT'
        BY <1>1, <2>1, <2>2, <2>4, <2>5 DEF indexer, observer, rows
    <2> QED
        BY <2>3, <2>6, <1>2
<1>7. CASE Index \/ Rollback
    <2>1. CanonT'
        <3>1. CASE Index
            <4>1. /\ canon' \in Blocks /\ Len(canon') \in Len(canon)..Len(chain)
                  /\ \A i \in anchors' : i \in anchors \/ i \in Len(canon) + 1..Len(canon')
                  /\ listed' \in BOOLEAN
                BY <3>1, <1>1, IndexTakes
            <4>2. /\ DOMAIN canon = 1..Len(canon) /\ Len(canon) \in Nat
                  /\ DOMAIN canon' = 1..Len(canon') /\ Len(canon') \in Nat
                BY <4>1, <1>1, BlocksAre
            <4>3. \A i \in anchors : i \in 1..Len(canon)
                BY <4>2, <1>1
            <4>4. Len(canon') >= Len(canon)
                BY <4>1, <4>2, <1>3
            <4>5. anchors' \subseteq 1..Len(canon')
                BY <4>1, <4>2, <4>3, <4>4
            <4> QED
                BY <4>1, <4>2, <4>5
        <3>2. CASE Rollback
            <4>1. /\ canon' \in Blocks /\ anchors' \subseteq 1..Len(canon')
                BY <3>2, RollbackAgrees
            <4>2. DOMAIN canon' = 1..Len(canon') /\ listed' = listed
                BY <4>1, <3>2, BlocksAre DEF Rollback
            <4> QED
                BY <4>1, <4>2, <1>1
        <3> QED
            BY <1>7, <3>1, <3>2
    <2>2. UNCHANGED <<chain, observer, rows, hist>>
        BY <1>7 DEF Index, Rollback
    <2> QED
        BY <2>1, <2>2, <1>1, <1>2 DEF observer, rows, hist
<1>8. CASE Scan
    <2>1. job' \in JobType
        BY <1>8, ScanReads
    <2>2. UNCHANGED <<chain, indexer, checkpoint, watching, rows, hist>>
        BY <1>8 DEF Scan
    <2> QED
        BY <2>1, <2>2, <1>1, <1>2 DEF indexer, rows, hist
<1>9. CASE Commit
    <2>1. /\ job # NoJob /\ job' = NoJob /\ watching' = Watches /\ checkpoint' = job.to
          /\ missed' = missed \cup PassedOver
          /\ UNCHANGED <<chain, indexer, lapsed, hist>>
        BY <1>9 DEF Commit
    <2>2. /\ job.to \in Nat /\ job.to > checkpoint /\ job.to <= Len(chain)
        BY <2>1, CapturedIn
    <2>3. checkpoint' \in NoCheckpoint..Len(chain')
        BY <2>1, <2>2, <1>3 DEF NoCheckpoint
    <2>4. lapsed' \in NoCheckpoint..checkpoint'
        BY <2>1, <2>2, <1>1, <1>3 DEF NoCheckpoint
    <2>5. missed' \subseteq Txs
        BY <2>1, <1>1, PassedOverIs
    <2>6. tip' \in TipType \cup {NoTip}
        BY <1>9, CommitTip
    <2>7. /\ \A f \in events' : (\E e \in events : f = Refreshed(e)) \/ f \in Inserted
          /\ Inserted \subseteq Swaps
          /\ \A w \in Inserted, e \in events : e.tx # w.tx
        BY <1>9, CommitRows
    <2>8. \A e \in events : Refreshed(e) \in Event /\ Refreshed(e).tx = e.tx
        BY <2>1, RefreshedIs
    <2>9. Swaps \subseteq Event /\ \A v, w \in Swaps : v.tx = w.tx => v = w
        BY <2>1, SwapsAre
    <2>10. events' \subseteq Event
        BY <2>7, <2>8, <2>9
    <2>11. \A e, f \in events' : e.tx = f.tx => e = f
        BY <2>7, <2>8, <2>9, <1>1
    <2>12. ChainT' /\ CanonT' /\ moved' \subseteq Txs
        BY <2>1, <1>1 DEF indexer, hist
    <2>13. ObserverT'
        BY <2>1, <2>3, <1>4, <1>5
    <2>14. RowsT'
        BY <2>4, <2>5, <2>6, <2>10, <2>11
    <2> QED
        BY <2>12, <2>13, <2>14, <1>2
<1>10. CASE Fail \/ Restart
    <2>1. /\ watching' \in {listed, Watches} /\ job' = NoJob
          /\ UNCHANGED <<chain, indexer, checkpoint, rows, hist>>
        BY <1>10 DEF Fail, Restart
    <2>2. watching' \in BOOLEAN
        BY <2>1, <1>1, <1>5
    <2> QED
        BY <2>1, <2>2, <1>1, <1>2, <1>4 DEF indexer, rows, hist
<1>11. CASE Lapse
    <2>1. /\ lapsed' \in lapsed + 1..checkpoint
          /\ missed' = missed \cup {e.tx : e \in {f \in events : f.seen <= lapsed'}}
                              \cup IF tip.seen <= lapsed' THEN {Launch} ELSE {}
          /\ UNCHANGED <<chain, indexer, observer, events, tip, hist>>
        BY <1>11 DEF Lapse
    <2>2. lapsed' \in NoCheckpoint..checkpoint'
        BY <2>1, <1>1, <1>3 DEF observer, NoCheckpoint
    <2>3. missed' \subseteq Txs
        <3>1. \A e \in events : e.tx \in Txs
            BY <1>1 DEF Event, Txs
        <3>2. Launch \in Txs
            BY DEF Txs
        <3> QED
            BY <3>1, <3>2, <2>1, <1>1
    <2> QED
        BY <2>1, <2>2, <2>3, <1>1, <1>2 DEF indexer, observer, hist
<1>12. CASE Expire \/ DeleteConfirmed
    <2>1. /\ events' \subseteq events /\ tip' \in {tip, NoTip}
          /\ UNCHANGED <<chain, indexer, observer, lapsed, missed, hist>>
        BY <1>12 DEF Expire, DeleteConfirmed
    <2>2. RowsT'
        BY <2>1, <1>1 DEF observer
    <2> QED
        BY <2>1, <2>2, <1>1, <1>2 DEF indexer, observer, hist
<1>13. CASE UNCHANGED vars
    BY <1>13, <1>1, <1>2 DEF vars
<1> QED
    BY <1>6, <1>7, <1>8, <1>9, <1>10, <1>11, <1>12, <1>13 DEF Next

-----------------------------------------------------------------------------
(* The indexer. *)

(* A reorganisation moves what the indexer has beyond it; a batch and a    *)
(* rollback leave it in agreement with the chain.                          *)
LEMMA CanonKept ==
    ASSUME Inv, [Next]_vars
    PROVE  CanonOK'
<1>1. Types /\ Types' /\ CanonOK
    BY TypesKept DEF Inv
<1>2. /\ chain \in Blocks /\ canon \in Blocks /\ chain' \in Blocks /\ canon' \in Blocks
      /\ Len(chain) \in Nat /\ Len(canon) \in Nat /\ Len(chain') \in Nat /\ Len(canon') \in Nat
    BY <1>1, BlocksAre DEF Types
<1>3. /\ Len(canon) <= Len(chain)
      /\ \A i \in 1..Len(canon), x \in Settled : x \in canon[i] <=> x \in chain[i]
      /\ \A k \in anchors, i \in 1..Len(canon) :
            k <= i /\ canon[k] # chain[k] => canon[i] \subseteq moved
      /\ anchors \subseteq 1..Len(canon)
      /\ Launch \in Mined(canon) => listed
    BY <1>1, BlocksAre DEF CanonOK, Differs, Types
<1>4. CASE Mine \/ Reorg
    <2>1. /\ Extends
          /\ \A k, i \in 1..Len(chain) :
                k <= i /\ chain'[k] # chain[k] => chain[i] \subseteq moved'
        BY <1>1, <1>4, ChainExtends
    <2>2. canon' = canon /\ anchors' = anchors /\ listed' = listed
        BY <1>4 DEF Mine, Reorg, indexer
    <2>3. \A i \in 1..Len(canon) : i \in 1..Len(chain)
        BY <1>2, <1>3
    <2>4. Len(canon') <= Len(chain')
        BY <1>2, <1>3, <2>1, <2>2 DEF Extends
    <2>5. ASSUME NEW i \in 1..Len(canon), NEW x \in Txs \ moved'
          PROVE  x \in canon[i] <=> x \in chain'[i]
        <3>1. x \in Settled
            BY <2>1, <2>5 DEF Extends, Settled
        <3>2. x \in chain'[i] <=> x \in chain[i]
            BY <2>1, <2>3, <1>2 DEF Extends, WasRead, MainCheckpoint
        <3> QED
            BY <3>1, <3>2, <1>3
    <2>6. ASSUME NEW k \in anchors, NEW i \in 1..Len(canon),
                 k <= i, canon[k] # chain'[k], NEW x \in canon[i]
          PROVE  x \in moved'
        <3>1. CASE canon[k] # chain[k]
            BY <2>6, <3>1, <1>3, <2>1 DEF Extends
        <3>2. CASE chain'[k] # chain[k]
            <4>1. chain[i] \subseteq moved'
                BY <2>6, <3>2, <2>1, <2>3, <1>3
            <4>2. x \in Txs
                BY <1>2, <2>6, BlocksAre
            <4>3. x \in moved \/ x \in chain[i]
                BY <4>2, <1>3 DEF Settled
            <4> QED
                BY <4>1, <4>3, <2>1 DEF Extends
        <3> QED
            BY <2>6, <3>1, <3>2
    <2> QED
        BY <1>3, <2>2, <2>4, <2>5, <2>6 DEF CanonOK, Settled, Differs
<1>5. CASE Index
    <2>1. /\ Len(canon') \in Len(canon)..Len(chain)
          /\ \A i \in 1..Len(canon) : canon'[i] = canon[i]
          /\ \A i \in Len(canon) + 1..Len(canon') : canon'[i] = chain[i]
          /\ \A i \in anchors : canon[i] = chain[i]
          /\ \A i \in anchors' : i \in anchors \/ i \in Len(canon) + 1..Len(canon')
          /\ listed' = (listed \/ Launch \in Mined(canon'))
        BY <1>1, <1>5, IndexTakes DEF Differs
    <2>2. chain' = chain /\ moved' = moved
        BY <1>5 DEF Index, hist
    <2>3. Len(canon') <= Len(chain') /\ (Launch \in Mined(canon') => listed')
        <3>1. Len(canon') <= Len(chain')
            BY <2>1, <2>2, <1>2
        <3>2. Launch \in Mined(canon') => listed'
            BY <2>1, Zenon
        <3> QED
            BY <3>1, <3>2
    <2>4. \A i \in 1..Len(canon') : i \in 1..Len(canon) \/ i \in Len(canon) + 1..Len(canon')
        BY <1>2
    <2>5. \A i \in 1..Len(canon'), x \in Settled : x \in canon'[i] <=> x \in chain[i]
        BY <2>1, <2>4, <1>3
    <2>6. \A k \in anchors' : canon'[k] = chain'[k]
        BY <2>1, <2>2, <1>3
    <2> QED
        BY <2>2, <2>3, <2>5, <2>6 DEF CanonOK, Settled, Differs
<1>6. CASE Rollback
    <2>1. /\ Len(canon') <= Len(canon) /\ anchors' \subseteq anchors
          /\ anchors' \subseteq 1..Len(canon')
          /\ \A i \in 1..Len(canon') : canon'[i] = canon[i]
        BY <1>1, <1>6, RollbackAgrees
    <2>2. chain' = chain /\ moved' = moved /\ listed' = listed
        BY <1>6 DEF Rollback, hist
    <2>3. \A i \in 1..Len(canon') : i \in 1..Len(canon)
        BY <1>2, <2>1
    <2>4. Launch \in Mined(canon') => Launch \in Mined(canon)
        BY <2>1, <2>3, <1>2, MinedIn
    <2>5. Len(canon') <= Len(chain')
        BY <1>2, <1>3, <2>1, <2>2
    <2>6. \A i \in 1..Len(canon'), x \in Settled : x \in canon'[i] <=> x \in chain'[i]
        BY <1>3, <2>1, <2>2, <2>3
    <2>7. ASSUME NEW k \in anchors', NEW i \in 1..Len(canon'), k <= i, canon'[k] # chain'[k]
          PROVE  canon'[i] \subseteq moved
        <3>1. k \in anchors /\ canon[k] # chain[k] /\ canon'[i] = canon[i]
            BY <2>1, <2>2, <2>7
        <3> QED
            BY <3>1, <2>3, <2>7, <1>3
    <2> QED
        BY <2>2, <2>4, <2>5, <2>6, <2>7, <1>3 DEF CanonOK, Settled, Differs
<1>7. CASE UNCHANGED <<chain, canon, anchors, listed, moved>>
    BY <1>1, <1>7 DEF CanonOK, Settled, Mined, Range, Differs
<1> QED
    BY <1>4, <1>5, <1>6, <1>7
       DEF Next, Scan, Commit, Fail, Restart, Lapse, Expire, DeleteConfirmed, vars,
           indexer, hist

(* What has not moved, the indexer keeps when it rolls back. *)
LEMMA RollbackKeeps ==
    ASSUME Inv, Rollback, NEW x \in Settled, NEW i \in 1..Len(canon), x \in canon[i]
    PROVE  i \in 1..Len(canon')
<1>1. Types /\ CanonOK
    BY DEF Inv
<1>2. /\ canon \in Blocks /\ Len(canon) \in Nat /\ Len(chain) \in Nat
    BY <1>1, BlocksAre DEF Types
<1>3. PICK first \in anchors : Differs(first) /\ Len(canon') = first - 1
    BY <1>1, RollbackAgrees
<1>4. first \in 1..Len(canon)
    BY <1>1, <1>2, BlocksAre DEF Types
<1>5. ~(first <= i)
    BY <1>1, <1>3 DEF CanonOK, Settled
<1> QED
    BY <1>2, <1>3, <1>4, <1>5

-----------------------------------------------------------------------------
(* The window and the rows. *)

(* A window keeps telling the truth about the settled transactions while   *)
(* the chain moves on under it.                                            *)
LEMMA JobKept ==
    ASSUME Inv, [Next]_vars
    PROVE  JobOK'
<1>1. Types /\ Types' /\ JobOK
    BY TypesKept DEF Inv
<1>2. /\ chain \in Blocks /\ chain' \in Blocks /\ Len(chain) \in Nat /\ Len(chain') \in Nat
      /\ job \in JobType /\ job' \in JobType /\ checkpoint \in Int
    BY <1>1, BlocksAre DEF Types, NoCheckpoint
<1>3. CASE Mine \/ Reorg
    <2>1. Extends /\ job' = job /\ checkpoint' = checkpoint
        BY <1>1, <1>3, ChainExtends DEF Mine, Reorg, observer
    <2> SUFFICES ASSUME job # NoJob
                 PROVE  JobOK'
        BY <2>1 DEF JobOK
    <2>2. /\ job.from \in Nat /\ job.to \in Int /\ job.blocks \in Blocks
          /\ DOMAIN job.blocks = 1..Len(job.blocks)
        BY <1>2, BlocksAre DEF JobType
    <2>3. /\ job.from > checkpoint /\ job.from >= 1
          /\ job.to > checkpoint /\ job.to >= job.from - 1 /\ job.to <= Len(chain)
          /\ Len(job.blocks) = job.to - job.from + 1
          /\ \A i \in DOMAIN job.blocks, x \in Settled :
                x \in job.blocks[i] <=> x \in chain[job.from - 1 + i]
          /\ \A i, j \in DOMAIN job.blocks :
                Launch \in job.blocks[i] /\ job.blocks[j] # {} => i <= j
        BY <1>1 DEF JobOK
    <2>4. job.to <= Len(chain')
        BY <1>2, <2>1, <2>2, <2>3 DEF Extends
    <2>5. ASSUME NEW i \in DOMAIN job.blocks, NEW x \in Txs \ moved'
          PROVE  x \in job.blocks[i] <=> x \in chain'[job.from - 1 + i]
        <3>1. x \in Settled
            BY <2>1 DEF Extends, Settled
        <3>2. job.from - 1 + i \in 1..Len(chain) /\ job.from - 1 + i <= job.to
            BY SMTT(30), <1>2, <2>2, <2>3
        <3> QED
            BY <3>1, <3>2, <2>1, <2>3 DEF Extends, WasRead
    <2> QED
        BY <2>1, <2>3, <2>4, <2>5 DEF JobOK, Settled
<1>4. CASE Scan
    <2>1. /\ job'.from > checkpoint /\ job'.from >= 1
          /\ job'.to > checkpoint /\ job'.to >= job'.from - 1 /\ job'.to <= Len(chain)
          /\ Len(job'.blocks) = job'.to - job'.from + 1
          /\ \A i \in 1..Len(job'.blocks) : job'.blocks[i] = chain[job'.from - 1 + i]
        BY <1>1, <1>4, ScanReads
    <2>2. chain' = chain /\ checkpoint' = checkpoint
        BY <1>4 DEF Scan
    <2>3. DOMAIN job'.blocks = 1..Len(job'.blocks)
        BY <1>2, BlocksAre DEF JobType
    <2>4. ASSUME NEW i \in 1..Len(job'.blocks), NEW j \in 1..Len(job'.blocks),
                 Launch \in job'.blocks[i], job'.blocks[j] # {}
          PROVE  i <= j
        <3> DEFINE a == job'.from - 1 + i
                   b == job'.from - 1 + j
        <3>1. job'.from \in Nat /\ job'.to \in Int
            BY <1>2 DEF JobType
        <3>2. a \in 1..Len(chain) /\ b \in 1..Len(chain) /\ (a <= b => i <= j)
            BY SMTT(30), <2>1, <3>1, <1>2
        <3>3. Launch \in chain[a] /\ chain[b] # {}
            BY <2>1, <2>4
        <3> HIDE DEF a, b
        <3>4. PICK l \in 1..b : Launch \in chain[l]
            BY <3>2, <3>3, <1>1, <1>2, ValidBlocks DEF Types
        <3>5. l \in 1..Len(chain)
            BY <3>2, <1>2
        <3>6. l = a
            BY <3>2, <3>3, <3>4, <3>5, <1>1, <1>2, ValidBlocks DEF Types
        <3> QED
            BY <3>2, <3>4, <3>6
    <2> QED
        BY <2>1, <2>2, <2>3, <2>4 DEF JobOK
<1>5. CASE job' = NoJob
    BY <1>5 DEF JobOK
<1>6. CASE UNCHANGED <<chain, job, checkpoint, moved>>
    BY <1>1, <1>6 DEF JobOK, Settled
<1> QED
    BY <1>3, <1>4, <1>5, <1>6
       DEF Next, Index, Rollback, Commit, Fail, Restart, Lapse, Expire, DeleteConfirmed, vars,
           observer, hist

(* A row is stored with the block its trade was read in, and keeps it when *)
(* it is refreshed.                                                        *)
LEMMA EventsKept ==
    ASSUME Inv, [Next]_vars
    PROVE  EventsOK'
<1>1. Types /\ Types' /\ EventsOK /\ JobOK
    BY TypesKept DEF Inv
<1>2. /\ Len(chain) \in Nat /\ checkpoint \in Int /\ checkpoint >= -1
      /\ checkpoint <= Len(chain) /\ MaxHeight \in Nat
    BY <1>1, BlocksAre, OverlayAssumption DEF Types, NoCheckpoint
<1>3. \A e \in events : e \in Event /\ e.block \in 1..MaxHeight /\ e.tx \in Txs
    BY <1>1 DEF Types, Event, Txs
<1>4. CASE Mine \/ Reorg
    <2>1. Extends /\ events' = events /\ tip' = tip /\ checkpoint' = checkpoint
        BY <1>1, <1>4, ChainExtends DEF Mine, Reorg, rows, observer
    <2>2. ASSUME NEW e \in events, e.tx \notin moved'
          PROVE  e.tx \in chain'[e.block]
        <3>1. e.tx \notin moved /\ e.tx \in Txs \ moved'
            BY <2>1, <2>2, <1>3 DEF Extends
        <3>2. e.tx \in chain[e.block] /\ e.block <= checkpoint
            BY <3>1, <1>1 DEF EventsOK
        <3>3. e.block \in 1..Len(chain)
            BY <3>2, <1>2, <1>3
        <3> QED
            BY <3>1, <3>2, <3>3, <2>1 DEF Extends
    <2> QED
        BY <1>1, <2>1, <2>2 DEF EventsOK
<1>5. CASE Commit
    <2>1. job # NoJob /\ checkpoint' = job.to /\ chain' = chain /\ moved' = moved
        BY <1>5 DEF Commit, hist
    <2>2. /\ job.from \in Nat /\ job.to \in Nat /\ job.to > checkpoint
          /\ \A x \in Captured : /\ BlockOf(x) \in job.from..job.to
                                 /\ x \notin moved => x \in chain[BlockOf(x)]
        BY <1>1, <2>1, CapturedIn
    <2>3. ASSUME NEW e \in events
          PROVE  /\ Refreshed(e).block <= job.to /\ Refreshed(e).seen <= job.to
                 /\ Refreshed(e).tx \notin moved => Refreshed(e).tx \in chain[Refreshed(e).block]
        <3>1. /\ Refreshed(e).tx = e.tx /\ Refreshed(e).block = e.block
              /\ Refreshed(e).seen <= job.to
            BY <1>1, <2>1, RefreshedIs
        <3>2. e.block <= checkpoint /\ (e.tx \notin moved => e.tx \in chain[e.block])
            BY <1>1 DEF EventsOK
        <3>3. e.block <= job.to
            BY <3>2, <2>2, <1>2, <1>3
        <3> QED
            BY <3>1, <3>2, <3>3
    <2>4. ASSUME NEW w \in Swaps
          PROVE  /\ w.block <= job.to /\ w.seen <= job.to
                 /\ w.tx \notin moved => w.tx \in chain[w.block]
        <3>1. w.tx \in Captured /\ w.block = BlockOf(w.tx) /\ w.seen = job.to
            BY <1>1, <2>1, SwapsAre
        <3> QED
            BY <3>1, <2>2
    <2>5. \A f \in events' : (\E e \in events : f = Refreshed(e)) \/ f \in Swaps
        BY <1>1, <1>5, CommitRows
    <2>6. tip'.seen <= job.to
        <3>1. CASE Inserted # {} \/ Launch \in Captured
            BY <3>1, <1>1, <1>5, <2>2, CommitTip
        <3>2. CASE Inserted = {} /\ Launch \notin Captured
            <4>1. tip' = tip /\ tip.seen <= checkpoint
                BY <3>2, <1>1, <1>5, CommitTip DEF EventsOK
            <4>2. tip.seen \in Int
                BY <1>1 DEF Types, TipType, NoTip, NoCheckpoint
            <4> QED
                BY <4>1, <4>2, <2>2, <1>2
        <3> QED
            BY <3>1, <3>2
    <2> QED
        BY <2>1, <2>3, <2>4, <2>5, <2>6 DEF EventsOK
<1>6. CASE UNCHANGED <<chain, moved, checkpoint>> /\ events' \subseteq events /\ tip' \in {tip, NoTip}
    BY <1>1, <1>2, <1>6 DEF EventsOK, NoTip, NoCheckpoint
<1> QED
    BY <1>4, <1>5, <1>6
       DEF Next, Index, Rollback, Scan, Fail, Restart, Lapse, Expire, DeleteConfirmed, vars,
           observer, rows, hist

(* A settled trade the indexer has, it keeps. *)
LEMMA CanonicalStays ==
    ASSUME Inv, Index \/ Rollback, NEW x \in Settled, x \in Canonical
    PROVE  x \in Canonical'
<1>1. Types /\ Types' /\ CanonOK
    BY TypesKept DEF Inv, Next
<1>2. /\ canon \in Blocks /\ canon' \in Blocks
      /\ Len(canon) \in Nat /\ Len(canon') \in Nat /\ Len(chain) \in Nat
    BY <1>1, BlocksAre DEF Types
<1>3. x # Launch /\ x \in Mined(canon)
    BY DEF Canonical
<1>4. PICK i \in 1..Len(canon) : x \in canon[i]
    BY <1>2, <1>3, MinedIn
<1>5. i \in 1..Len(canon') /\ x \in canon'[i]
    <2>1. CASE Index
        <3>1. Len(canon') >= Len(canon) /\ canon'[i] = canon[i]
            BY <1>1, <1>2, <1>4, <2>1, IndexTakes
        <3>2. i \in 1..Len(canon')
            BY <1>2, <1>4, <3>1
        <3> QED
            BY <1>4, <3>1, <3>2
    <2>2. CASE Rollback
        <3>1. i \in 1..Len(canon')
            BY <1>4, <2>2, RollbackKeeps
        <3>2. canon'[i] = canon[i]
            BY <1>1, <2>2, <3>1, RollbackAgrees
        <3> QED
            BY <3>1, <3>2, <1>4
    <2> QED
        BY <2>1, <2>2
<1>6. x \in Mined(canon')
    BY <1>2, <1>5, MinedIn
<1> QED
    BY <1>3, <1>6 DEF Canonical

(* A commit stores, or counts as missed, all that it moves the checkpoint  *)
(* over; what leaves the rows is canonical or has lapsed.                  *)
LEMMA RowsStay ==
    ASSUME Inv, [Next]_vars
    PROVE  RowsKept'
<1>1. Types /\ Types' /\ EventsOK /\ JobOK /\ RowsKept
    BY TypesKept DEF Inv
<1>2. /\ Len(chain) \in Nat /\ checkpoint \in Int /\ checkpoint >= -1
      /\ checkpoint <= Len(chain) /\ lapsed \in Int /\ lapsed <= checkpoint
      /\ MaxHeight \in Nat
    BY <1>1, BlocksAre, OverlayAssumption DEF Types, NoCheckpoint
<1>3. \A e \in events : e.seen \in Nat
    BY <1>1, <1>2 DEF Types, Event
<1>4. CASE Mine \/ Reorg
    <2>1. /\ Extends /\ checkpoint' = checkpoint
          /\ UNCHANGED <<missed, canon, events, lapsed>>
        BY <1>1, <1>4, ChainExtends DEF Mine, Reorg, rows, observer, indexer
    <2>2. Canonical' = Canonical /\ \A x : Shown(x)' <=> Shown(x)
        BY <2>1 DEF Canonical, Shown, Fresh, Mined, Range
    <2>3. ASSUME NEW i \in 1..checkpoint, NEW x \in chain'[i], x \in Txs \ moved', x # Launch
          PROVE  x \in missed \/ x \in Canonical \/ Shown(x)
        <3>1. i \in 1..Len(chain) /\ WasRead(i)
            BY <1>2 DEF WasRead
        <3>2. x \in chain[i] /\ x \in Settled
            BY <3>1, <2>1, <2>3 DEF Extends, Settled
        <3> QED
            BY <3>2, <2>3, <1>1 DEF RowsKept
    <2> QED
        BY <2>1, <2>2, <2>3 DEF RowsKept, Settled
<1>5. CASE Index \/ Rollback
    <2>1. UNCHANGED <<chain, moved, checkpoint, missed, events, lapsed>>
        BY <1>5 DEF Index, Rollback, observer, rows, hist
    <2>2. \A x : Shown(x)' <=> Shown(x)
        BY <2>1 DEF Shown, Fresh
    <2>3. \A x \in Settled : x \in Canonical => x \in Canonical'
        BY <1>5, CanonicalStays
    <2> QED
        BY <2>1, <2>2, <2>3, <1>1 DEF RowsKept, Settled
<1>6. CASE Commit
    <2>1. /\ job # NoJob /\ checkpoint' = job.to
          /\ missed' = missed \cup PassedOver
          /\ UNCHANGED <<chain, canon, lapsed, moved>>
        BY <1>6 DEF Commit, hist, indexer
    <2>2. /\ job.from \in Nat /\ job.from > checkpoint
          /\ job.to \in Nat /\ job.to > checkpoint /\ job.to <= Len(chain)
          /\ \A i \in job.from..job.to : chain[i] \cap Settled \subseteq Captured
        BY <1>1, <2>1, CapturedIn
    <2>3. Canonical' = Canonical
        BY <2>1 DEF Canonical, Mined, Range
    <2>4. ASSUME NEW f \in events', f.seen = job.to
          PROVE  Shown(f.tx)'
        <3>1. job.to > lapsed'
            BY <2>1, <2>2, <1>2
        <3> QED
            BY <3>1, <2>4 DEF Shown, Fresh
    <2>5. ASSUME NEW x, Shown(x)
          PROVE  Shown(x)'
        <3>1. PICK e \in events : e.tx = x /\ Fresh(e)
            BY <2>5 DEF Shown
        <3>2. /\ Refreshed(e) \in events' /\ Refreshed(e).tx = x
              /\ Refreshed(e).seen >= e.seen /\ Refreshed(e) \in Event
            BY <1>1, <1>6, <2>1, <3>1, CommitRows, RefreshedIs
        <3>3. Refreshed(e).seen > lapsed'
            <4>1. e.seen > lapsed /\ e.seen \in Nat /\ Refreshed(e).seen \in Nat
                BY <3>1, <3>2, <1>3, <1>2 DEF Fresh, Event
            <4> QED
                BY <4>1, <3>2, <2>1, <1>2
        <3> QED
            BY <3>2, <3>3 DEF Shown, Fresh
    <2>6. ASSUME NEW i \in 1..job.to, NEW x \in chain[i], x \in Settled, x # Launch
          PROVE  x \in missed' \/ x \in Canonical' \/ Shown(x)'
        <3>1. CASE i <= checkpoint
            <4>1. i \in 1..checkpoint
                BY <3>1, <1>2
            <4>2. x \in missed \/ x \in Canonical \/ Shown(x)
                BY <4>1, <2>6, <1>1 DEF RowsKept
            <4> QED
                BY <4>2, <2>1, <2>3, <2>5
        <3>2. CASE i > checkpoint /\ i < job.from
            <4>1. i \in 1..job.from - 1
                BY <3>2, <2>2
            <4>2. x \in PassedOver
                BY <4>1, <3>2, <2>1, <2>6, <1>1, PassedOverIs
            <4> QED
                BY <4>2, <2>1
        <3>3. CASE i >= job.from
            <4>1. x \in Captured
                BY <3>3, <2>2, <2>6
            <4>2. CASE ~Watches
                BY <4>1, <4>2, <2>1, <1>1, PassedOverIs
            <4>3. CASE Watches
                <5>1. PICK f \in events' : f.tx = x /\ f.seen = job.to
                    BY <4>1, <4>3, <2>6, <1>1, <1>6, CommitRows
                <5> QED
                    BY <5>1, <2>4
            <4> QED
                BY <4>2, <4>3
        <3> QED
            BY <3>1, <3>2, <3>3, <1>2, <2>2
    <2> QED
        BY <2>1, <2>6 DEF RowsKept, Settled
<1>7. CASE Lapse
    <2>1. /\ lapsed' \in lapsed + 1..checkpoint
          /\ missed' = missed \cup {e.tx : e \in {f \in events : f.seen <= lapsed'}}
                              \cup IF tip.seen <= lapsed' THEN {Launch} ELSE {}
          /\ UNCHANGED <<chain, canon, checkpoint, events, moved>>
        BY <1>7 DEF Lapse, indexer, observer, hist
    <2>2. ASSUME NEW x, Shown(x)
          PROVE  x \in missed' \/ Shown(x)'
        <3>1. PICK e \in events : e.tx = x /\ Fresh(e)
            BY <2>2 DEF Shown
        <3>2. CASE e.seen <= lapsed'
            BY <3>1, <3>2, <2>1
        <3>3. CASE ~(e.seen <= lapsed')
            <4>1. e.seen > lapsed'
                BY <3>3, <2>1, <1>2, <1>3
            <4> QED
                BY <4>1, <3>1, <2>1 DEF Shown, Fresh
        <3> QED
            BY <3>2, <3>3
    <2>3. Canonical' = Canonical
        BY <2>1 DEF Canonical, Mined, Range
    <2>4. missed \subseteq missed'
        BY <2>1
    <2> QED
        BY <2>1, <2>2, <2>3, <2>4, <1>1 DEF RowsKept, Settled
<1>8. CASE Expire \/ DeleteConfirmed
    <2>1. UNCHANGED <<chain, canon, checkpoint, lapsed, missed, moved>>
        BY <1>8 DEF Expire, DeleteConfirmed, indexer, observer, hist
    <2>2. Canonical' = Canonical
        BY <2>1 DEF Canonical, Mined, Range
    <2>3. ASSUME NEW x, Shown(x)
          PROVE  x \in Canonical \/ Shown(x)'
        <3>1. PICK e \in events : e.tx = x /\ Fresh(e)
            BY <2>3 DEF Shown
        <3>2. CASE Expire
            BY <3>1, <3>2, <2>1 DEF Expire, Shown, Fresh
        <3>3. CASE DeleteConfirmed
            BY <3>1, <3>3, <2>1 DEF DeleteConfirmed, Shown, Fresh
        <3> QED
            BY <1>8, <3>2, <3>3
    <2> QED
        BY <2>1, <2>2, <2>3, <1>1 DEF RowsKept, Settled
<1>9. CASE UNCHANGED <<chain, canon, checkpoint, events, lapsed, missed, moved>>
    BY <1>1, <1>9 DEF RowsKept, Settled, Canonical, Mined, Range, Shown, Fresh
<1> QED
    BY <1>4, <1>5, <1>6, <1>7, <1>8, <1>9
       DEF Next, Scan, Fail, Restart, vars, observer, rows, hist, indexer

-----------------------------------------------------------------------------
(* The tip. *)

(* A settled row stands where the chain has its trade. *)
LEMMA RowInChain ==
    ASSUME Inv, NEW e \in events, e.tx \notin moved
    PROVE  /\ e.tx \in Settled /\ e.block \in 1..Len(chain) /\ e.block <= checkpoint
           /\ e.tx \in chain[e.block] /\ e.tx \in Nat /\ e.tx > Launch
<1>1. Types /\ EventsOK
    BY DEF Inv
<1>2. /\ Len(chain) \in Nat /\ checkpoint \in Int /\ checkpoint <= Len(chain)
      /\ MaxHeight \in Nat /\ Trades \in Nat
    BY <1>1, BlocksAre, OverlayAssumption DEF Types, NoCheckpoint
<1>3. e.tx \in 1..Trades /\ e.block \in 1..MaxHeight
    BY <1>1 DEF Types, Event, TradeTxs
<1>4. e.block <= checkpoint /\ e.tx \in chain[e.block]
    BY <1>1 DEF EventsOK
<1> QED
    BY <1>2, <1>3, <1>4 DEF Settled, Txs, TradeTxs, Launch

(* A settled row is never in conflict with a swap of a later window. *)
LEMMA SettledUnrefreshed ==
    ASSUME Inv, Commit, NEW e \in events, e.tx \notin moved
    PROVE  e.tx \notin Captured /\ Refreshed(e) = e
<1>1. Types /\ EventsOK /\ JobOK /\ job # NoJob
    BY DEF Inv, Commit
<1>2. /\ e.block \in 1..Len(chain) /\ e.block <= checkpoint /\ e.tx \in chain[e.block]
    BY RowInChain
<1>3. ASSUME e.tx \in Captured
      PROVE  FALSE
    <2>1. /\ BlockOf(e.tx) \in job.from..job.to /\ e.tx \in chain[BlockOf(e.tx)]
          /\ job.from > checkpoint /\ job.from >= 1 /\ job.to <= Len(chain)
          /\ job.from \in Nat /\ job.to \in Nat
        BY <1>1, <1>3, CapturedIn
    <2>2. Len(chain) \in Nat /\ checkpoint \in Int /\ chain \in Blocks /\ Valid(chain)
        BY <1>1, BlocksAre DEF Types, NoCheckpoint
    <2>3. BlockOf(e.tx) \in 1..Len(chain) /\ BlockOf(e.tx) # e.block
        BY <2>1, <2>2, <1>2
    <2> QED
        BY <1>2, <2>1, <2>2, <2>3, ValidBlocks
<1> QED
    BY <1>1, <1>3, RefreshedIs

(* While the indexer rolls back, no settled row comes back into view. *)
LEMMA BeyondStays ==
    ASSUME Inv, Index \/ Rollback, NEW e \in events, e.tx \notin moved, e.block > Len(canon')
    PROVE  e.block > Len(canon)
<1>1. Types /\ Types' /\ CanonOK
    BY TypesKept DEF Inv, Next
<1>2. Len(canon) \in Nat /\ Len(canon') \in Nat /\ Len(chain) \in Nat
    BY <1>1, BlocksAre DEF Types
<1>3. /\ e.tx \in Settled /\ e.block \in 1..Len(chain) /\ e.tx \in chain[e.block]
    BY RowInChain
<1>4. CASE Index
    <2>1. Len(canon') >= Len(canon)
        BY <1>1, <1>2, <1>4, IndexTakes
    <2> QED
        BY <2>1, <1>2, <1>3
<1>5. CASE Rollback
    <2>1. ASSUME e.block \in 1..Len(canon)
          PROVE  FALSE
        <3>1. e.tx \in canon[e.block]
            BY <1>1, <1>3, <2>1 DEF CanonOK
        <3>2. e.block \in 1..Len(canon')
            BY <1>3, <1>5, <2>1, <3>1, RollbackKeeps
        <3> QED
            BY <3>2, <1>2
    <2> QED
        BY <2>1, <1>2, <1>3
<1> QED
    BY <1>4, <1>5

(* A settled row beyond the indexer is not canonical, nor is a settled row *)
(* behind it.                                                              *)
LEMMA BeyondUnconfirmed ==
    ASSUME Inv, NEW e \in events, e.tx \notin moved, e.block > Len(canon)
    PROVE  e.tx \notin Canonical
<1>1. Types /\ CanonOK
    BY DEF Inv
<1>2. /\ chain \in Blocks /\ canon \in Blocks /\ Valid(chain)
      /\ Len(chain) \in Nat /\ Len(canon) \in Nat /\ Len(canon) <= Len(chain)
    BY <1>1, BlocksAre DEF Types, CanonOK
<1>3. e.tx \in Settled /\ e.block \in 1..Len(chain) /\ e.tx \in chain[e.block]
    BY RowInChain
<1>4. ASSUME e.tx \in Canonical
      PROVE  FALSE
    <2>1. PICK j \in 1..Len(canon) : e.tx \in canon[j]
        BY <1>2, <1>4, MinedIn DEF Canonical
    <2>2. e.tx \in chain[j] /\ j \in 1..Len(chain) /\ j # e.block
        BY <2>1, <1>1, <1>2, <1>3 DEF CanonOK
    <2> QED
        BY <2>2, <1>2, <1>3, ValidBlocks
<1> QED
    BY <1>4

(* A commit: the tip becomes that of the newest inserted trade, which is   *)
(* later than every row before it; a launch changes no price.              *)
LEMMA CommitKeepsTip ==
    ASSUME Inv, Commit
    PROVE  TipOK'
<1>1. Types /\ EventsOK /\ JobOK /\ TipOK /\ job # NoJob
    BY DEF Inv, Commit
<1>2. /\ Len(chain) \in Nat /\ checkpoint \in Int /\ checkpoint >= -1
      /\ MaxHeight \in Nat
    BY <1>1, BlocksAre, OverlayAssumption DEF Types, NoCheckpoint
<1>3. /\ job.from \in Nat /\ job.to \in Nat /\ job.from > checkpoint
      /\ job.to > checkpoint /\ job.to <= Len(chain)
      /\ \A x \in Captured : BlockOf(x) \in job.from..job.to
    BY <1>1, CapturedIn
<1>4. UNCHANGED <<chain, canon, lapsed, moved>>
    BY DEF Commit, indexer, hist
<1>5. /\ \A f \in events' : (\E e \in events : f = Refreshed(e)) \/ f \in Inserted
      /\ \A e \in events : Refreshed(e) \in events'
      /\ Inserted \subseteq Swaps /\ Inserted \subseteq events'
    BY <1>1, CommitRows
<1>6. \A w \in Swaps : /\ w.tx \in Captured \ {Launch} /\ w.block \in job.from..job.to
                       /\ w.seen = job.to /\ w \in Event
    BY <1>1, <1>3, SwapsAre
<1>7. /\ Inserted # {} =>
            /\ Newest(Inserted) \in Inserted
            /\ \A f \in Inserted \ {Newest(Inserted)} : Later(Newest(Inserted), f)
            /\ tip'.block = Newest(Inserted).block /\ tip'.price = Newest(Inserted).tx
            /\ tip'.seen = job.to
      /\ Inserted = {} /\ Launch \in Captured =>
            /\ tip'.block = BlockOf(Launch) /\ tip'.seen = job.to
            /\ tip'.price = tip.price
      /\ Inserted = {} /\ Launch \notin Captured => tip' = tip
    BY <1>1, CommitTip
<1> SUFFICES ASSUME NEW e \in events', Fresh(e)', Beyond(e.block)', e.tx \notin moved
             PROVE  Covers(e)'
    BY <1>4 DEF TipOK
<1>8. CASE e \in Inserted
    <2> DEFINE w == Newest(Inserted)
    <2>1. w \in Inserted /\ w \in events' /\ w \in Swaps /\ e \in Swaps
        BY <1>5, <1>7, <1>8
    <2>2. /\ tip'.block = w.block /\ tip'.price = w.tx /\ tip'.seen = job.to
          /\ e # w => Later(w, e)
        BY <1>7, <1>8
    <2> HIDE DEF w
    <2>3. w.seen = job.to /\ e.seen = job.to /\ w.block \in Nat /\ e.block \in Nat
        BY <2>1, <1>6, <1>2 DEF Event
    <2>4. tip'.block >= e.block
        BY <2>2, <2>3 DEF Later
    <2>5. tip'.seen >= e.seen /\ w.seen >= e.seen
        BY <2>2, <2>3, <1>3
    <2> QED
        BY <2>1, <2>2, <2>4, <2>5 DEF Covers
<1>9. CASE \E d \in events : e = Refreshed(d)
    <2>1. PICK d \in events : e = Refreshed(d)
        BY <1>9
    <2>2. d.tx = e.tx
        BY <1>1, <2>1, RefreshedIs
    <2>3. e = d
        BY <2>1, <2>2, SettledUnrefreshed
    <2>4. e.block \in 1..Len(chain) /\ e.block <= checkpoint
        BY <2>3, RowInChain
    <2>5. e.seen \in Nat /\ e.seen <= checkpoint
        BY <2>3, <1>1, <1>2 DEF Types, Event, EventsOK
    <2>6. CASE Inserted # {}
        <3> DEFINE w == Newest(Inserted)
        <3>1. /\ w \in Swaps /\ w \in events'
              /\ tip'.block = w.block /\ tip'.price = w.tx /\ tip'.seen = job.to
            BY <2>6, <1>5, <1>7
        <3> HIDE DEF w
        <3>2. w.block \in Nat /\ w.block >= job.from /\ w.seen = job.to
            BY <3>1, <1>3, <1>6
        <3>3. w.block > e.block /\ job.to >= e.seen
            BY <3>2, <2>4, <2>5, <1>2, <1>3
        <3>4. tip'.block >= e.block /\ tip'.seen >= e.seen /\ w.seen >= e.seen /\ Later(w, e)
            BY <3>1, <3>2, <3>3, <2>4 DEF Later
        <3> QED
            BY <3>1, <3>4 DEF Covers
    <2>7. CASE Inserted = {}
        <3>1. Covers(e)
            BY <2>3, <1>1, <1>4 DEF TipOK, Fresh, Beyond, MainCheckpoint
        <3>2. tip'.price = tip.price /\ tip'.block >= e.block /\ tip'.seen >= e.seen
            <4>1. CASE Launch \in Captured
                <5>1. BlockOf(Launch) \in Nat /\ BlockOf(Launch) > e.block
                    BY <4>1, <2>4, <1>2, <1>3
                <5>2. job.to >= e.seen
                    BY <2>5, <1>2, <1>3
                <5>3. /\ tip'.block = BlockOf(Launch) /\ tip'.seen = job.to
                      /\ tip'.price = tip.price
                    BY <4>1, <2>7, <1>7
                <5> QED
                    BY <5>1, <5>2, <5>3, <2>4
            <4>2. CASE Launch \notin Captured
                BY <4>2, <2>7, <3>1, <1>7 DEF Covers
            <4> QED
                BY <4>1, <4>2
        <3>3. CASE tip.price \in {e.tx} \cup moved
            BY <3>2, <3>3, <1>4 DEF Covers
        <3>4. CASE tip.price \notin {e.tx} \cup moved
            <4>1. PICK f \in events : f.tx = tip.price /\ Later(f, e) /\ f.seen >= e.seen
                BY <3>1, <3>4 DEF Covers
            <4>2. /\ Refreshed(f).tx = f.tx /\ Refreshed(f).block = f.block
                  /\ Refreshed(f).seen >= f.seen /\ Refreshed(f) \in Event /\ f \in Event
                BY <1>1, RefreshedIs DEF Types
            <4>3. Refreshed(f).seen \in Nat /\ f.seen \in Nat
                BY <4>2, <1>2 DEF Event
            <4>4. Later(Refreshed(f), e)
                BY <4>1, <4>2 DEF Later
            <4>5. Refreshed(f).seen >= e.seen
                BY <4>1, <4>2, <4>3, <2>5
            <4> QED
                BY <4>1, <4>2, <4>4, <4>5, <3>2, <1>5 DEF Covers
        <3> QED
            BY <3>3, <3>4
    <2> QED
        BY <2>6, <2>7
<1> QED
    BY <1>5, <1>8, <1>9

(* Every step keeps the tip covering the settled rows: what expires or is  *)
(* confirmed is not what a row in view needs.                              *)
LEMMA TipKept ==
    ASSUME Inv, [Next]_vars
    PROVE  TipOK'
<1>1. Types /\ Types' /\ TipOK /\ EventsOK
    BY TypesKept DEF Inv
<1>2. /\ lapsed \in Int /\ checkpoint \in Int /\ MaxHeight \in Nat
      /\ Len(canon) \in Nat /\ NoTip.block = -1
      /\ \A e \in events : e.seen \in Nat /\ e.block \in Nat /\ e.block >= 1
    BY <1>1, BlocksAre, OverlayAssumption DEF Types, NoCheckpoint, Event, NoTip
<1>3. CASE Mine \/ Reorg
    <2>1. Extends /\ UNCHANGED <<canon, events, tip, lapsed>>
        BY <1>1, <1>3, ChainExtends DEF Mine, Reorg, indexer, rows
    <2>2. moved \subseteq moved'
        BY <2>1 DEF Extends
    <2>3. ASSUME NEW e \in events, Covers(e)
          PROVE  Covers(e)'
        BY <2>1, <2>2, <2>3 DEF Covers
    <2> QED
        BY <2>1, <2>2, <2>3, <1>1 DEF TipOK, Fresh, Beyond, MainCheckpoint
<1>4. CASE Index \/ Rollback
    <2>1. UNCHANGED <<events, tip, lapsed, moved>>
        BY <1>4 DEF Index, Rollback, rows, hist
    <2>2. ASSUME NEW e \in events, e.block > Len(canon'), e.tx \notin moved
          PROVE  e.block > Len(canon)
        BY <2>2, <1>4, BeyondStays
    <2>3. \A e \in events : Covers(e) => Covers(e)'
        BY <2>1 DEF Covers
    <2> QED
        BY <2>1, <2>2, <2>3, <1>1 DEF TipOK, Fresh, Beyond, MainCheckpoint
<1>5. CASE Commit
    BY <1>5, CommitKeepsTip
<1>6. CASE Lapse
    <2>1. lapsed' \in lapsed + 1..checkpoint /\ UNCHANGED <<canon, events, tip, moved>>
        BY <1>6 DEF Lapse, indexer, hist
    <2>2. \A e \in events : e.seen > lapsed' => e.seen > lapsed
        BY <2>1, <1>2
    <2>3. \A e \in events : Covers(e) => Covers(e)'
        BY <2>1 DEF Covers
    <2> QED
        BY <2>1, <2>2, <2>3, <1>1 DEF TipOK, Fresh, Beyond, MainCheckpoint
<1>7. CASE Expire
    <2>1. /\ events' = {e \in events : Fresh(e)}
          /\ tip' = IF tip # NoTip /\ Fresh(tip) THEN tip ELSE NoTip
          /\ UNCHANGED <<canon, lapsed, moved>>
        BY <1>7 DEF Expire, indexer, hist
    <2> SUFFICES ASSUME NEW e \in events', Fresh(e)', Beyond(e.block)', e.tx \notin moved
                 PROVE  Covers(e)'
        BY <2>1 DEF TipOK
    <2>2. e \in events /\ e.seen > lapsed /\ Covers(e)
        BY <2>1, <1>1 DEF TipOK, Fresh, Beyond, MainCheckpoint
    <2>3. tip' = tip
        <3>1. tip.seen \in Int
            BY <1>1 DEF Types, TipType, NoTip, NoCheckpoint
        <3>2. tip # NoTip /\ tip.seen > lapsed
            BY <3>1, <2>2, <1>2 DEF Covers
        <3> QED
            BY <3>2, <2>1 DEF Fresh
    <2>4. \A f \in events : f.seen >= e.seen => f \in events'
        BY <2>1, <2>2, <1>2 DEF Fresh
    <2> QED
        BY <2>1, <2>2, <2>3, <2>4 DEF Covers
<1>8. CASE DeleteConfirmed
    <2>1. /\ events' = {e \in events : e.tx \notin Canonical}
          /\ UNCHANGED <<canon, tip, lapsed, moved>>
        BY <1>8 DEF DeleteConfirmed, indexer, hist
    <2> SUFFICES ASSUME NEW e \in events', Fresh(e)', Beyond(e.block)', e.tx \notin moved
                 PROVE  Covers(e)'
        BY <2>1 DEF TipOK
    <2>2. e \in events /\ Covers(e) /\ e.block > Len(canon)
        BY <2>1, <1>1 DEF TipOK, Fresh, Beyond, MainCheckpoint
    <2>3. ASSUME NEW f \in events, Later(f, e)
          PROVE  f \in events' \/ f.tx \in moved
        <3>1. f.block > Len(canon)
            BY <2>2, <2>3, <1>2 DEF Later
        <3> QED
            BY <3>1, <2>1, BeyondUnconfirmed
    <2> QED
        BY <2>1, <2>2, <2>3 DEF Covers
<1>9. CASE UNCHANGED <<canon, events, tip, lapsed, moved>>
    BY <1>1, <1>9 DEF TipOK, Covers, Fresh, Beyond, MainCheckpoint
<1> QED
    BY <1>3, <1>4, <1>5, <1>6, <1>7, <1>8, <1>9
       DEF Next, Scan, Fail, Restart, vars, rows, hist, indexer

(* The launch keeps the tip fresh and in its own or a later block. *)
LEMMA CommitKeepsLaunch ==
    ASSUME Inv, Commit
    PROVE  LaunchShown'
<1>1. Types /\ EventsOK /\ JobOK /\ LaunchShown /\ job # NoJob
    BY DEF Inv, Commit
<1>2. /\ chain \in Blocks /\ Valid(chain) /\ Len(chain) \in Nat
      /\ checkpoint \in Int /\ checkpoint >= -1
      /\ lapsed \in Int /\ lapsed <= checkpoint /\ Trades \in Nat /\ MaxHeight \in Nat
    BY <1>1, BlocksAre, OverlayAssumption DEF Types, NoCheckpoint
<1>3. /\ job.from \in Nat /\ job.from >= 1 /\ job.to \in Nat /\ job.from > checkpoint
      /\ job.to > checkpoint /\ job.to <= Len(chain)
      /\ \A x \in Captured : /\ BlockOf(x) \in job.from..job.to
                             /\ x \notin moved => x \in chain[BlockOf(x)]
      /\ \A i \in job.from..job.to : chain[i] \cap Settled \subseteq Captured
    BY <1>1, CapturedIn
<1>4. /\ checkpoint' = job.to /\ missed' = missed \cup PassedOver
      /\ UNCHANGED <<chain, lapsed, moved>>
    BY DEF Commit, hist
<1>5. /\ Inserted # {} =>
            /\ Newest(Inserted) \in Inserted
            /\ tip'.block = Newest(Inserted).block /\ tip'.seen = job.to
      /\ Inserted = {} /\ Launch \in Captured =>
            tip'.block = BlockOf(Launch) /\ tip'.seen = job.to
      /\ Inserted = {} /\ Launch \notin Captured => tip' = tip
    BY <1>1, CommitTip
<1>6. \A w \in Inserted : /\ w.tx \in Captured \ {Launch} /\ w.block = BlockOf(w.tx)
                          /\ w.block \in job.from..job.to /\ w.tx \in Txs
    BY <1>1, <1>3, CommitRows, SwapsAre, CapturedIn
<1>7. NoTip.block = -1 /\ NoTip.seen = -1
    BY DEF NoTip, NoCheckpoint
<1> SUFFICES ASSUME NEW i \in 1..job.to, Launch \in chain[i],
                    Launch \notin missed' \cup moved
             PROVE  tip' # NoTip /\ tip'.seen > lapsed' /\ tip'.block >= i
    BY <1>4 DEF LaunchShown, Fresh
<1>8. Launch \in Settled
    BY DEF Settled, Txs
<1>9. ASSUME NEW b \in Nat, b >= i, tip'.block = b, tip'.seen = job.to
      PROVE  tip' # NoTip /\ tip'.seen > lapsed' /\ tip'.block >= i
    <2>1. tip' # NoTip
        BY <1>7, <1>9, <1>3
    <2>2. job.to > lapsed
        BY <1>2, <1>3
    <2> QED
        BY <2>1, <2>2, <1>9, <1>4
<1>10. CASE i <= checkpoint
    <2>1. i \in 1..checkpoint /\ Launch \notin missed
        BY <1>10, <1>2, <1>4
    <2>2. tip # NoTip /\ Fresh(tip) /\ tip.block >= i
        BY <2>1, <1>1 DEF LaunchShown
    <2>3. CASE Inserted # {}
        <3>1. Newest(Inserted).block \in Nat /\ Newest(Inserted).block >= i
            BY <2>3, <1>2, <1>3, <1>5, <1>6, <1>10
        <3> QED
            BY <2>3, <3>1, <1>5, <1>9
    <2>4. CASE Inserted = {} /\ Launch \in Captured
        <3>1. BlockOf(Launch) \in Nat /\ BlockOf(Launch) >= i
            BY <2>4, <1>2, <1>3, <1>10
        <3> QED
            BY <2>4, <3>1, <1>5, <1>9
    <2>5. CASE Inserted = {} /\ Launch \notin Captured
        BY <2>2, <2>5, <1>4, <1>5 DEF Fresh
    <2> QED
        BY <2>3, <2>4, <2>5
<1>11. CASE i > checkpoint /\ i < job.from
    <2>1. i \in 1..job.from - 1
        BY <1>11, <1>3
    <2>2. Launch \in PassedOver
        BY <2>1, <1>1, <1>11, PassedOverIs
    <2> QED
        BY <2>2, <1>4
<1>12. CASE i >= job.from
    <2>1. Launch \in Captured
        BY <1>3, <1>8, <1>12
    <2>2. CASE Inserted = {}
        <3>1. BlockOf(Launch) = i
            <4>1. BlockOf(Launch) \in 1..Len(chain) /\ i \in 1..Len(chain)
                BY <2>1, <1>2, <1>3
            <4>2. Launch \in chain[BlockOf(Launch)]
                BY <2>1, <1>3
            <4> QED
                BY <4>1, <4>2, <1>2, ValidBlocks
        <3>2. i \in Nat /\ i >= i
            BY <1>3
        <3> QED
            BY <3>1, <3>2, <2>1, <2>2, <1>5, <1>9
    <2>3. CASE Inserted # {}
        <3> DEFINE w == Newest(Inserted)
        <3>1. w \in Inserted
            BY <2>3, <1>5
        <3> HIDE DEF w
        <3>2. w.tx \in Captured /\ w.tx \in Txs /\ w.block = BlockOf(w.tx) /\ w.tx # Launch
            BY <3>1, <1>6
        <3>3. job \in JobType /\ DOMAIN job.blocks = 1..Len(job.blocks)
            BY <1>1, BlocksAre DEF Types, JobType
        <3>4. PICK k \in 1..Len(job.blocks) :
                  w.tx \in job.blocks[k] /\ w.block = job.from - 1 + k
            BY <3>2, <3>3, BlockRead
        <3>5. PICK l \in 1..Len(job.blocks) :
                  Launch \in job.blocks[l] /\ BlockOf(Launch) = job.from - 1 + l
            BY <2>1, <3>3, BlockRead
        <3>6. l <= k
            BY <3>3, <3>4, <3>5, <1>1 DEF JobOK
        <3>7. w.block >= i
            <4>1. BlockOf(Launch) = i
                <5>1. BlockOf(Launch) \in 1..Len(chain) /\ i \in 1..Len(chain)
                    BY <2>1, <1>2, <1>3
                <5>2. Launch \in chain[BlockOf(Launch)]
                    BY <2>1, <1>3
                <5> QED
                    BY <5>1, <5>2, <1>2, ValidBlocks
            <4>2. k \in Int /\ l \in Int
                OBVIOUS
            <4> QED
                BY <4>1, <4>2, <3>4, <3>5, <3>6, <1>3
        <3>8. w.block \in Nat
            BY <3>1, <1>3, <1>6
        <3> QED
            BY <3>7, <3>8, <2>3, <1>5, <1>9 DEF w
    <2> QED
        BY <2>2, <2>3
<1> QED
    BY <1>10, <1>11, <1>12, <1>2, <1>3

(* Every step keeps the launch on the page.                                *)
LEMMA LaunchKept ==
    ASSUME Inv, [Next]_vars
    PROVE  LaunchShown'
<1>1. Types /\ Types' /\ LaunchShown
    BY TypesKept DEF Inv
<1>2. /\ Len(chain) \in Nat /\ checkpoint \in Int /\ checkpoint <= Len(chain)
      /\ lapsed \in Int /\ MaxHeight \in Nat
    BY <1>1, BlocksAre, OverlayAssumption DEF Types, NoCheckpoint
<1>3. CASE Mine \/ Reorg
    <2>1. Extends /\ UNCHANGED <<checkpoint, tip, lapsed, missed>>
        BY <1>1, <1>3, ChainExtends DEF Mine, Reorg, observer, rows
    <2>2. ASSUME NEW i \in 1..checkpoint, Launch \in chain'[i], Launch \notin missed \cup moved'
          PROVE  Launch \in chain[i] /\ Launch \notin missed \cup moved
        <3>1. i \in 1..Len(chain) /\ WasRead(i) /\ Launch \in Txs \ moved'
            BY <2>2, <1>2 DEF Txs, WasRead
        <3> QED
            BY <3>1, <2>1, <2>2 DEF Extends
    <2> QED
        BY <2>1, <2>2, <1>1 DEF LaunchShown, Fresh
<1>4. CASE Commit
    BY <1>4, CommitKeepsLaunch
<1>5. CASE Lapse
    <2>1. /\ lapsed' \in lapsed + 1..checkpoint
          /\ missed' = missed \cup {e.tx : e \in {f \in events : f.seen <= lapsed'}}
                              \cup IF tip.seen <= lapsed' THEN {Launch} ELSE {}
          /\ UNCHANGED <<chain, checkpoint, tip, moved>>
        BY <1>5 DEF Lapse, indexer, observer, hist
    <2>2. missed \subseteq missed' /\ (tip.seen <= lapsed' => Launch \in missed')
        BY <2>1
    <2>3. tip.seen \in Int /\ lapsed' \in Int
        BY <2>1, <1>1, <1>2 DEF Types, TipType, NoTip, NoCheckpoint
    <2>4. Launch \notin missed' => tip.seen > lapsed'
        BY <2>2, <2>3
    <2> QED
        BY <2>1, <2>2, <2>4, <1>1 DEF LaunchShown, Fresh
<1>6. CASE Expire
    <2>1. /\ tip' = IF tip # NoTip /\ Fresh(tip) THEN tip ELSE NoTip
          /\ UNCHANGED <<chain, checkpoint, lapsed, missed, moved>>
        BY <1>6 DEF Expire, observer, hist
    <2> QED
        BY <2>1, <1>1 DEF LaunchShown, Fresh
<1>7. CASE UNCHANGED <<chain, checkpoint, tip, lapsed, missed, moved>>
    BY <1>7, <1>1 DEF LaunchShown, Fresh
<1> QED
    BY <1>3, <1>4, <1>5, <1>6, <1>7
       DEF Next, Index, Rollback, Scan, Fail, Restart, DeleteConfirmed, vars, observer,
           rows, hist

-----------------------------------------------------------------------------
(* The theorems. *)

(* Inv is an invariant, and an inductive one: over every chain, for every  *)
(* size of the windows and every lag of the indexer.                       *)
THEOREM Invariance == Spec => []Inv
<1>1. Init => Inv
    BY InitInv
<1>2. Inv /\ [Next]_vars => Inv'
    BY TypesKept, CanonKept, JobKept, EventsKept, RowsStay, TipKept, LaunchKept
       DEF Inv
<1> QED
    BY <1>1, <1>2, PTL DEF Spec

(* The unique key of live_chain_events holds, and the checkpoint is never  *)
(* beyond the chain.                                                       *)
THEOREM TypeCorrect == Spec => []TypeOK
<1>1. Inv => TypeOK
    <2> SUFFICES ASSUME Inv
                 PROVE  TypeOK
        OBVIOUS
    <2>1. Types /\ JobOK
        BY DEF Inv
    <2>2. job = NoJob \/ job.to \in checkpoint + 1..Len(chain)
        <3>1. /\ job.to \in Int /\ checkpoint \in Int /\ Len(chain) \in Nat
            BY <2>1, BlocksAre DEF Types, JobType, NoCheckpoint
        <3> QED
            BY <2>1, <3>1 DEF JobOK
    <2> QED
        BY <2>1, <2>2 DEF Types, TypeOK, Blocks, TipType
<1> QED
    BY <1>1, Invariance, PTL

(* Up to which block the indexer or the observer has the chain. *)
LEMMA ReachedIs ==
    ASSUME Inv, NEW x
    PROVE  x \in Reached <=> \E i \in 1..Len(chain) :
                                x \in chain[i] /\ (i <= checkpoint \/ i <= Len(canon))
<1>1. Types /\ CanonOK
    BY DEF Inv
<1>2. /\ chain \in Blocks /\ Len(chain) \in Nat /\ Len(canon) \in Nat /\ checkpoint \in Int
      /\ checkpoint <= Len(chain) /\ Len(canon) <= Len(chain)
    BY <1>1, BlocksAre DEF Types, CanonOK, NoCheckpoint
<1> DEFINE n == Max({Len(canon), checkpoint})
<1>3. n = IF Len(canon) >= checkpoint THEN Len(canon) ELSE checkpoint
    BY <1>2, MaxOfTwo
<1>4. Reached = Mined(SubSeq(chain, 1, n))
    BY DEF Reached, Prefix, MainCheckpoint
<1> HIDE DEF n
<1>5. 1 \in Nat \ {0} /\ n \in Int /\ 1 - 1 <= n /\ n <= Len(chain)
    BY <1>2, <1>3
<1>6. x \in Reached <=> \E i \in 1..n : x \in chain[i]
    BY <1>2, <1>4, <1>5, WindowOf
<1>7. \A i : i \in 1..n <=> i \in 1..Len(chain) /\ (i <= checkpoint \/ i <= Len(canon))
    BY <1>2, <1>3
<1> QED
    BY <1>6, <1>7

(* A page offers every trade that the indexer or the observer has reached, *)
(* and no other, but for moved trades, jumps, lapses and trades before the *)
(* pool was watched.                                                       *)
THEOREM ReachedAreShown == Spec => []ReachedTradesShown
<1>1. Inv => ReachedTradesShown
    <2> SUFFICES ASSUME Inv
                 PROVE  ReachedTradesShown
        OBVIOUS
    <2>1. Types /\ CanonOK /\ EventsOK /\ RowsKept
        BY DEF Inv
    <2>2. /\ chain \in Blocks /\ canon \in Blocks /\ Valid(chain)
          /\ Len(chain) \in Nat /\ Len(canon) \in Nat /\ checkpoint \in Int
          /\ Len(canon) <= Len(chain)
        BY <2>1, BlocksAre DEF Types, CanonOK, NoCheckpoint
    <2>3. ASSUME NEW x, x \notin moved, x \in Canonical
          PROVE  /\ x \in Settled
                 /\ \E i \in 1..Len(canon) : x \in canon[i] /\ x \in chain[i]
        <3>1. PICK i \in 1..Len(canon) : x \in canon[i]
            BY <2>2, <2>3, MinedIn DEF Canonical
        <3>2. x \in Settled
            BY <3>1, <2>2, <2>3, BlocksAre DEF Settled
        <3> QED
            BY <3>1, <3>2, <2>1 DEF CanonOK
    <2>4. ASSUME NEW x, x \notin moved, x \in PendingTrades
          PROVE  \E i \in 1..Len(chain) :
                     x \in chain[i] /\ i > Len(canon) /\ i <= checkpoint
        <3>1. PICK e \in events : e.tx = x /\ Beyond(e.block)
            BY <2>4 DEF PendingTrades, Pending, Overlaid
        <3>2. e.block \in 1..Len(chain) /\ e.block <= checkpoint /\ e.tx \in chain[e.block]
            BY <2>4, <3>1, RowInChain
        <3> QED
            BY <3>1, <3>2 DEF Beyond, MainCheckpoint
    <2>5. {e.tx : e \in Overlaid} \subseteq PendingTrades \cup moved
        <3> SUFFICES ASSUME NEW e \in Overlaid, e.tx \notin moved
                     PROVE  e.tx \in PendingTrades
            OBVIOUS
        <3>1. e \in events /\ e.tx \notin Canonical
            BY DEF Overlaid
        <3>2. /\ e.tx \in Settled /\ e.block \in 1..Len(chain) /\ e.tx \in chain[e.block]
              /\ e.tx # Launch
            BY <3>1, RowInChain DEF Launch
        <3>3. CASE e.block \in 1..Len(canon)
            <4>1. e.tx \in canon[e.block]
                BY <3>2, <3>3, <2>1 DEF CanonOK
            <4> QED
                BY <4>1, <3>1, <3>2, <3>3, <2>2, MinedIn DEF Canonical
        <3>4. CASE e.block \notin 1..Len(canon)
            <4>1. e.block > Len(canon)
                BY <3>2, <3>4, <2>2
            <4> QED
                BY <4>1 DEF PendingTrades, Pending, Beyond, MainCheckpoint
        <3> QED
            BY <3>3, <3>4
    <2>6. PendingTrades \cup Canonical \subseteq Reached \cup moved
        <3> SUFFICES ASSUME NEW x \in PendingTrades \cup Canonical, x \notin moved
                     PROVE  x \in Reached
            OBVIOUS
        <3>1. CASE x \in PendingTrades
            BY <3>1, <2>4, ReachedIs
        <3>2. CASE x \in Canonical
            <4>1. PICK i \in 1..Len(canon) : x \in chain[i]
                BY <3>2, <2>3
            <4>2. i \in 1..Len(chain) /\ i <= Len(canon)
                BY <4>1, <2>2
            <4> QED
                BY <4>1, <4>2, ReachedIs
        <3> QED
            BY <3>1, <3>2
    <2>7. Reached \ {Launch} \subseteq PendingTrades \cup Canonical \cup missed \cup moved
        <3> SUFFICES ASSUME NEW x \in Reached, x # Launch, x \notin moved
                     PROVE  x \in PendingTrades \/ x \in Canonical \/ x \in missed
            OBVIOUS
        <3>1. PICK i \in 1..Len(chain) : x \in chain[i] /\ (i <= checkpoint \/ i <= Len(canon))
            BY ReachedIs
        <3>2. x \in Settled
            BY <3>1, <2>2, BlocksAre DEF Settled
        <3>3. \A j \in 1..Len(canon) : x \in chain[j] => x \in Canonical
            BY <3>2, <2>1, <2>2, MinedIn DEF CanonOK, Canonical
        <3>4. CASE i <= Len(canon)
            <4>1. i \in 1..Len(canon)
                BY <3>4, <2>2
            <4> QED
                BY <4>1, <3>1, <3>3
        <3>5. CASE i <= checkpoint
            <4>1. i \in 1..checkpoint
                BY <3>5, <2>2
            <4>2. x \in missed \/ x \in Canonical \/ Shown(x)
                BY <4>1, <3>1, <3>2, <2>1 DEF RowsKept
            <4>3. ASSUME Shown(x)
                  PROVE  x \in PendingTrades \/ x \in Canonical
                <5>1. PICK e \in events : e.tx = x /\ Fresh(e)
                    BY <4>3 DEF Shown
                <5>2. e.block \in 1..Len(chain) /\ x \in chain[e.block]
                    BY <5>1, RowInChain
                <5>3. CASE e.block > Len(canon)
                    BY <5>1, <5>3 DEF PendingTrades, Pending, Overlaid, Beyond, MainCheckpoint
                <5>4. CASE ~(e.block > Len(canon))
                    <6>1. e.block \in 1..Len(canon)
                        BY <5>2, <5>4, <2>2
                    <6> QED
                        BY <5>2, <6>1, <3>3
                <5> QED
                    BY <5>3, <5>4
            <4> QED
                BY <4>2, <4>3
        <3> QED
            BY <3>1, <3>4, <3>5
    <2> QED
        BY <2>5, <2>6, <2>7 DEF ReachedTradesShown
<1> QED
    BY <1>1, Invariance, PTL

(* The tip is that of the newest pending trade, where neither has moved,   *)
(* and a launch that the observer has stored is listed.                    *)
THEOREM TipIsNewest == Spec => []TipShowsNewest
<1>1. Inv => TipShowsNewest
    <2> SUFFICES ASSUME Inv
                 PROVE  TipShowsNewest
        OBVIOUS
    <2>1. Types /\ CanonOK /\ EventsOK /\ TipOK /\ LaunchShown
        BY DEF Inv
    <2>2. /\ chain \in Blocks /\ canon \in Blocks
          /\ Len(chain) \in Nat /\ Len(canon) \in Nat /\ checkpoint \in Int
          /\ Len(canon) <= Len(chain) /\ lapsed \in Int /\ MaxHeight \in Nat
          /\ Trades \in Nat /\ NoTip.block = -1
        BY <2>1, BlocksAre, OverlayAssumption DEF Types, CanonOK, NoCheckpoint, NoTip
    <2>3. ASSUME Pending # {}, Newest(Pending).tx \notin moved
          PROVE  TipVisible /\ tip.price \in {Newest(Pending).tx} \cup moved
        <3> DEFINE e == Newest(Pending)
        <3>1. Pending \subseteq events /\ events \subseteq Event
            BY <2>1 DEF Pending, Overlaid, Types
        <3>2. e \in Pending /\ \A f \in Pending \ {e} : Later(e, f)
            <4>1. Pending \subseteq Event /\ \A f, g \in Pending : f.tx = g.tx => f = g
                BY <3>1, <2>1 DEF Types
            <4> QED
                BY <4>1, <2>3, NewestOf
        <3>3. e.tx \notin moved
            BY <2>3
        <3> HIDE DEF e
        <3>4. /\ e.block \in 1..MaxHeight /\ e.seen \in Nat /\ e.tx \in Nat
              /\ e.block > Len(canon) /\ e.seen > lapsed
            BY <3>1, <3>2, <2>2
               DEF Event, TradeTxs, Pending, Overlaid, Fresh, Beyond, MainCheckpoint
        <3>5. Covers(e)
            BY <3>1, <3>2, <3>3, <2>1 DEF TipOK, Pending, Overlaid
        <3>6. ASSUME NEW f \in events, f.tx \notin moved, Later(f, e), f.seen >= e.seen
              PROVE  FALSE
            <4>1. f.block \in Nat /\ f.seen \in Nat /\ f.tx \in Nat
                BY <3>1, <2>2 DEF Event, TradeTxs
            <4>2. f.block > Len(canon) /\ f.seen > lapsed /\ f # e
                BY <3>4, <3>6, <4>1, <2>2 DEF Later
            <4>3. f.tx \notin Canonical
                BY <4>2, <3>6, BeyondUnconfirmed
            <4>4. f \in Pending
                BY <4>2, <4>3 DEF Pending, Overlaid, Fresh, Beyond, MainCheckpoint
            <4>5. Later(e, f)
                BY <4>2, <4>4, <3>2
            <4> QED
                BY <4>1, <4>5, <3>4, <3>6 DEF Later
        <3>7. tip.price \in {e.tx} \cup moved
            BY <3>5, <3>6 DEF Covers
        <3>8. tip.block \in Int /\ tip.seen \in Int
            BY <2>1 DEF Types, TipType, NoTip, NoCheckpoint
        <3>9. tip.block > Len(canon) /\ tip.seen > lapsed /\ tip # NoTip
            BY <3>4, <3>5, <3>8, <2>2 DEF Covers
        <3> QED
            BY <3>7, <3>9 DEF e, TipVisible, Fresh, Beyond, MainCheckpoint
    <2>4. ASSUME Launch \in Reached \ (missed \cup moved)
          PROVE  listed \/ TipVisible
        <3>1. PICK i \in 1..Len(chain) :
                  Launch \in chain[i] /\ (i <= checkpoint \/ i <= Len(canon))
            BY <2>4, ReachedIs
        <3>2. CASE i <= Len(canon)
            <4>1. i \in 1..Len(canon) /\ Launch \in Settled
                BY <3>2, <2>2, <2>4 DEF Settled, Txs
            <4>2. Launch \in Mined(canon)
                BY <3>1, <4>1, <2>1, <2>2, MinedIn DEF CanonOK
            <4> QED
                BY <4>2, <2>1 DEF CanonOK
        <3>3. CASE i > Len(canon)
            <4>1. i \in 1..checkpoint
                BY <3>1, <3>3, <2>2
            <4>2. tip # NoTip /\ Fresh(tip) /\ tip.block >= i
                BY <3>1, <4>1, <2>1, <2>4 DEF LaunchShown
            <4>3. tip.block \in Int
                BY <2>1, <2>2 DEF Types, TipType, NoTip
            <4>4. Beyond(tip.block)
                BY <3>3, <4>2, <4>3, <2>2 DEF Beyond, MainCheckpoint
            <4> QED
                BY <4>2, <4>4 DEF TipVisible
        <3> QED
            BY <3>2, <3>3, <2>2
    <2> QED
        BY <2>3, <2>4 DEF TipShowsNewest
<1> QED
    BY <1>1, Invariance, PTL
=============================================================================
