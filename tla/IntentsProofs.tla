---------------------------- MODULE IntentsProofs ----------------------------
(***************************************************************************)
(* Proofs, for every number of launches, images, requests and failures,    *)
(* of the safety of Intents, and that it implements MarketPage.  The       *)
(* invariant says what a process may still rely on of what it has read:    *)
(* an intent's number and image never change, a draft it carries is one of *)
(* a launch of the same image, and a link once made stays.                 *)
(***************************************************************************)
EXTENDS Intents, SequenceTheorems, WellFoundedInduction, TLAPS

Uris == {UriOf[t] : t \in Tokens}
OriginsOf(uri) == {DraftOf[t] : t \in {u \in Tokens : UriOf[u] = uri}}

Statuses == {"awaiting_token", "pending", "done", "failed", "expired", "noop"}

RowType == [no : Nat \ {0}, uri : Uris, token : Tokens \union {None},
            draft : Drafts \union {None}, path : BOOLEAN, status : Statuses,
            attempts : Nat, old : BOOLEAN, quiet : BOOLEAN]

(* An intent's token is one of its image, and so is its draft's.           *)
RowOK(row) ==
    /\ row.token # None => row.uri = UriOf[row.token]
    /\ row.status = "pending" => row.token # None
    /\ row.draft \in OriginsOf(row.uri) \union {None}

(* The rows are numbered 1 .. Len(table).                                  *)
TableOK(table) ==
    /\ table \in Seq(RowType)
    /\ \A i \in 1..Len(table) : RowOK(table[i]) /\ table[i].no <= Len(table)
    /\ \A i, j \in 1..Len(table) : table[i].no = table[j].no => i = j
    /\ \A n \in 1..Len(table) : \E i \in 1..Len(table) : table[i].no = n

Ids(table) == {<<table[i].no, table[i].uri>> : i \in 1..Len(table)}

StepType == [pc : {"idle", "pin", "read", "apply", "mark", "bound", "news", "link", "settle"},
             kind : {None, "bind", "again", "display", "activate", "intent", "orphan",
                     "heal", "sweep"},
             token : Tokens \union {None}, draft : Drafts \union {None}, path : BOOLEAN,
             row : Nat, result : Statuses \union {None, "retry"}]

(* What a process has read and what is still true of it.                   *)
StepOK(s) ==
    /\ s \in StepType
    /\ s.pc # "idle" => s.token \in Tokens /\ s.draft \in OriginsOf(UriOf[s.token]) \union {None}
    /\ s.pc = "pin" => /\ s.draft = DraftOf[s.token]
                       /\ s.row # 0 => <<s.row, UriOf[s.token]>> \in Ids(rows)
    /\ s.pc = "apply" => s.token \in indexed
    /\ s.pc \in {"read", "apply", "mark", "bound"} /\ s.kind \in {"intent", "bind"} =>
          s.row \in 1..Len(rows)
    /\ s.pc = "mark" => s.kind \in {"intent", "bind"} /\ s.result \in {"retry", "done", "failed"}
    /\ s.pc = "bound" => s.kind = "bind"
    /\ s.pc \in {"news", "link", "settle"} => s.draft \in NewsDrafts
    /\ s.pc \in {"link", "settle"} => news[s.token].status # None
    /\ s.pc = "settle" /\ s.result = "done" => link[s.token] # None

(* An item of the image cron's queue, by the stage it is listed in.        *)
ItemOK(stage, item) ==
    /\ stage \in {"bind", "pending"} => item.no \in 1..Len(rows)
    /\ stage = "pending" => item \in RowType
    /\ stage \in {"pending", "orphans", "heal"} =>
          /\ item.token \in Tokens
          /\ item.draft \in OriginsOf(UriOf[item.token]) \union {None}
    /\ stage = "heal" => item.draft \in NewsDrafts

NewsType == [status : {None, "pending", "done", "failed", "expired"}, attempts : Nat,
             draft : NewsDrafts \union {None}, quiet : BOOLEAN]

PageOK ==
    /\ shown \subseteq indexed /\ indexed \subseteq mined /\ aged \subseteq mined
    /\ mined \subseteq Tokens
    /\ link \in [Tokens -> NewsDrafts \union {None}]
    /\ \A t \in Tokens : link[t] \in OriginsOf(UriOf[t]) \union {None}

NewsOK ==
    /\ news \in [Tokens -> NewsType]
    /\ \A t \in Tokens : news[t].status # None =>
          news[t].draft \in NewsDrafts \intersect OriginsOf(UriOf[t])

ProcOK ==
    /\ DOMAIN proc = Procs
    /\ \A p \in Procs : StepOK(proc[p])

QueuesOK ==
    /\ DOMAIN cron = {"stage", "queue"}
    /\ \A entry \in cron.queue : ItemOK(cron.stage, entry[2])
    /\ \A item \in sweep :
          /\ item \in Tokens \X NewsDrafts
          /\ item[2] \in OriginsOf(UriOf[item[1]])
          /\ news[item[1]].status # None

Inv ==
    /\ TableOK(rows) /\ ~Violates(rows)
    /\ PageOK /\ NewsOK /\ ProcOK /\ QueuesOK
    /\ NewsDoneIsLinked

-----------------------------------------------------------------------------
(* Choices. *)

(* A set of natural numbers has a least element.                           *)
LEMMA LeastOf ==
    ASSUME NEW S \in SUBSET Nat, S # {}
    PROVE  \E x \in S : \A y \in S : x <= y
<1>. DEFINE R == {ss \in Nat \X Nat : ss[1] < ss[2]}
<1>1. IsWellFoundedOn(R, Nat)
  BY NatLessThanWellFounded DEF OpToRel
<1>2. \A a, b \in Nat : <<a, b>> \notin R => b <= a
  OBVIOUS
<1>. HIDE DEF R
<1>3. PICK x \in S : \A y \in S : <<y, x>> \notin R
  BY <1>1, WFMin
<1>. QED BY <1>2, <1>3

(* A bounded one has a greatest: the least distance from the bound.        *)
LEMMA GreatestOf ==
    ASSUME NEW n \in Nat, NEW S \in SUBSET (0..n), S # {}
    PROVE  \E x \in S : \A y \in S : y <= x
<1>. DEFINE T == {m \in Nat : \E x \in S : m = n - x}
<1>1. \A y \in S : n - y \in T
  OBVIOUS
<1>2. PICK t \in T : \A y \in T : t <= y
  <2>1. T \in SUBSET Nat /\ T # {}
    BY <1>1
  <2>. HIDE DEF T
  <2>. QED BY <2>1, LeastOf
<1>3. PICK x \in S : t = n - x
  BY <1>2
<1>4. ASSUME NEW y \in S PROVE y <= x
  BY <1>1, <1>2, <1>3
<1>. QED BY <1>4

(* LIMIT 1 takes a row of those found.                                     *)
LEMMA LatestOf ==
    ASSUME NEW S \in SUBSET (1..Len(rows)), S # {}, rows \in Seq(RowType)
    PROVE  Latest(S) \in S
<1>1. Len(rows) \in Nat /\ S \in SUBSET (0..Len(rows))
  OBVIOUS
<1>2. \E x \in S : \A y \in S : y <= x
  BY <1>1, GreatestOf
<1>. QED BY <1>2 DEF Latest

(* The most recently created of the rows found is one of them.             *)
LEMMA NewestOf ==
    ASSUME NEW S \in SUBSET (1..Len(rows)), S # {}, TableOK(rows)
    PROVE  Newest(S) \in S
<1>. DEFINE N == {rows[i].no : i \in S}
<1>1. Len(rows) \in Nat /\ N \in SUBSET (0..Len(rows)) /\ N # {}
  <2>1. rows \in Seq(RowType)
    BY DEF TableOK
  <2>2. \A i \in 1..Len(rows) : rows[i].no \in Nat /\ rows[i].no <= Len(rows)
    <3>1. \A i \in 1..Len(rows) : rows[i] \in RowType
      BY <2>1
    <3>. QED BY <3>1 DEF TableOK, RowType
  <2>3. N \in SUBSET (0..Len(rows)) /\ N # {}
    <3>1. \A i \in S : rows[i].no \in 0..Len(rows)
      BY <2>1, <2>2
    <3>. QED BY <3>1
  <2>. QED BY <2>1, <2>3
<1>2. PICK n \in N : \A m \in N : m <= n
  <2>. HIDE DEF N
  <2>. QED BY <1>1, GreatestOf
<1>3. PICK i \in S : rows[i].no = n
  BY <1>2
<1>4. \A j \in S : rows[j].no <= rows[i].no
  BY <1>2, <1>3
<1>. QED BY <1>3, <1>4 DEF Newest

(* Every number up to the last is the number of a row.                     *)
LEMMA IndexOfNumber ==
    ASSUME TableOK(rows), NEW n \in 1..Len(rows)
    PROVE  IndexOf(n) \in 1..Len(rows) /\ rows[IndexOf(n)].no = n
BY DEF TableOK, IndexOf

-----------------------------------------------------------------------------
(* Writes of the table of display intents. *)

(* Where the rows of an updated table come from.                           *)
From(i, j) == IF j < i THEN j ELSE IF j < Len(rows) THEN j + 1 ELSE i

(* An update moves the rows without losing or doubling one.                *)
LEMMA FromIsBijective ==
    ASSUME rows \in Seq(RowType), NEW i \in 1..Len(rows)
    PROVE  /\ \A j \in 1..Len(rows) : From(i, j) \in 1..Len(rows)
           /\ \A j, k \in 1..Len(rows) : From(i, j) = From(i, k) => j = k
           /\ \A k \in 1..Len(rows) : \E j \in 1..Len(rows) : From(i, j) = k
<1>1. Len(rows) \in Nat
  OBVIOUS
<1>2. ASSUME NEW k \in 1..Len(rows)
      PROVE  \E j \in 1..Len(rows) : From(i, j) = k
  <2>1. CASE k < i
    BY <1>1, <2>1 DEF From
  <2>2. CASE k = i
    BY <1>1, <2>2 DEF From
  <2>3. CASE k > i
    <3>1. k - 1 \in 1..Len(rows) /\ From(i, k - 1) = k
      BY <1>1, <2>3 DEF From
    <3>. QED BY <3>1
  <2>. QED BY <2>1, <2>2, <2>3
<1>3. \A j \in 1..Len(rows) : From(i, j) \in 1..Len(rows)
  BY <1>1 DEF From
<1>4. \A j, k \in 1..Len(rows) : From(i, j) = From(i, k) => j = k
  BY <1>1 DEF From
<1>. QED BY <1>2, <1>3, <1>4

Fresh(row) == [row EXCEPT !.quiet = FALSE]

(* The updated row comes last, the others stay as they were.               *)
LEMMA PutAt ==
    ASSUME rows \in Seq(RowType), NEW i \in 1..Len(rows), NEW row \in RowType
    PROVE  /\ Put(i, row) \in Seq(RowType) /\ Len(Put(i, row)) = Len(rows)
           /\ \A j \in 1..Len(rows) :
                Put(i, row)[j] = IF From(i, j) = i THEN Fresh(row)
                                                   ELSE rows[From(i, j)]
<1>. DEFINE n == Len(rows)
            pre == SubSeq(rows, 1, i - 1)
            post == SubSeq(rows, i + 1, Len(rows))
<1>0. Fresh(row) \in RowType
  BY DEF Fresh, RowType
<1>1. n \in Nat /\ Fresh(row) \in RowType
  BY <1>0
<1>2. pre \in Seq(RowType) /\ Len(pre) = i - 1 /\ \A j \in 1..i-1 : pre[j] = rows[j]
  OBVIOUS
<1>3. post \in Seq(RowType) /\ Len(post) = n - i /\ \A j \in 1..n-i : post[j] = rows[i + j]
  OBVIOUS
<1>4. Put(i, row) = Append(pre \o post, Fresh(row))
  BY DEF Put, RemoveAt, Fresh
<1>. HIDE DEF pre, post
<1>5. pre \o post \in Seq(RowType) /\ Len(pre \o post) = n - 1
  <2>1. pre \o post \in Seq(RowType) /\ Len(pre \o post) = Len(pre) + Len(post)
    BY <1>2, <1>3, ConcatProperties
  <2>. QED BY <1>1, <1>2, <1>3, <2>1
<1>6. Put(i, row) \in Seq(RowType) /\ Len(Put(i, row)) = n
  BY <1>1, <1>4, <1>5
<1>7. ASSUME NEW j \in 1..n
      PROVE  Put(i, row)[j] = IF From(i, j) = i THEN Fresh(row) ELSE rows[From(i, j)]
  <2>1. CASE j < i
    <3>1. (pre \o post)[j] = rows[j]
      BY <1>1, <1>2, <1>3, <2>1
    <3>. QED BY <1>1, <1>4, <1>5, <2>1, <3>1 DEF From
  <2>2. CASE j >= i /\ j < n
    <3>1. (pre \o post)[j] = post[j - (i - 1)]
      BY <1>1, <1>2, <1>3, <2>2
    <3>2. post[j - (i - 1)] = rows[j + 1]
      BY <1>1, <1>3, <2>2
    <3>. QED BY <1>1, <1>4, <1>5, <2>2, <3>1, <3>2 DEF From
  <2>3. CASE j = n
    BY <1>1, <1>4, <1>5, <2>3 DEF From
  <2>. QED BY <1>1, <2>1, <2>2, <2>3
<1>. QED BY <1>6, <1>7

(* An UPDATE that keeps the number and the image keeps the table.          *)
LEMMA PutTable ==
    ASSUME TableOK(rows), NEW i \in 1..Len(rows), NEW row \in RowType,
           RowOK(row), row.no = rows[i].no, row.uri = rows[i].uri
    PROVE  /\ TableOK(Put(i, row)) /\ Len(Put(i, row)) = Len(rows)
           /\ Ids(rows) \subseteq Ids(Put(i, row))
<1>. DEFINE table == Put(i, row)
<1>1. rows \in Seq(RowType) /\ Len(rows) \in Nat
  BY DEF TableOK
<1>2. /\ table \in Seq(RowType) /\ Len(table) = Len(rows)
      /\ \A j \in 1..Len(rows) :
           table[j] = IF From(i, j) = i THEN Fresh(row) ELSE rows[From(i, j)]
  BY <1>1, PutAt
<1>. HIDE DEF table
<1>3. Fresh(row).no = row.no /\ Fresh(row).uri = row.uri /\ RowOK(Fresh(row))
  BY DEF Fresh, RowType, RowOK
<1>4. \A j \in 1..Len(rows) : /\ From(i, j) \in 1..Len(rows)
                              /\ table[j].no = rows[From(i, j)].no
                              /\ table[j].uri = rows[From(i, j)].uri
                              /\ RowOK(table[j])
  <2>. TAKE j \in 1..Len(rows)
  <2>1. From(i, j) \in 1..Len(rows)
    BY <1>1, FromIsBijective
  <2>2. CASE From(i, j) = i
    BY <1>2, <1>3, <2>1, <2>2
  <2>3. CASE From(i, j) # i
    BY <1>2, <2>1, <2>3 DEF TableOK
  <2>. QED BY <2>1, <2>2, <2>3
<1>5. \A j \in 1..Len(table) : RowOK(table[j]) /\ table[j].no <= Len(table)
  <2>. TAKE j \in 1..Len(table)
  <2>1. rows[From(i, j)].no <= Len(rows)
    BY <1>2, <1>4 DEF TableOK
  <2>. QED BY <1>2, <1>4, <2>1
<1>6. \A j, k \in 1..Len(table) : table[j].no = table[k].no => j = k
  <2>. TAKE j, k \in 1..Len(table)
  <2>. HAVE table[j].no = table[k].no
  <2>1. From(i, j) = From(i, k)
    <3>1. /\ From(i, j) \in 1..Len(rows) /\ From(i, k) \in 1..Len(rows)
          /\ rows[From(i, j)].no = rows[From(i, k)].no
      BY <1>2, <1>4
    <3>. QED BY <3>1 DEF TableOK
  <2>. QED BY <1>1, <1>2, <2>1, FromIsBijective
<1>7. ASSUME NEW n \in 1..Len(table)
      PROVE  \E j \in 1..Len(table) : table[j].no = n
  <2>1. PICK k \in 1..Len(rows) : rows[k].no = n
    BY <1>2 DEF TableOK
  <2>2. PICK j \in 1..Len(rows) : From(i, j) = k
    BY <1>1, FromIsBijective
  <2>. QED BY <1>2, <1>4, <2>1, <2>2
<1>8. ASSUME NEW id \in Ids(rows)
      PROVE  id \in Ids(table)
  <2>1. PICK k \in 1..Len(rows) : id = <<rows[k].no, rows[k].uri>>
    BY DEF Ids
  <2>2. PICK j \in 1..Len(rows) : From(i, j) = k
    BY <1>1, FromIsBijective
  <2>. QED BY <1>2, <1>4, <2>1, <2>2 DEF Ids
<1>9. TableOK(table)
  BY <1>2, <1>5, <1>6, <1>7 DEF TableOK
<1>. QED BY <1>2, <1>8, <1>9 DEF table

(* So does an INSERT with the next number.                                 *)
LEMMA AppendTable ==
    ASSUME TableOK(rows), NEW row \in RowType, RowOK(row), row.no = Len(rows) + 1
    PROVE  /\ TableOK(Append(rows, row)) /\ Len(Append(rows, row)) = Len(rows) + 1
           /\ Ids(rows) \subseteq Ids(Append(rows, row))
<1>. DEFINE table == Append(rows, row)
<1>1. rows \in Seq(RowType) /\ Len(rows) \in Nat
  BY DEF TableOK
<1>2. /\ table \in Seq(RowType) /\ Len(table) = Len(rows) + 1
      /\ table[Len(rows) + 1] = row
      /\ \A i \in 1..Len(rows) : table[i] = rows[i]
  BY <1>1
<1>. HIDE DEF table
<1>3. \A i \in 1..Len(table) : i \in 1..Len(rows) \/ i = Len(rows) + 1
  BY <1>1, <1>2
<1>4. \A i \in 1..Len(rows) : i \in 1..Len(table)
  BY <1>1, <1>2
<1>5. \A i \in 1..Len(rows) : rows[i].no <= Len(rows) /\ rows[i].no \in Nat
  <2>1. \A i \in 1..Len(rows) : rows[i] \in RowType
    BY <1>1
  <2>. QED BY <2>1 DEF TableOK, RowType
<1>6. \A i \in 1..Len(table) : RowOK(table[i]) /\ table[i].no <= Len(table)
  <2>. TAKE i \in 1..Len(table)
  <2>1. CASE i \in 1..Len(rows)
    BY SMTT(30), <1>1, <1>2, <1>5, <2>1 DEF TableOK
  <2>2. CASE i = Len(rows) + 1
    BY <1>1, <1>2, <2>2
  <2>. QED BY <1>3, <2>1, <2>2
<1>7. \A i, j \in 1..Len(table) : table[i].no = table[j].no => i = j
  <2>. TAKE i, j \in 1..Len(table)
  <2>1. CASE i \in 1..Len(rows) /\ j \in 1..Len(rows)
    BY <1>2, <2>1 DEF TableOK
  <2>2. CASE ~(i \in 1..Len(rows) /\ j \in 1..Len(rows))
    BY <1>1, <1>2, <1>3, <1>5, <2>2
  <2>. QED BY <2>1, <2>2
<1>8. \A n \in 1..Len(table) : \E i \in 1..Len(table) : table[i].no = n
  <2>. TAKE n \in 1..Len(table)
  <2>1. CASE n \in 1..Len(rows)
    <3>1. PICK i \in 1..Len(rows) : rows[i].no = n
      BY <2>1 DEF TableOK
    <3>. QED BY <1>2, <1>4, <3>1
  <2>2. CASE n = Len(rows) + 1
    BY <1>1, <1>2, <2>2
  <2>. QED BY <1>3, <2>1, <2>2
<1>9. Ids(rows) \subseteq Ids(table)
  BY <1>2, <1>4 DEF Ids
<1>. QED BY <1>2, <1>6, <1>7, <1>8, <1>9 DEF TableOK, table

(* And so does an UPDATE of all rows in place.                             *)
LEMMA MapTable ==
    ASSUME TableOK(rows), NEW table \in Seq(RowType), Len(table) = Len(rows),
           \A i \in 1..Len(rows) : /\ table[i].no = rows[i].no
                                   /\ table[i].uri = rows[i].uri
                                   /\ RowOK(table[i])
    PROVE  TableOK(table) /\ Ids(rows) \subseteq Ids(table)
<1>1. TableOK(table)
  BY DEF TableOK
<1>2. Ids(rows) \subseteq Ids(table)
  BY DEF Ids
<1>. QED BY <1>1, <1>2

(* The unique index holds after an UPDATE whose row was open for its token *)
(* before, or is the only one now.                                         *)
LEMMA PutUnique ==
    ASSUME TableOK(rows), ~Violates(rows), NEW i \in 1..Len(rows), NEW row \in RowType,
           \/ row.token = None \/ row.status \notin Open
           \/ row.token = rows[i].token /\ rows[i].status \in Open
           \/ \A k \in 1..Len(rows) :
                rows[k].token = row.token => rows[k].status \notin Open
    PROVE  ~Violates(Put(i, row))
<1>. DEFINE table == Put(i, row)
<1>1. rows \in Seq(RowType) /\ Len(rows) \in Nat
  BY DEF TableOK
<1>2. /\ Len(table) = Len(rows)
      /\ \A j \in 1..Len(rows) :
           table[j] = IF From(i, j) = i THEN Fresh(row) ELSE rows[From(i, j)]
  BY <1>1, PutAt
<1>. HIDE DEF table
<1>3. Fresh(row).token = row.token /\ Fresh(row).status = row.status
  BY DEF Fresh, RowType
<1>4. SUFFICES ASSUME NEW j \in 1..Len(table), NEW k \in 1..Len(table), j # k,
                      table[j].token # None, table[j].token = table[k].token,
                      table[j].status \in Open, table[k].status \in Open
               PROVE  FALSE
  BY DEF Violates, table
<1>5. From(i, j) \in 1..Len(rows) /\ From(i, k) \in 1..Len(rows) /\ From(i, j) # From(i, k)
  BY <1>1, <1>2, <1>4, FromIsBijective
<1>6. CASE From(i, j) # i /\ From(i, k) # i
  BY <1>2, <1>4, <1>5, <1>6 DEF Violates
<1>7. CASE From(i, j) = i
  <2>1. table[k] = rows[From(i, k)] /\ table[j] = Fresh(row)
    BY <1>2, <1>5, <1>7
  <2>. QED BY <1>3, <1>4, <1>5, <1>7, <2>1 DEF Violates
<1>8. CASE From(i, k) = i
  <2>1. table[j] = rows[From(i, j)] /\ table[k] = Fresh(row)
    BY <1>2, <1>5, <1>8
  <2>. QED BY <1>3, <1>4, <1>5, <1>8, <2>1 DEF Violates
<1>. QED BY <1>6, <1>7, <1>8

(* What the next table of intents may be.                                  *)
Kept(table) ==
    /\ TableOK(table) /\ Len(rows) <= Len(table) /\ Ids(rows) \subseteq Ids(table)
    /\ ~Violates(table)

(* An UPDATE keeps the table well formed, under the same conditions.       *)
LEMMA PutKept ==
    ASSUME TableOK(rows), ~Violates(rows), NEW i \in 1..Len(rows), NEW row \in RowType,
           RowOK(row), row.no = rows[i].no, row.uri = rows[i].uri,
           \/ row.token = None \/ row.status \notin Open
           \/ row.token = rows[i].token /\ rows[i].status \in Open
           \/ \A k \in 1..Len(rows) :
                rows[k].token = row.token => rows[k].status \notin Open
    PROVE  Kept(Put(i, row))
<1>1. Len(rows) \in Nat
  BY DEF TableOK
<1>2. ~Violates(Put(i, row))
  BY PutUnique
<1>3. /\ TableOK(Put(i, row)) /\ Len(Put(i, row)) = Len(rows)
      /\ Ids(rows) \subseteq Ids(Put(i, row))
  BY PutTable
<1>. QED BY <1>1, <1>2, <1>3 DEF Kept

(* An UPDATE in place may only close intents.                              *)
LEMMA MapKept ==
    ASSUME TableOK(rows), ~Violates(rows), NEW table \in Seq(RowType),
           Len(table) = Len(rows),
           \A i \in 1..Len(rows) :
              /\ table[i].no = rows[i].no /\ table[i].uri = rows[i].uri
              /\ RowOK(table[i]) /\ table[i].token = rows[i].token
              /\ table[i].status \in Open => rows[i].status \in Open
    PROVE  Kept(table)
<1>1. Len(rows) \in Nat
  BY DEF TableOK
<1>2. ~Violates(table)
  BY DEF Violates
<1>3. TableOK(table) /\ Ids(rows) \subseteq Ids(table)
  BY MapTable
<1>. QED BY <1>1, <1>2, <1>3 DEF Kept

-----------------------------------------------------------------------------
(* What the steps write into the table. *)

(* An intent gets a token of its image and one of the image's drafts.      *)
LEMMA MergedOK ==
    ASSUME NEW row \in RowType, RowOK(row), NEW t \in Tokens, row.uri = UriOf[t],
           NEW draft \in OriginsOf(UriOf[t]) \union {None}, NEW path \in BOOLEAN
    PROVE  /\ Merged(row, t, draft, path) \in RowType /\ RowOK(Merged(row, t, draft, path))
           /\ Merged(row, t, draft, path).no = row.no
           /\ Merged(row, t, draft, path).uri = row.uri
           /\ Merged(row, t, draft, path).token = t
           /\ Merged(row, t, draft, path).status = "pending"
<1>. DEFINE new == Merged(row, t, draft, path)
<1>. USE IntentsAssumption
<1>1. draft \in Drafts \union {None}
  BY DEF OriginsOf, Drafts
<1>2. Coalesce(draft, row.draft) \in Drafts \union {None}
  BY <1>1 DEF Coalesce, RowType
<1>3. row.path \/ path \in BOOLEAN
  BY DEF RowType
<1>4. new \in RowType
  BY <1>2, <1>3 DEF Merged, RowType, Statuses
<1>5. /\ new.no = row.no /\ new.uri = row.uri /\ new.token = t
      /\ new.status = "pending" /\ new.draft = Coalesce(draft, row.draft)
  BY DEF Merged, RowType
<1>6. RowOK(new)
  BY <1>5 DEF RowOK, Coalesce, None
<1>. QED BY <1>4, <1>5, <1>6

(* A new intent of an image, for a token of the image or for none.         *)
LEMMA NewRowOK ==
    ASSUME TableOK(rows), NEW t \in Tokens, NEW token \in {t, None},
           NEW draft \in OriginsOf(UriOf[t]) \union {None}, NEW path \in BOOLEAN
    PROVE  /\ NewRow(UriOf[t], token, draft, path) \in RowType
           /\ RowOK(NewRow(UriOf[t], token, draft, path))
           /\ NewRow(UriOf[t], token, draft, path).no = Len(rows) + 1
           /\ NewRow(UriOf[t], token, draft, path).token = token
<1>. USE IntentsAssumption
<1>1. Len(rows) \in Nat /\ UriOf[t] \in Uris /\ draft \in Drafts \union {None}
  BY DEF TableOK, Uris, OriginsOf, Drafts
<1>2. NewRow(UriOf[t], token, draft, path) \in RowType
  BY <1>1 DEF NewRow, RowType, Statuses
<1>. QED BY <1>1, <1>2 DEF NewRow, RowOK

(* A draft has a display copy or not.                                      *)
LEMMA VisibleType ==
    ASSUME NEW draft, NEW path \in BOOLEAN
    PROVE  Visible(draft, path) \in BOOLEAN
BY DEF Visible

(* The intent that applyBoundDisplayImageOnTokenInsert prefers.            *)
LEMMA BestExists ==
    ASSUME TableOK(rows), NEW t, NEW found \in SUBSET (1..Len(rows)), found # {}
    PROVE  {i \in found : \A j \in found : IntentRank(rows[i], t) <= IntentRank(rows[j], t)} # {}
<1>. DEFINE ranks == {IntentRank(rows[i], t) : i \in found}
<1>1. ranks \in SUBSET Nat /\ ranks # {}
  <2>1. \A row : IntentRank(row, t) \in Nat
    BY DEF IntentRank
  <2>. QED BY <2>1
<1>2. PICK n \in ranks : \A m \in ranks : n <= m
  <2>. HIDE DEF ranks
  <2>. QED BY <1>1, LeastOf
<1>3. PICK i \in found : IntentRank(rows[i], t) = n
  BY <1>2
<1>4. \A j \in found : IntentRank(rows[i], t) <= IntentRank(rows[j], t)
  BY <1>2, <1>3
<1>. QED BY <1>3, <1>4

(* ... becomes the token's, done.                                          *)
LEMMA ApplyBoundTable ==
    ASSUME TableOK(rows), ~Violates(rows), NEW t \in Tokens, NEW launched,
           ApplyBound(t, launched)
    PROVE  \/ UNCHANGED <<shown, link, rows, news>>
           \/ /\ Kept(rows') /\ shown' = shown \union {t}
              /\ \E draft \in OriginsOf(UriOf[t]) \union {None} : EnsureNews(t, draft, launched)
<1>. DEFINE found == Numbers(LAMBDA r : /\ r.path
                                        /\ \/ r.token = t /\ r.status \in Open \union {"done"}
                                           \/ r.uri = UriOf[t] /\ r.status \in Open)
            best == {i \in found :
                       \A j \in found : IntentRank(rows[i], t) <= IntentRank(rows[j], t)}
            i == Latest(best)
            new == [rows[i] EXCEPT !.token = t, !.status = "done"]
<1>1. CASE found = {}
  BY <1>1 DEF ApplyBound
<1>2. CASE found # {}
  <2>1. /\ shown' = shown \union {t} /\ rows' = Put(i, new)
        /\ EnsureNews(t, rows[i].draft, launched)
    BY <1>2 DEF ApplyBound
  <2>2. found \in SUBSET (1..Len(rows))
    BY DEF Numbers
  <2>3. best # {} /\ best \in SUBSET (1..Len(rows))
    <3>1. best # {}
      <4>. HIDE DEF found
      <4>. QED BY <1>2, <2>2, BestExists
    <3>. QED BY <2>2, <3>1
  <2>4. i \in best
    <3>. HIDE DEF best
    <3>. QED BY <2>3, LatestOf DEF TableOK
  <2>5. i \in found /\ i \in 1..Len(rows)
    BY <2>2, <2>4
  <2>6. rows[i].token = t \/ rows[i].uri = UriOf[t]
    BY <2>5 DEF Numbers
  <2>7. rows[i] \in RowType /\ RowOK(rows[i]) /\ t # None
    BY <2>5, IntentsAssumption DEF TableOK, None
  <2>. HIDE DEF i, found, best
  <2>8. rows[i].uri = UriOf[t]
    BY <2>6, <2>7 DEF RowOK
  <2>9. new \in RowType
    BY <2>7 DEF RowType, Statuses
  <2>10. /\ new.no = rows[i].no /\ new.uri = rows[i].uri /\ new.token = t
         /\ new.status = "done" /\ new.draft = rows[i].draft
    BY <2>7 DEF RowType
  <2>11. RowOK(new) /\ rows[i].draft \in OriginsOf(UriOf[t]) \union {None}
    BY <2>7, <2>8, <2>10 DEF RowOK
  <2>12. new.status \notin Open
    BY <2>10 DEF Open
  <2>. HIDE DEF new
  <2>13. Kept(Put(i, new))
    BY <2>5, <2>9, <2>10, <2>11, <2>12, PutKept
  <2>. QED BY <2>1, <2>11, <2>13
<1>. QED BY <1>1, <1>2

(* A request that has bound an intent.                                     *)
BoundStep(t, row) ==
    [Idle EXCEPT !.pc = "bound", !.kind = "bind", !.token = t, !.row = row.no,
                 !.draft = row.draft, !.result = row.status,
                 !.path = Visible(row.draft, row.path)]

(* The intent that bindDisplayFinalizeIntentToToken chooses and returns.   *)
LEMMA BindRow ==
    ASSUME TableOK(rows), NEW p, NEW t \in Tokens,
           NEW draft \in OriginsOf(UriOf[t]) \union {None}, NEW path \in BOOLEAN,
           BindTo(p, t, draft, path)
    PROVE  \E i \in 1..Len(rows), row \in RowType :
              /\ RowOK(row) /\ row.no = rows[i].no /\ row.uri = rows[i].uri
              /\ row.uri = UriOf[t]
              /\ rows' = rows \/ rows' = Put(i, row)
              /\ ~Violates(rows')
              /\ Go(p, BoundStep(t, row))
<1>. DEFINE i == IF Awaiting(t) # {} THEN Newest(Awaiting(t))
                 ELSE IF Taken(t) # {} THEN Latest(Taken(t)) ELSE Latest(Pending(t))
<1>1. rows \in Seq(RowType)
  BY DEF TableOK
<1>2. i \in Awaiting(t) \union Taken(t) \union Pending(t)
  <2>1. /\ Taken(t) \in SUBSET (1..Len(rows)) /\ Pending(t) \in SUBSET (1..Len(rows))
        /\ Awaiting(t) \in SUBSET (1..Len(rows))
    BY DEF Awaiting, Taken, Pending, Numbers
  <2>2. Awaiting(t) \union Taken(t) \union Pending(t) # {}
    BY DEF BindTo
  <2>. QED BY <1>1, <2>1, <2>2, LatestOf, NewestOf
<1>3. i \in 1..Len(rows) /\ rows[i].uri = UriOf[t]
  BY <1>2 DEF Awaiting, Taken, Pending, Numbers
<1>4. rows[i] \in RowType /\ RowOK(rows[i])
  <2>. HIDE DEF i
  <2>1. \A k \in 1..Len(rows) : rows[k] \in RowType /\ RowOK(rows[k])
    BY <1>1 DEF TableOK
  <2>. QED BY <1>3, <2>1
<1>. DEFINE merged == Merged(rows[i], t, draft, path)
            row == IF rows[i].status = "done" THEN [merged EXCEPT !.status = "done"] ELSE merged
<1>5. /\ rows' = rows \/ rows' = Put(i, row)
      /\ ~Violates(rows')
      /\ Go(p, BoundStep(t, row))
  BY DEF BindTo, BoundStep
<1>. HIDE DEF i
<1>6. /\ merged \in RowType /\ RowOK(merged) /\ merged.no = rows[i].no
      /\ merged.uri = rows[i].uri /\ merged.token = t
  BY <1>3, <1>4, MergedOK
<1>. HIDE DEF merged
<1>7. /\ row \in RowType /\ row.no = merged.no /\ row.uri = merged.uri
      /\ row.token = t /\ row.draft = merged.draft
  BY <1>6 DEF RowType, Statuses
<1>8. RowOK(row)
  BY <1>3, <1>6, <1>7, IntentsAssumption DEF RowOK, None
<1>. HIDE DEF row
<1>. QED BY <1>3, <1>5, <1>6, <1>7, <1>8

(* Every step keeps the table of intents well formed, with one open intent *)
(* per token, and keeps the numbers and images of its rows.                *)
LEMMA TableStep == Inv /\ [Next]_vars => Kept(rows')
<1>. SUFFICES ASSUME Inv, [Next]_vars PROVE Kept(rows')
  OBVIOUS
<1>1. /\ TableOK(rows) /\ ~Violates(rows) /\ rows \in Seq(RowType) /\ Len(rows) \in Nat
      /\ \A i \in 1..Len(rows) : rows[i] \in RowType /\ RowOK(rows[i])
      /\ \A keep : Awaiting(keep) \in SUBSET (1..Len(rows))
  <2>1. TableOK(rows) /\ ~Violates(rows)
    BY DEF Inv
  <2>2. rows \in Seq(RowType)
    BY <2>1 DEF TableOK
  <2>3. Len(rows) \in Nat
    BY <2>2
  <2>4. \A i \in 1..Len(rows) : rows[i] \in RowType
    BY <2>2
  <2>5. \A i \in 1..Len(rows) : RowOK(rows[i])
    BY <2>1 DEF TableOK
  <2>6. \A keep : Awaiting(keep) \in SUBSET (1..Len(rows))
    BY DEF Awaiting, Numbers
  <2>. QED BY <2>1, <2>2, <2>3, <2>4, <2>5, <2>6
<1>2. CASE UNCHANGED rows
  BY <1>1, <1>2 DEF Kept
<1>3. ASSUME NEW p \in Procs
      PROVE  StepOK(proc[p])
  BY DEF Inv, ProcOK
<1>4. ASSUME NEW t \in Tokens, Index(t)
      PROVE  Kept(rows')
  BY <1>1, <1>2, <1>4, ApplyBoundTable DEF Index
<1>5. ASSUME NEW p \in Procs, Mark(p)
      PROVE  Kept(rows')
  <2>. DEFINE s == proc[p]
              i == IndexOf(s.row)
              new == [rows[i] EXCEPT !.attempts = IF @ = MaxAttempts THEN @ ELSE @ + 1,
                                     !.status = IF s.result = "retry" THEN @ ELSE s.result]
  <2>1. /\ s.row \in 1..Len(rows) /\ s.result \in {"retry", "done", "failed"}
        /\ rows' = Put(i, new)
    BY <1>3, <1>5 DEF Mark, At, StepOK
  <2>2. i \in 1..Len(rows) /\ rows[i] \in RowType /\ RowOK(rows[i])
    BY <1>1, <2>1, IndexOfNumber
  <2>. HIDE DEF i, s
  <2>3. new \in RowType
    <3>1. (IF rows[i].attempts = MaxAttempts THEN rows[i].attempts
                                             ELSE rows[i].attempts + 1) \in Nat
      BY <2>2 DEF RowType
    <3>2. (IF s.result = "retry" THEN rows[i].status ELSE s.result) \in Statuses
      BY <2>1, <2>2 DEF RowType, Statuses
    <3>. QED BY <2>2, <3>1, <3>2 DEF RowType
  <2>4. /\ new.no = rows[i].no /\ new.uri = rows[i].uri /\ new.token = rows[i].token
        /\ new.draft = rows[i].draft
        /\ new.status = IF s.result = "retry" THEN rows[i].status ELSE s.result
    BY <2>2 DEF RowType
  <2>5. RowOK(new) /\ (new.status \notin Open \/ rows[i].status \in Open)
    BY <2>1, <2>2, <2>4 DEF RowOK, Open
  <2>. HIDE DEF new
  <2>. QED BY <1>1, <2>1, <2>2, <2>3, <2>4, <2>5, PutKept
<1>6. ASSUME NEW p \in Procs, Pin(p)
      PROVE  Kept(rows')
  <2>. DEFINE s == proc[p]
              i == IndexOf(s.row)
              new == [rows[i] EXCEPT !.draft = s.draft, !.path = @ \/ s.path]
  <2>1. /\ s \in StepType /\ s.token \in Tokens
        /\ s.draft \in OriginsOf(UriOf[s.token]) \union {None}
        /\ s.row # 0 => <<s.row, UriOf[s.token]>> \in Ids(rows)
    BY <1>3, <1>6 DEF Pin, At, StepOK
  <2>2. rows' = IF s.row = 0 THEN Append(rows, NewRow(UriOf[s.token], None, s.draft, s.path))
                ELSE Put(i, new)
    BY <1>6 DEF Pin
  <2>3. CASE s.row = 0
    <3>. DEFINE row == NewRow(UriOf[s.token], None, s.draft, s.path)
    <3>1. row \in RowType /\ RowOK(row) /\ row.no = Len(rows) + 1 /\ row.token = None
      <4>1. s.path \in BOOLEAN
        BY <2>1 DEF StepType
      <4>. HIDE DEF s
      <4>. QED BY <1>1, <2>1, <4>1, NewRowOK
    <3>2. rows' = Append(rows, row)
      BY <2>2, <2>3
    <3>. HIDE DEF row
    <3>3. TableOK(rows') /\ Len(rows') = Len(rows) + 1 /\ Ids(rows) \subseteq Ids(rows')
      BY <1>1, <3>1, <3>2, AppendTable
    <3>4. /\ rows'[Len(rows) + 1] = row
          /\ \A j \in 1..Len(rows) : rows'[j] = rows[j]
      BY <1>1, <3>1, <3>2
    <3>5. ~Violates(rows')
      <4>. SUFFICES ASSUME NEW j \in 1..Len(rows'), NEW k \in 1..Len(rows'), j # k,
                           rows'[j].token # None, rows'[j].token = rows'[k].token,
                           rows'[j].status \in Open, rows'[k].status \in Open
                    PROVE  FALSE
        BY DEF Violates
      <4>1. j \in 1..Len(rows) /\ k \in 1..Len(rows)
        BY <1>1, <3>1, <3>3, <3>4
      <4>. QED BY <1>1, <3>4, <4>1 DEF Violates
    <3>. QED BY <1>1, <3>3, <3>5 DEF Kept
  <2>4. CASE s.row # 0
    <3>1. PICK j \in 1..Len(rows) : rows[j].no = s.row /\ rows[j].uri = UriOf[s.token]
      BY <2>1, <2>4 DEF Ids
    <3>2. i = j
      BY <1>1, <3>1 DEF IndexOf, TableOK
    <3>3. i \in 1..Len(rows) /\ rows[i] \in RowType /\ RowOK(rows[i])
          /\ rows[i].uri = UriOf[s.token] /\ s.path \in BOOLEAN
          /\ s.draft \in Drafts \union {None}
      BY <1>1, <2>1, <3>1, <3>2 DEF StepType
    <3>. HIDE DEF i, s
    <3>4. (rows[i].path \/ s.path) \in BOOLEAN
      BY <3>3 DEF RowType
    <3>5. new \in RowType
      BY <3>3, <3>4 DEF RowType
    <3>6. /\ new.no = rows[i].no /\ new.uri = rows[i].uri /\ new.token = rows[i].token
          /\ new.draft = s.draft /\ new.status = rows[i].status
      BY <3>3 DEF RowType
    <3>7. RowOK(new)
      BY <2>1, <3>3, <3>6 DEF RowOK
    <3>. HIDE DEF new
    <3>. QED BY <1>1, <2>2, <2>4, <3>3, <3>5, <3>6, <3>7, PutKept
  <2>. QED BY <2>3, <2>4
<1>7. ASSUME NEW p \in Procs, Bind(p)
      PROVE  Kept(rows')
  <2>1. PICK t \in mined, lost \in BOOLEAN, path \in BOOLEAN :
           BindTo(p, t, IF lost THEN None ELSE DraftOf[t], path)
    BY <1>7 DEF Bind
  <2>2. t \in Tokens /\ (IF lost THEN None ELSE DraftOf[t]) \in OriginsOf(UriOf[t]) \union {None}
    BY <2>1 DEF Inv, PageOK, OriginsOf
  <2>3. PICK i \in 1..Len(rows), row \in RowType :
           /\ RowOK(row) /\ row.no = rows[i].no /\ row.uri = rows[i].uri
           /\ rows' = rows \/ rows' = Put(i, row)
           /\ ~Violates(rows')
    BY <1>1, <2>1, <2>2, BindRow
  <2>4. CASE rows' = Put(i, row)
    BY <1>1, <2>3, <2>4, PutTable DEF Kept
  <2>. QED BY <1>2, <2>3, <2>4
<1>8. ASSUME NEW p \in Procs, Display(p)
      PROVE  Kept(rows')
  <2>1. PICK t \in mined, path \in BOOLEAN :
           LET draft == IF path THEN None ELSE DraftOf[t]
               recorded == Recorded(t, draft, Visible(draft, path))
           IN  rows' = IF Violates(recorded) THEN rows ELSE recorded
    BY <1>8 DEF Display
  <2>. DEFINE draft == IF path THEN None ELSE DraftOf[t]
              copy == Visible(draft, path)
              own == Numbers(LAMBDA r : r.token = t /\ r.status \in Open)
  <2>2. t \in Tokens /\ t # None /\ draft \in OriginsOf(UriOf[t]) \union {None} /\ copy \in BOOLEAN
    BY <2>1, VisibleType, IntentsAssumption DEF Inv, PageOK, OriginsOf, None
  <2>3. CASE Awaiting(t) # {}
    <3>. DEFINE i == Newest(Awaiting(t))
                row == Merged(rows[i], t, draft, copy)
    <3>1. rows' = rows \/ (rows' = Put(i, row) /\ ~Violates(rows'))
      BY <2>1, <2>3 DEF Recorded
    <3>2. i \in 1..Len(rows) /\ rows[i].uri = UriOf[t]
      <4>1. i \in Awaiting(t)
        BY <1>1, <2>3, NewestOf
      <4>. QED BY <1>1, <4>1 DEF Awaiting, Numbers
    <3>. HIDE DEF i, draft, copy
    <3>3. row \in RowType /\ RowOK(row) /\ row.no = rows[i].no /\ row.uri = rows[i].uri
      BY <1>1, <2>2, <3>2, MergedOK
    <3>. HIDE DEF row
    <3>. QED BY <1>1, <1>2, <3>1, <3>2, <3>3, PutTable DEF Kept
  <2>4. CASE Awaiting(t) = {} /\ own # {}
    <3>. DEFINE i == Latest(own)
                merged == Merged(rows[i], t, draft, copy)
                row == [merged EXCEPT !.uri = UriOf[t]]
    <3>1. rows' = rows \/ (rows' = Put(i, row) /\ ~Violates(rows'))
      BY <2>1, <2>4 DEF Recorded
    <3>2. i \in 1..Len(rows) /\ rows[i].token = t
      <4>1. own \in SUBSET (1..Len(rows))
        BY DEF Numbers
      <4>2. i \in own
        <5>. HIDE DEF own
        <5>. QED BY <1>1, <2>4, <4>1, LatestOf
      <4>. QED BY <4>1, <4>2 DEF Numbers
    <3>3. rows[i].uri = UriOf[t]
      BY <1>1, <2>2, <3>2 DEF RowOK
    <3>. HIDE DEF i, draft, copy
    <3>4. /\ merged \in RowType /\ RowOK(merged)
          /\ merged.no = rows[i].no /\ merged.uri = rows[i].uri
      BY <1>1, <2>2, <3>2, <3>3, MergedOK
    <3>. HIDE DEF merged
    <3>5. /\ row \in RowType /\ row.no = merged.no /\ row.uri = merged.uri
          /\ row.token = merged.token /\ row.status = merged.status /\ row.draft = merged.draft
      BY <3>3, <3>4 DEF RowType
    <3>6. RowOK(row)
      BY <3>4, <3>5 DEF RowOK
    <3>. HIDE DEF row
    <3>. QED BY <1>1, <1>2, <3>1, <3>2, <3>4, <3>5, <3>6, PutTable DEF Kept
  <2>5. CASE Awaiting(t) = {} /\ own = {}
    <3>. DEFINE row == NewRow(UriOf[t], t, draft, copy)
    <3>1. rows' = rows \/ (rows' = Append(rows, row) /\ ~Violates(rows'))
      BY <2>1, <2>5 DEF Recorded
    <3>2. row \in RowType /\ RowOK(row) /\ row.no = Len(rows) + 1
      <4>. HIDE DEF draft, copy
      <4>. QED BY <1>1, <2>2, NewRowOK
    <3>. HIDE DEF row
    <3>3. /\ TableOK(Append(rows, row)) /\ Len(Append(rows, row)) = Len(rows) + 1
          /\ Ids(rows) \subseteq Ids(Append(rows, row))
      BY <1>1, <3>2, AppendTable
    <3>4. CASE rows' = Append(rows, row) /\ ~Violates(rows')
      <4>1. TableOK(rows') /\ Len(rows) <= Len(rows') /\ Ids(rows) \subseteq Ids(rows')
        BY <1>1, <3>3, <3>4
      <4>. QED BY <3>4, <4>1 DEF Kept
    <3>. QED BY <1>2, <3>1, <3>4
  <2>. QED BY <2>3, <2>4, <2>5
<1>9. CASE StartCron
  <2>. DEFINE row(i) == IF rows[i].status = "awaiting_token" /\ rows[i].old
                          THEN [rows[i] EXCEPT !.status = "expired", !.quiet = FALSE]
                          ELSE rows[i]
  <2>1. rows' = [i \in 1..Len(rows) |-> row(i)]
    BY <1>9 DEF StartCron
  <2>2. ASSUME NEW i \in 1..Len(rows)
        PROVE  /\ row(i) \in RowType /\ row(i).no = rows[i].no /\ row(i).uri = rows[i].uri
               /\ RowOK(row(i)) /\ row(i).token = rows[i].token
               /\ row(i).status \in Open => rows[i].status \in Open
    <3>1. rows[i] \in RowType /\ RowOK(rows[i])
      BY <1>1
    <3>2. row(i) \in RowType
      BY <3>1 DEF RowType, Statuses
    <3>3. /\ row(i).no = rows[i].no /\ row(i).uri = rows[i].uri
          /\ row(i).token = rows[i].token /\ row(i).draft = rows[i].draft
          /\ row(i).status \in {rows[i].status, "expired"}
      BY <3>1 DEF RowType
    <3>. QED BY <3>1, <3>2, <3>3 DEF RowOK, Open
  <2>. HIDE DEF row
  <2>3. /\ rows' \in Seq(RowType) /\ Len(rows') = Len(rows)
        /\ \A i \in 1..Len(rows) : rows'[i] = row(i)
    BY <1>1, <2>1, <2>2
  <2>. QED BY <1>1, <2>2, <2>3, MapKept
<1>10. CASE CronBind
  <2>1. PICK entry \in cron.queue :
           LET i == IndexOf(entry[2].no)
               matches == {t \in indexed \ (shown \union aged) : UriOf[t] = rows[i].uri}
               taken(t) == Numbers(LAMBDA r : r.token = t /\ r.status \in Open) # {}
           IN  /\ Visits("bind", entry)
               /\ \/ UNCHANGED rows
                  \/ /\ rows[i].status = "awaiting_token"
                     /\ \E t \in matches :
                            rows' = Put(i, IF taken(t) THEN [rows[i] EXCEPT !.status = "noop"]
                                              ELSE [rows[i] EXCEPT !.token = t,
                                                                   !.status = "pending"])
    BY <1>10 DEF CronBind
  <2>. DEFINE i == IndexOf(entry[2].no)
              taken(t) == Numbers(LAMBDA r : r.token = t /\ r.status \in Open) # {}
  <2>2. i \in 1..Len(rows)
    BY <1>1, <2>1, IndexOfNumber DEF Inv, QueuesOK, ItemOK, Visits, CronIdle
  <2>3. ASSUME NEW t \in indexed, UriOf[t] = rows[i].uri, rows[i].status = "awaiting_token",
               rows' = Put(i, IF taken(t) THEN [rows[i] EXCEPT !.status = "noop"]
                              ELSE [rows[i] EXCEPT !.token = t, !.status = "pending"])
        PROVE  Kept(rows')
    <3>. HIDE DEF i
    <3>1. rows[i] \in RowType /\ RowOK(rows[i]) /\ t \in Tokens /\ t # None
      BY <1>1, <2>2, IntentsAssumption DEF Inv, PageOK, None
    <3>2. CASE taken(t)
      <4>. DEFINE row == [rows[i] EXCEPT !.status = "noop"]
      <4>1. row \in RowType
        BY <3>1 DEF RowType, Statuses
      <4>2. /\ row.no = rows[i].no /\ row.uri = rows[i].uri /\ row.status = "noop"
            /\ row.token = rows[i].token /\ row.draft = rows[i].draft
        BY <3>1 DEF RowType
      <4>3. RowOK(row) /\ row.status \notin Open
        BY <3>1, <4>2 DEF RowOK, Open
      <4>4. rows' = Put(i, row)
        BY <2>3, <3>2
      <4>. HIDE DEF row
      <4>. QED BY <1>1, <2>2, <4>1, <4>2, <4>3, <4>4, PutKept
    <3>3. CASE ~taken(t)
      <4>. DEFINE row == [rows[i] EXCEPT !.token = t, !.status = "pending"]
      <4>1. row \in RowType
        BY <3>1 DEF RowType, Statuses
      <4>2. /\ row.no = rows[i].no /\ row.uri = rows[i].uri /\ row.status = "pending"
            /\ row.token = t /\ row.draft = rows[i].draft
        BY <3>1 DEF RowType
      <4>3. RowOK(row)
        BY <2>3, <3>1, <4>2 DEF RowOK
      <4>4. \A k \in 1..Len(rows) : rows[k].token = t => rows[k].status \notin Open
        BY <3>3 DEF Numbers
      <4>5. rows' = Put(i, row)
        BY <2>3, <3>3
      <4>. HIDE DEF row, taken
      <4>. QED BY <1>1, <2>2, <4>1, <4>2, <4>3, <4>4, <4>5, PutKept
    <3>. QED BY <3>2, <3>3
  <2>. QED BY <1>2, <2>1, <2>3
<1>11. CASE Lapse
  <2>. DEFINE row(i) == [rows[i] EXCEPT !.old = TRUE, !.quiet = TRUE]
  <2>1. rows' = [i \in 1..Len(rows) |-> row(i)]
    BY <1>11 DEF Lapse
  <2>2. ASSUME NEW i \in 1..Len(rows)
        PROVE  /\ row(i) \in RowType /\ row(i).no = rows[i].no /\ row(i).uri = rows[i].uri
               /\ RowOK(row(i)) /\ row(i).token = rows[i].token
               /\ row(i).status \in Open => rows[i].status \in Open
    <3>1. rows[i] \in RowType /\ RowOK(rows[i])
      BY <1>1
    <3>2. row(i) \in RowType
      BY <3>1 DEF RowType
    <3>3. /\ row(i).no = rows[i].no /\ row(i).uri = rows[i].uri
          /\ row(i).token = rows[i].token /\ row(i).draft = rows[i].draft
          /\ row(i).status = rows[i].status
      BY <3>1 DEF RowType
    <3>. QED BY <3>1, <3>2, <3>3 DEF RowOK
  <2>. HIDE DEF row
  <2>3. /\ rows' \in Seq(RowType) /\ Len(rows') = Len(rows)
        /\ \A i \in 1..Len(rows) : rows'[i] = row(i)
    BY <1>1, <2>1, <2>2
  <2>. QED BY <1>1, <2>2, <2>3, MapKept
<1>. QED
  BY <1>2, <1>4, <1>5, <1>6, <1>7, <1>8, <1>9, <1>10, <1>11
     DEF Next, vars, Mine, StartPin, Activate, Continue, Read, Apply, UpsertNews,
         LinkNews, SettleNews, Bound, Die, Cron, ListPending, CronIntent, ListOrphans,
         CronOrphan, ListGaps, CronHeal, EndCron, StartSweep, Sweep

-----------------------------------------------------------------------------
(* What the steps write about a token's article. *)

OwnDrafts(t) == NewsDrafts \intersect OriginsOf(UriOf[t])

(* A write of a token's news intent, and of its link.                      *)
NewsWrite(t) ==
    \E intent \in NewsType :
        /\ news' = [news EXCEPT ![t] = intent]
        /\ intent.status # None /\ intent.draft \in OwnDrafts(t)
        /\ intent.status = "done" => link'[t] # None

LinkWrite(t) ==
    \/ link' = link
    \/ link[t] = None /\ \E d \in OwnDrafts(t) : link' = [link EXCEPT ![t] = d]

(* An upserted news intent has the given draft; done only if linked.       *)
LEMMA UpsertedOK ==
    ASSUME Inv, NEW t \in Tokens, NEW d \in OwnDrafts(t)
    PROVE  /\ Upserted(t, d) \in NewsType /\ Upserted(t, d).draft = d
           /\ Upserted(t, d).status \in {"pending", "done"}
           /\ Upserted(t, d).status = "done" => link[t] # None
<1>1. news[t] \in NewsType /\ d \in NewsDrafts
  BY DEF Inv, NewsOK, OwnDrafts
<1>2. Upserted(t, d) \in NewsType
  BY <1>1 DEF Upserted, NewsType
<1>3. /\ Upserted(t, d).draft = d
      /\ Upserted(t, d).status = IF news[t].status = "done" \/ link[t] # None
                                   THEN "done" ELSE "pending"
  BY <1>1 DEF Upserted, NewsType
<1>. QED BY <1>2, <1>3 DEF Inv, NewsDoneIsLinked

(* A counted attempt keeps the draft, and never makes an intent done.      *)
LEMMA BumpedOK ==
    ASSUME NEW intent \in NewsType
    PROVE  /\ Bumped(intent) \in NewsType /\ Bumped(intent).draft = intent.draft
           /\ Bumped(intent).status \in {intent.status, "failed"}
<1>. DEFINE n == intent.attempts + 1
            attempts == IF n > NewsMaxAttempts THEN NewsMaxAttempts ELSE n
            status == IF n >= NewsMaxAttempts THEN "failed" ELSE intent.status
<1>1. attempts \in Nat /\ status \in {intent.status, "failed"}
  BY IntentsAssumption DEF NewsType
<1>2. Bumped(intent) = [intent EXCEPT !.attempts = attempts, !.status = status,
                                      !.quiet = FALSE]
  BY DEF Bumped
<1>. HIDE DEF attempts, status
<1>3. Bumped(intent) \in NewsType
  BY <1>1, <1>2 DEF NewsType
<1>4. Bumped(intent).draft = intent.draft /\ Bumped(intent).status = status
  BY <1>2 DEF NewsType
<1>. QED BY <1>1, <1>3, <1>4

(* Linking takes the token's first draft.                                  *)
LEMMA LinkedOK ==
    ASSUME Inv, NEW t \in Tokens, NEW d \in OwnDrafts(t), link' = Linked(t, d)
    PROVE  LinkWrite(t) /\ link'[t] # None
<1>1. d # None
  BY IntentsAssumption DEF OwnDrafts, None
<1>2. link \in [Tokens -> NewsDrafts \union {None}]
  BY DEF Inv, PageOK
<1>. QED BY <1>1, <1>2 DEF Linked, LinkWrite

(* The transaction's write of the article is one of the above.             *)
LEMMA EnsureNewsOK ==
    ASSUME Inv, NEW t \in Tokens, NEW draft \in OriginsOf(UriOf[t]) \union {None},
           NEW launched, EnsureNews(t, draft, launched)
    PROVE  LinkWrite(t) /\ (news' = news \/ NewsWrite(t))
<1>1. CASE draft \notin NewsDrafts \/ Refused(t, draft)
  BY <1>1 DEF EnsureNews, LinkWrite
<1>2. CASE ~(draft \notin NewsDrafts \/ Refused(t, draft))
  <2>. DEFINE intent == Upserted(t, draft)
              done == intent.status = "done" \/ launched
  <2>1. /\ news' = [news EXCEPT ![t] = IF done THEN [intent EXCEPT !.status = "done"]
                                              ELSE Bumped(intent)]
        /\ link' = IF launched /\ intent.status # "done" THEN Linked(t, draft) ELSE link
    BY <1>2 DEF EnsureNews
  <2>2. draft \in OwnDrafts(t)
    BY <1>2, IntentsAssumption DEF OwnDrafts, None
  <2>3. /\ intent \in NewsType /\ intent.draft = draft
        /\ intent.status \in {"pending", "done"}
        /\ intent.status = "done" => link[t] # None
    BY <2>2, UpsertedOK
  <2>4. LinkWrite(t) /\ (done => link'[t] # None)
    BY <2>1, <2>2, <2>3, LinkedOK DEF LinkWrite
  <2>5. CASE done
    <3>1. /\ [intent EXCEPT !.status = "done"] \in NewsType
          /\ [intent EXCEPT !.status = "done"].draft = draft
          /\ [intent EXCEPT !.status = "done"].status = "done"
      BY <2>3 DEF NewsType
    <3>. QED BY <2>1, <2>2, <2>4, <2>5, <3>1, IntentsAssumption DEF NewsWrite, None
  <2>6. CASE ~done
    <3>. HIDE DEF intent
    <3>1. /\ Bumped(intent) \in NewsType /\ Bumped(intent).draft = draft
          /\ Bumped(intent).status \in {"pending", "failed"}
      BY <2>3, <2>6, BumpedOK
    <3>2. news' = [news EXCEPT ![t] = Bumped(intent)]
      BY <2>1, <2>6
    <3>. QED BY <2>2, <2>4, <3>1, <3>2 DEF NewsWrite, None
  <2>. QED BY <2>4, <2>5, <2>6
<1>. QED BY <1>1, <1>2

(* What a step does to the page of a token.                                *)
Move(t) ==
    /\ indexed' \in {indexed, indexed \union {t}} /\ t \in mined /\ t \in indexed'
    /\ shown' \in {shown, shown \union {t}}
    /\ LinkWrite(t) /\ (news' = news \/ NewsWrite(t))

(* Indexing a launch moves the page of its token only,                     *)
LEMMA IndexMoves ==
    ASSUME Inv, NEW t \in Tokens, Index(t)
    PROVE  Move(t)
<1>1. t \in mined /\ indexed' = indexed \union {t}
  BY DEF Index
<1>2. PICK launched \in BOOLEAN : ApplyBound(t, launched)
  BY DEF Index
<1>3. CASE UNCHANGED <<shown, link, rows, news>>
  BY <1>1, <1>3 DEF Move, LinkWrite
<1>4. CASE /\ shown' = shown \union {t}
           /\ \E draft \in OriginsOf(UriOf[t]) \union {None} : EnsureNews(t, draft, launched)
  BY <1>1, <1>4, EnsureNewsOK DEF Move
<1>. QED BY <1>2, <1>3, <1>4, ApplyBoundTable DEF Inv

(* so does the display image,                                              *)
LEMMA ApplyMoves ==
    ASSUME Inv, NEW p \in Procs, Apply(p)
    PROVE  proc[p].token \in indexed /\ Move(proc[p].token)
<1>1. proc[p].token \in indexed
  BY DEF Inv, ProcOK, StepOK, Apply, At
<1>. QED BY <1>1 DEF Inv, PageOK, Apply, Move, LinkWrite

(* and so does a link, which leaves the token linked.                      *)
LEMMA LinkNewsMoves ==
    ASSUME Inv, NEW p \in Procs, LinkNews(p)
    PROVE  \/ UNCHANGED <<indexed, shown, link, news>>
           \/ /\ Move(proc[p].token) /\ proc[p].token \in indexed
              /\ UNCHANGED <<indexed, shown, news>> /\ link'[proc[p].token] # None
<1>. DEFINE s == proc[p]
<1>1. s.token \in Tokens /\ s.draft \in OwnDrafts(s.token)
  BY IntentsAssumption DEF Inv, ProcOK, StepOK, LinkNews, At, OwnDrafts, None
<1>2. CASE s.token \in indexed
  <2>1. link' = Linked(s.token, s.draft) /\ UNCHANGED <<indexed, shown, news>>
    BY <1>2 DEF LinkNews
  <2>2. LinkWrite(s.token) /\ link'[s.token] # None
    <3>. HIDE DEF s
    <3>. QED BY <1>1, <2>1, LinkedOK
  <2>. QED BY <1>2, <2>1, <2>2 DEF Move, Inv, PageOK
<1>3. CASE s.token \notin indexed
  BY <1>3 DEF LinkNews
<1>. QED BY <1>2, <1>3

(* Upserting a news intent writes only the token's intent,                 *)
LEMMA UpsertNewsMoves ==
    ASSUME Inv, NEW p \in Procs, UpsertNews(p)
    PROVE  /\ UNCHANGED <<indexed, shown, link>> /\ proc[p].token \in Tokens
           /\ news' = news \/ NewsWrite(proc[p].token)
<1>. DEFINE s == proc[p]
            intent == Upserted(s.token, s.draft)
<1>1. s.token \in Tokens /\ s.draft \in OwnDrafts(s.token)
  BY IntentsAssumption DEF Inv, ProcOK, StepOK, UpsertNews, At, OwnDrafts, None
<1>2. /\ UNCHANGED <<indexed, shown, link>>
      /\ news' = news \/ news' = [news EXCEPT ![s.token] = intent]
  BY DEF UpsertNews, pageVars
<1>3. /\ intent \in NewsType /\ intent.draft = s.draft
      /\ intent.status \in {"pending", "done"}
      /\ intent.status = "done" => link[s.token] # None
  BY <1>1, UpsertedOK
<1>. HIDE DEF intent
<1>. QED BY <1>1, <1>2, <1>3 DEF NewsWrite, None

(* and so does settling it.                                                *)
LEMMA SettleNewsMoves ==
    ASSUME Inv, NEW p \in Procs, SettleNews(p)
    PROVE  /\ UNCHANGED <<indexed, shown, link>> /\ proc[p].token \in Tokens
           /\ NewsWrite(proc[p].token)
<1>. DEFINE s == proc[p]
            old == news[s.token]
<1>1. s.token \in Tokens /\ old.status # None /\ (s.result = "done" => link[s.token] # None)
  BY DEF Inv, ProcOK, StepOK, SettleNews, At
<1>2. /\ old \in NewsType /\ old.draft \in OwnDrafts(s.token)
      /\ old.status = "done" => link[s.token] # None
  BY <1>1 DEF Inv, NewsOK, OwnDrafts, NewsDoneIsLinked
<1>3. UNCHANGED <<indexed, shown, link>>
  BY DEF SettleNews, pageVars
<1>4. CASE s.result = "done"
  <2>1. news' = [news EXCEPT ![s.token] = [old EXCEPT !.status = "done", !.quiet = FALSE]]
    BY <1>4 DEF SettleNews
  <2>2. /\ [old EXCEPT !.status = "done", !.quiet = FALSE] \in NewsType
        /\ [old EXCEPT !.status = "done", !.quiet = FALSE].draft = old.draft
        /\ [old EXCEPT !.status = "done", !.quiet = FALSE].status = "done"
    BY <1>2 DEF NewsType
  <2>. HIDE DEF s, old
  <2>. QED BY <1>1, <1>2, <1>3, <1>4, <2>1, <2>2 DEF NewsWrite, None, s
<1>5. CASE s.result # "done"
  <2>1. news' = [news EXCEPT ![s.token] = Bumped(old)]
    BY <1>5 DEF SettleNews
  <2>2. /\ Bumped(old) \in NewsType /\ Bumped(old).draft = old.draft
        /\ Bumped(old).status \in {old.status, "failed"}
    BY <1>2, BumpedOK
  <2>. HIDE DEF old
  <2>. QED BY <1>1, <1>2, <1>3, <2>1, <2>2 DEF NewsWrite, None
<1>. QED BY <1>4, <1>5

(* What was true of a read stays true.                                     *)
Grows ==
    /\ Len(rows) <= Len(rows') /\ Ids(rows) \subseteq Ids(rows')
    /\ indexed \subseteq indexed'
    /\ \A t \in Tokens : /\ link[t] # None => link'[t] # None
                         /\ news[t].status # None => news'[t].status # None

NewsMoves ==
    /\ link' \in [Tokens -> NewsDrafts \union {None}]
    /\ \A t \in Tokens : link'[t] \in OriginsOf(UriOf[t]) \union {None}
    /\ NewsOK' /\ NewsDoneIsLinked'
    /\ \A t \in Tokens : /\ link[t] # None => link'[t] # None
                         /\ news[t].status # None => news'[t].status # None

(* Writes of one token's article keep all articles well formed.            *)
LEMMA WritesMoveNews ==
    ASSUME Inv, NEW t \in Tokens, LinkWrite(t), news' = news \/ NewsWrite(t)
    PROVE  NewsMoves
<1>1. /\ link \in [Tokens -> NewsDrafts \union {None}]
      /\ \A u \in Tokens : link[u] \in OriginsOf(UriOf[u]) \union {None}
      /\ news \in [Tokens -> NewsType]
      /\ \A u \in Tokens : news[u].status # None => news[u].draft \in OwnDrafts(u)
      /\ \A u \in Tokens : news[u].status = "done" => link[u] # None
  BY DEF Inv, PageOK, NewsOK, NewsDoneIsLinked, OwnDrafts
<1>2. /\ link' \in [Tokens -> NewsDrafts \union {None}]
      /\ \A u \in Tokens : link'[u] \in OriginsOf(UriOf[u]) \union {None}
      /\ \A u \in Tokens : link[u] # None => link'[u] # None
  <2>1. CASE link' = link
    BY <1>1, <2>1
  <2>2. CASE link[t] = None /\ \E d \in OwnDrafts(t) : link' = [link EXCEPT ![t] = d]
    BY <1>1, <2>2, IntentsAssumption DEF OwnDrafts, None
  <2>. QED BY <2>1, <2>2 DEF LinkWrite
<1>3. CASE news' = news
  BY <1>1, <1>2, <1>3 DEF NewsMoves, NewsOK, NewsDoneIsLinked, OwnDrafts
<1>4. CASE NewsWrite(t)
  <2>1. PICK intent \in NewsType :
          /\ news' = [news EXCEPT ![t] = intent]
          /\ intent.status # None /\ intent.draft \in OwnDrafts(t)
          /\ intent.status = "done" => link'[t] # None
    BY <1>4 DEF NewsWrite
  <2>2. news' \in [Tokens -> NewsType]
    BY <1>1, <2>1
  <2>3. ASSUME NEW u \in Tokens
        PROVE  /\ news[u].status # None => news'[u].status # None
               /\ news'[u].status # None => news'[u].draft \in OwnDrafts(u)
               /\ news'[u].status = "done" => link'[u] # None
    <3>1. CASE u = t
      BY <1>1, <2>1, <3>1
    <3>2. CASE u # t
      BY <1>1, <1>2, <2>1, <3>2
    <3>. QED BY <3>1, <3>2
  <2>. QED BY <1>2, <2>2, <2>3 DEF NewsMoves, NewsOK, NewsDoneIsLinked, OwnDrafts
<1>. QED BY <1>3, <1>4

(* Closing or aging intents changes no draft.                              *)
LEMMA SweepMovesNews ==
    ASSUME Inv, link' = link, news' \in [Tokens -> NewsType],
           \A t \in Tokens : /\ news'[t].draft = news[t].draft
                             /\ news'[t].status \in {news[t].status, "expired"}
                             /\ news'[t].status # None <=> news[t].status # None
    PROVE  NewsMoves
BY DEF Inv, PageOK, NewsOK, NewsDoneIsLinked, NewsMoves

(* Every step keeps the pages well formed and what was read of them.       *)
LEMMA PageStep == Inv /\ [Next]_vars => PageOK' /\ NewsOK' /\ NewsDoneIsLinked' /\ Grows
<1>. SUFFICES ASSUME Inv, [Next]_vars
              PROVE  PageOK' /\ NewsOK' /\ NewsDoneIsLinked' /\ Grows
  OBVIOUS
<1>1. SUFFICES /\ NewsMoves /\ indexed \subseteq indexed' /\ shown' \subseteq indexed'
               /\ indexed' \subseteq mined' /\ aged' \subseteq mined' /\ mined' \subseteq Tokens
  BY <1>1, TableStep DEF Kept, PageOK, Grows, NewsMoves
<1>. USE DEF Inv, PageOK
<1>2. ASSUME UNCHANGED <<link, news>>
      PROVE  NewsMoves
  BY <1>2 DEF NewsMoves, NewsOK, NewsDoneIsLinked
<1>3. ASSUME NEW t \in Tokens, Move(t), UNCHANGED <<mined, aged>>
      PROVE  /\ NewsMoves /\ indexed \subseteq indexed' /\ shown' \subseteq indexed'
             /\ indexed' \subseteq mined' /\ aged' \subseteq mined' /\ mined' \subseteq Tokens
  <2>1. NewsMoves
    BY <1>3, WritesMoveNews DEF Move
  <2>. QED BY <1>3, <2>1 DEF Move
<1>4. CASE \E t \in Tokens : Mine(t)
  BY <1>2, <1>4 DEF Mine, pageVars
<1>5. CASE \E t \in Tokens : Index(t)
  BY <1>3, <1>5, IndexMoves DEF Index
<1>6. CASE \E p \in Procs : Apply(p)
  BY <1>3, <1>6, ApplyMoves DEF Apply
<1>7. CASE \E p \in Procs : LinkNews(p)
  <2>1. PICK p \in Procs : LinkNews(p)
    BY <1>7
  <2>2. UNCHANGED <<mined, aged>>
    BY <2>1 DEF LinkNews
  <2>3. CASE UNCHANGED <<indexed, shown, link, news>>
    BY <1>2, <2>2, <2>3
  <2>4. CASE Move(proc[p].token) /\ proc[p].token \in indexed
    BY <1>3, <2>2, <2>4
  <2>. QED BY <2>1, <2>3, <2>4, LinkNewsMoves
<1>8. CASE \E p \in Procs : UpsertNews(p)
  <2>1. PICK p \in Procs : UpsertNews(p)
    BY <1>8
  <2>2. /\ UNCHANGED <<indexed, shown, link>> /\ proc[p].token \in Tokens
        /\ news' = news \/ NewsWrite(proc[p].token)
    BY <2>1, UpsertNewsMoves
  <2>3. NewsMoves
    BY <2>2, WritesMoveNews DEF LinkWrite
  <2>. QED BY <2>1, <2>2, <2>3 DEF UpsertNews
<1>9. CASE \E p \in Procs : SettleNews(p)
  <2>1. PICK p \in Procs : SettleNews(p)
    BY <1>9
  <2>2. /\ UNCHANGED <<indexed, shown, link>> /\ proc[p].token \in Tokens
        /\ NewsWrite(proc[p].token)
    BY <2>1, SettleNewsMoves
  <2>3. NewsMoves
    BY <2>2, WritesMoveNews DEF LinkWrite
  <2>. QED BY <2>1, <2>2, <2>3 DEF SettleNews
<1>10. CASE StartSweep
  <2>1. news' = [t \in Tokens |->
                   IF news[t].status = "pending" /\ news[t].quiet
                   THEN [news[t] EXCEPT !.status = "expired", !.quiet = FALSE] ELSE news[t]]
    BY <1>10 DEF StartSweep
  <2>2. \A t \in Tokens : news[t] \in NewsType
    BY DEF NewsOK
  <2>3. /\ news' \in [Tokens -> NewsType]
        /\ \A t \in Tokens : /\ news'[t].draft = news[t].draft
                             /\ news'[t].status \in {news[t].status, "expired"}
                             /\ news'[t].status # None <=> news[t].status # None
    BY <2>1, <2>2 DEF NewsType, None
  <2>4. NewsMoves
    BY <1>10, <2>3, SweepMovesNews DEF StartSweep, pageVars
  <2>. QED BY <1>10, <2>4 DEF StartSweep, pageVars
<1>11. CASE Lapse
  <2>1. news' = [t \in Tokens |-> [news[t] EXCEPT !.quiet = news[t] # NoIntent]]
    BY <1>11 DEF Lapse
  <2>2. \A t \in Tokens : news[t] \in NewsType /\ (news[t] # NoIntent) \in BOOLEAN
    BY DEF NewsOK
  <2>3. /\ news' \in [Tokens -> NewsType]
        /\ \A t \in Tokens : /\ news'[t].draft = news[t].draft
                             /\ news'[t].status = news[t].status
    BY <2>1, <2>2 DEF NewsType
  <2>4. NewsMoves
    BY <1>11, <2>3, SweepMovesNews DEF Lapse, pageVars
  <2>. QED BY <1>11, <2>4 DEF Lapse, pageVars
<1>12. \/ \E t \in Tokens : Mine(t) \/ Index(t)
       \/ \E p \in Procs : Apply(p) \/ LinkNews(p) \/ UpsertNews(p) \/ SettleNews(p)
       \/ StartSweep \/ Lapse
       \/ UNCHANGED <<mined, aged, indexed, shown, link, news>>
  BY ZenonT(30) DEF Next, vars, pageVars, CronVars, StartPin, Bind, Display, Activate, Continue, Read,
         Mark, Pin, Bound, Die, Cron, StartCron, CronBind, ListPending, CronIntent,
         ListOrphans, CronOrphan, ListGaps, CronHeal, EndCron, Sweep
<1>. QED BY <1>2, <1>4, <1>5, <1>6, <1>7, <1>8, <1>9, <1>10, <1>11, <1>12

-----------------------------------------------------------------------------
(* The processes. *)

(* What a process has read stays true while the tables grow.               *)
LEMMA StepsGrow ==
    ASSUME TableOK(rows), TableOK(rows'), Grows, NEW s, StepOK(s)
    PROVE  StepOK(s)'
<1>1. Len(rows) \in Nat /\ Len(rows') \in Nat
  BY DEF TableOK
<1>. QED BY <1>1 DEF Grows, StepOK

(* An idle process relies on nothing.                                      *)
LEMMA IdleOK == StepOK(Idle)
BY DEF Idle, StepOK, StepType

(* Going on to the article keeps token and draft,                          *)
LEMMA ToNewsOK ==
    ASSUME NEW s, StepOK(s), s.pc # "idle"
    PROVE  StepOK(ToNews(s))
<1>1. CASE s.draft \in NewsDrafts
  <2>. DEFINE n == [s EXCEPT !.pc = "news"]
  <2>1. n \in StepType
    BY DEF StepOK, StepType
  <2>2. n.pc = "news" /\ n.token = s.token /\ n.draft = s.draft
    BY DEF StepOK, StepType
  <2>3. ToNews(s) = n
    BY <1>1 DEF ToNews
  <2>. HIDE DEF n
  <2>. QED BY <1>1, <2>1, <2>2, <2>3 DEF StepOK
<1>2. CASE s.draft \notin NewsDrafts
  BY <1>2, IdleOK DEF ToNews
<1>. QED BY <1>1, <1>2

(* so does the bind route's second round,                                  *)
LEMMA AfterNewsOK ==
    ASSUME NEW s, StepOK(s), s.pc \in {"news", "link", "settle"}
    PROVE  StepOK(AfterNews(s))
<1>1. CASE s.kind = "bind"
  <2>. DEFINE n == [s EXCEPT !.pc = "news", !.kind = "again"]
  <2>1. n \in StepType
    BY DEF StepOK, StepType
  <2>2. n.pc = "news" /\ n.token = s.token /\ n.draft = s.draft
    BY DEF StepOK, StepType
  <2>3. AfterNews(s) = n
    BY <1>1 DEF AfterNews
  <2>. HIDE DEF n
  <2>. QED BY <2>1, <2>2, <2>3 DEF StepOK
<1>2. CASE s.kind # "bind"
  BY <1>2, IdleOK DEF AfterNews
<1>. QED BY <1>1, <1>2

(* and so does what follows a finalization.                                *)
LEMMA FinishedOK ==
    ASSUME NEW s, StepOK(s), s.pc \in {"read", "apply"},
           NEW result \in {"retry", "done", "failed"}
    PROVE  StepOK(Finished(s, result))
<1>1. CASE s.kind \in {"intent", "bind"}
  <2>. DEFINE n == [s EXCEPT !.pc = "mark", !.result = result]
  <2>1. n \in StepType
    BY DEF StepOK, StepType, Statuses
  <2>2. /\ n.pc = "mark" /\ n.token = s.token /\ n.draft = s.draft /\ n.kind = s.kind
        /\ n.row = s.row /\ n.result = result
    BY DEF StepOK, StepType
  <2>3. Finished(s, result) = n
    BY <1>1 DEF Finished
  <2>. HIDE DEF n
  <2>. QED BY <1>1, <2>1, <2>2, <2>3 DEF StepOK
<1>2. CASE s.kind = "orphan" /\ result = "done"
  BY <1>2, ToNewsOK DEF Finished
<1>3. CASE ~(s.kind \in {"intent", "bind"}) /\ ~(s.kind = "orphan" /\ result = "done")
  BY <1>3, IdleOK DEF Finished
<1>. QED BY <1>1, <1>2, <1>3

(* One process moves on.                                                   *)
LEMMA OneMoves ==
    ASSUME Inv, TableOK(rows'), Grows, NEW p \in Procs, NEW n, Go(p, n), StepOK(n)'
    PROVE  ProcOK'
<1>1. DOMAIN proc' = Procs /\ proc'[p] = n
      /\ \A q \in Procs : q # p => proc'[q] = proc[q]
  BY DEF Inv, ProcOK, Go
<1>2. ASSUME NEW q \in Procs, NEW s, s = proc'[q]
      PROVE  StepOK(s)'
  <2>1. CASE q = p
    BY <1>1, <1>2, <2>1
  <2>2. CASE q # p
    BY <1>1, <1>2, <2>2, StepsGrow DEF Inv, ProcOK
  <2>. QED BY <2>1, <2>2
<1>. QED BY <1>1, <1>2 DEF ProcOK, StepOK

(* None does.                                                              *)
LEMMA NoneMoves ==
    ASSUME Inv, TableOK(rows'), Grows, proc' = proc
    PROVE  ProcOK'
<1>1. ASSUME NEW q \in Procs, NEW s, s = proc'[q]
      PROVE  StepOK(s)'
  BY <1>1, StepsGrow DEF Inv, ProcOK
<1>. QED BY <1>1 DEF ProcOK, StepOK, Inv

(* One process moves on, to what it may rely on already.                   *)
LEMMA Moves ==
    ASSUME Inv, TableOK(rows'), Grows, NEW p \in Procs, NEW n, Go(p, n), StepOK(n)
    PROVE  ProcOK'
<1>1. StepOK(n)'
  BY StepsGrow DEF Inv
<1>. QED BY <1>1, OneMoves

(* finalizeTokenDisplayImage, its read.                                    *)
LEMMA ReadOK ==
    ASSUME Inv, NEW p \in Procs, Read(p)
    PROVE  \E n : Go(p, n) /\ StepOK(n)
<1>. DEFINE s == proc[p]
            n == [s EXCEPT !.pc = "apply"]
<1>1. StepOK(s) /\ s.pc = "read"
  BY DEF Inv, ProcOK, Read, At
<1>2. \/ \E result \in {"retry", "done", "failed"} : Go(p, Finished(s, result))
      \/ Go(p, n) /\ s.token \in indexed
  BY DEF Read
<1>3. ASSUME s.token \in indexed PROVE StepOK(n)
  <2>1. n \in StepType
    BY <1>1 DEF StepOK, StepType
  <2>2. n.pc = "apply" /\ n.token = s.token /\ n.draft = s.draft /\ n.kind = s.kind
        /\ n.row = s.row
    BY <1>1 DEF StepOK, StepType
  <2>. HIDE DEF n
  <2>. QED BY <1>1, <1>3, <2>1, <2>2 DEF StepOK
<1>. HIDE DEF n, s
<1>. QED BY <1>1, <1>2, <1>3, FinishedOK

(* bindAndFinalizeTokenDisplayImage, what it does with the bound intent.   *)
LEMMA BoundOK ==
    ASSUME Inv, NEW p \in Procs, Bound(p)
    PROVE  \E n : Go(p, n) /\ StepOK(n)
<1>. DEFINE s == proc[p]
            mark == [s EXCEPT !.pc = "mark", !.result = "done"]
            apply == [s EXCEPT !.pc = "apply"]
<1>1. StepOK(s) /\ s.pc = "bound" /\ s.kind = "bind"
  BY DEF Inv, ProcOK, Bound, At, StepOK
<1>2. \/ Go(p, mark) \/ Go(p, ToNews(s)) \/ Go(p, Idle)
      \/ Go(p, apply) /\ s.token \in indexed
  <2>1. s.path \in BOOLEAN
    BY <1>1 DEF StepOK, StepType
  <2>. QED BY <2>1 DEF Bound
<1>3. StepOK(mark)
  <2>1. mark \in StepType
    BY <1>1 DEF StepOK, StepType, Statuses
  <2>2. /\ mark.pc = "mark" /\ mark.token = s.token /\ mark.draft = s.draft
        /\ mark.kind = s.kind /\ mark.row = s.row /\ mark.result = "done"
    BY <1>1 DEF StepOK, StepType
  <2>. HIDE DEF mark
  <2>. QED BY <1>1, <2>1, <2>2 DEF StepOK
<1>4. ASSUME s.token \in indexed PROVE StepOK(apply)
  <2>1. apply \in StepType
    BY <1>1 DEF StepOK, StepType
  <2>2. /\ apply.pc = "apply" /\ apply.token = s.token /\ apply.draft = s.draft
        /\ apply.kind = s.kind /\ apply.row = s.row
    BY <1>1 DEF StepOK, StepType
  <2>. HIDE DEF apply
  <2>. QED BY <1>1, <1>4, <2>1, <2>2 DEF StepOK
<1>. HIDE DEF mark, apply, s
<1>. QED BY <1>1, <1>2, <1>3, <1>4, ToNewsOK, IdleOK

(* A request of the browser begins with an image that is not launched yet. *)
LEMMA StartPinOK ==
    ASSUME Inv, NEW p \in Procs, StartPin(p)
    PROVE  \E n : Go(p, n) /\ StepOK(n)
<1>1. PICK t \in Tokens \ mined, path \in BOOLEAN :
         LET open == Numbers(LAMBDA r : r.uri = UriOf[t] /\ r.status \in Open)
         IN  Go(p, [Idle EXCEPT !.pc = "pin", !.token = t, !.draft = DraftOf[t],
                                !.path = Visible(DraftOf[t], path),
                                !.row = IF open = {} THEN 0 ELSE rows[Newest(open)].no])
  BY DEF StartPin
<1>. DEFINE open == Numbers(LAMBDA r : r.uri = UriOf[t] /\ r.status \in Open)
            row == IF open = {} THEN 0 ELSE rows[Newest(open)].no
            n == [Idle EXCEPT !.pc = "pin", !.token = t, !.draft = DraftOf[t],
                              !.path = Visible(DraftOf[t], path), !.row = row]
<1>2. Go(p, n)
  BY <1>1
<1>3. row \in Nat /\ (row # 0 => <<row, UriOf[t]>> \in Ids(rows))
  <2>1. CASE open = {}
    BY <2>1
  <2>2. CASE open # {}
    <3>. DEFINE i == Newest(open)
    <3>1. open \in SUBSET (1..Len(rows))
      BY DEF Numbers
    <3>2. i \in open
      <4>. HIDE DEF open
      <4>. QED BY <2>2, <3>1, NewestOf DEF Inv
    <3>3. i \in 1..Len(rows) /\ rows[i].uri = UriOf[t]
      BY <3>2 DEF Numbers
    <3>4. row = rows[i].no
      BY <2>2
    <3>. HIDE DEF i, open, row
    <3>5. rows[i].no \in Nat
      <4>1. rows[i] \in RowType
        BY <3>3 DEF Inv, TableOK
      <4>. QED BY <4>1 DEF RowType
    <3>. QED BY <3>3, <3>4, <3>5 DEF Ids
  <2>. QED BY <2>1, <2>2
<1>. HIDE DEF row
<1>4. Visible(DraftOf[t], path) \in BOOLEAN /\ DraftOf[t] \in Drafts
      /\ DraftOf[t] \in OriginsOf(UriOf[t])
  BY VisibleType DEF Drafts, OriginsOf
<1>5. /\ n \in StepType
      /\ n.pc = "pin" /\ n.token = t /\ n.draft = DraftOf[t] /\ n.row = row
  BY <1>3, <1>4 DEF Idle, StepType
<1>. HIDE DEF n
<1>6. StepOK(n)
  BY <1>3, <1>4, <1>5 DEF StepOK
<1>. QED BY <1>2, <1>6

(* The bind request carries the intent it bound.                           *)
LEMMA BindOK ==
    ASSUME Inv, NEW p \in Procs, Bind(p)
    PROVE  \E n : Go(p, n) /\ StepOK(n)
<1>1. PICK t \in mined, lost \in BOOLEAN, path \in BOOLEAN :
         BindTo(p, t, IF lost THEN None ELSE DraftOf[t], path)
  BY DEF Bind
<1>2. t \in Tokens /\ (IF lost THEN None ELSE DraftOf[t]) \in OriginsOf(UriOf[t]) \union {None}
  BY <1>1 DEF Inv, PageOK, OriginsOf
<1>3. PICK i \in 1..Len(rows), row \in RowType :
         /\ RowOK(row) /\ row.no = rows[i].no /\ row.uri = rows[i].uri
         /\ row.uri = UriOf[t]
         /\ rows' = rows \/ rows' = Put(i, row)
         /\ ~Violates(rows')
         /\ Go(p, BoundStep(t, row))
  <2>. DEFINE draft == IF lost THEN None ELSE DraftOf[t]
  <2>1. TableOK(rows) /\ t \in Tokens /\ draft \in OriginsOf(UriOf[t]) \union {None}
        /\ BindTo(p, t, draft, path)
    BY <1>1, <1>2 DEF Inv
  <2>. HIDE DEF draft
  <2>. QED BY <2>1, BindRow
<1>. DEFINE n == BoundStep(t, row)
<1>4. /\ row.no \in Nat \ {0} /\ row.no <= Len(rows) /\ Len(rows) \in Nat
      /\ row.draft \in Drafts \union {None} /\ row.draft \in OriginsOf(UriOf[t]) \union {None}
      /\ row.status \in Statuses /\ Visible(row.draft, row.path) \in BOOLEAN
  <2>1. row.path \in BOOLEAN
    BY DEF RowType
  <2>2. row.no <= Len(rows) /\ Len(rows) \in Nat
    BY <1>3 DEF Inv, TableOK
  <2>3. Visible(row.draft, row.path) \in BOOLEAN
    BY <2>1, VisibleType
  <2>. QED BY <1>3, <2>2, <2>3 DEF RowType, RowOK
<1>5. /\ n \in StepType
      /\ n.pc = "bound" /\ n.token = t /\ n.draft = row.draft /\ n.row = row.no
      /\ n.kind = "bind"
  BY <1>2, <1>4 DEF BoundStep, Idle, StepType
<1>6. Go(p, n)
  BY <1>3
<1>. HIDE DEF n
<1>7. StepOK(n)
  BY <1>2, <1>4, <1>5 DEF StepOK
<1>. QED BY <1>6, <1>7

(* The cron finalizes an intent as it was listed.                          *)
LEMMA CronIntentOK ==
    ASSUME Inv, CronIntent
    PROVE  \E n : Go("cron", n) /\ StepOK(n)
<1>1. PICK entry \in cron.queue :
         /\ cron.stage = "pending"
         /\ Go("cron", [Idle EXCEPT !.pc = "read", !.kind = "intent", !.token = entry[2].token,
                                    !.draft = entry[2].draft, !.path = entry[2].path,
                                    !.row = entry[2].no])
  BY DEF CronIntent, Visits, CronIdle
<1>. DEFINE row == entry[2]
            n == [Idle EXCEPT !.pc = "read", !.kind = "intent", !.token = row.token,
                              !.draft = row.draft, !.path = row.path, !.row = row.no]
<1>2. /\ row \in RowType /\ row.no \in 1..Len(rows) /\ row.token \in Tokens
      /\ row.draft \in OriginsOf(UriOf[row.token]) \union {None}
  BY <1>1 DEF Inv, QueuesOK, ItemOK
<1>3. Go("cron", n)
  BY <1>1
<1>. HIDE DEF row
<1>4. /\ n \in StepType /\ n.pc = "read" /\ n.token = row.token /\ n.draft = row.draft
      /\ n.row = row.no /\ n.kind = "intent"
  BY <1>2 DEF Idle, StepType, RowType
<1>. HIDE DEF n
<1>5. StepOK(n)
  BY <1>2, <1>4 DEF StepOK
<1>. QED BY <1>3, <1>5

(* ... a token without an image, from an open intent of the same image     *)
LEMMA CronOrphanOK ==
    ASSUME Inv, CronOrphan
    PROVE  \E n : Go("cron", n) /\ StepOK(n)
<1>1. PICK entry \in cron.queue :
           LET orphan == entry[2]
               open == Numbers(LAMBDA r : r.uri = UriOf[orphan.token] /\ r.status \in Open)
               source == rows[Latest(open)]
               step == [Idle EXCEPT !.pc = "read", !.kind = "orphan", !.token = orphan.token,
                                    !.draft = orphan.draft]
           IN  /\ cron.stage = "orphans"
               /\ Go("cron", IF open = {} THEN step
                             ELSE [step EXCEPT !.draft = Coalesce(source.draft, @),
                                               !.path = source.path])
  BY DEF CronOrphan, Visits, CronIdle
<1>. DEFINE orphan == entry[2]
            open == Numbers(LAMBDA r : r.uri = UriOf[orphan.token] /\ r.status \in Open)
            source == rows[Latest(open)]
            step == [Idle EXCEPT !.pc = "read", !.kind = "orphan", !.token = orphan.token,
                                 !.draft = orphan.draft]
            other == [step EXCEPT !.draft = Coalesce(source.draft, @), !.path = source.path]
<1>2. /\ orphan.token \in Tokens
      /\ orphan.draft \in OriginsOf(UriOf[orphan.token]) \union {None}
  BY <1>1 DEF Inv, QueuesOK, ItemOK
<1>3. \A d : d \in OriginsOf(UriOf[orphan.token]) \union {None} => d \in Drafts \union {None}
  BY DEF OriginsOf, Drafts
<1>4. Go("cron", IF open = {} THEN step ELSE other)
  BY <1>1
<1>5. ASSUME open # {}
      PROVE  source \in RowType /\ source.draft \in OriginsOf(UriOf[orphan.token]) \union {None}
  <2>1. open \in SUBSET (1..Len(rows)) /\ rows \in Seq(RowType)
    BY DEF Numbers, Inv, TableOK
  <2>2. Latest(open) \in open
    <3>. HIDE DEF open
    <3>. QED BY <1>5, <2>1, LatestOf
  <2>3. Latest(open) \in 1..Len(rows) /\ source.uri = UriOf[orphan.token]
    BY <2>2 DEF Numbers
  <2>4. source \in RowType /\ RowOK(source)
    <3>1. \A k \in 1..Len(rows) : rows[k] \in RowType /\ RowOK(rows[k])
      BY <2>1 DEF Inv, TableOK
    <3>. QED BY <2>3, <3>1
  <2>. HIDE DEF source, orphan
  <2>. QED BY <2>3, <2>4 DEF RowOK
<1>. HIDE DEF orphan, source, open
<1>6. StepOK(step)
  <2>1. /\ step \in StepType /\ step.pc = "read" /\ step.token = orphan.token
        /\ step.draft = orphan.draft /\ step.kind = "orphan"
    BY <1>2, <1>3 DEF Idle, StepType
  <2>. HIDE DEF step
  <2>. QED BY <1>2, <2>1 DEF StepOK
<1>7. ASSUME open # {} PROVE StepOK(other)
  <2>. DEFINE draft == Coalesce(source.draft, orphan.draft)
  <2>1. draft \in OriginsOf(UriOf[orphan.token]) \union {None} /\ source.path \in BOOLEAN
    BY <1>2, <1>5, <1>7 DEF Coalesce, RowType
  <2>2. other = [Idle EXCEPT !.pc = "read", !.kind = "orphan", !.token = orphan.token,
                             !.draft = draft, !.path = source.path]
    BY DEF Idle
  <2>. HIDE DEF other, draft, step
  <2>3. /\ other \in StepType /\ other.pc = "read" /\ other.token = orphan.token
        /\ other.draft = draft /\ other.kind = "orphan"
    BY <1>2, <1>3, <2>1, <2>2 DEF Idle, StepType
  <2>. QED BY <1>2, <2>1, <2>3 DEF StepOK
<1>. HIDE DEF step, other
<1>. QED BY <1>4, <1>6, <1>7

(* ... and the article of an image that is done.                           *)
LEMMA CronHealOK ==
    ASSUME Inv, CronHeal
    PROVE  \E n : Go("cron", n) /\ StepOK(n)
<1>1. PICK entry \in cron.queue :
         /\ cron.stage = "heal"
         /\ Go("cron", [Idle EXCEPT !.pc = "news", !.kind = "heal", !.token = entry[2].token,
                                    !.draft = entry[2].draft])
  BY DEF CronHeal, Visits, CronIdle
<1>. DEFINE row == entry[2]
            n == [Idle EXCEPT !.pc = "news", !.kind = "heal", !.token = row.token,
                              !.draft = row.draft]
<1>2. /\ row.token \in Tokens /\ row.draft \in NewsDrafts
      /\ row.draft \in OriginsOf(UriOf[row.token]) \union {None}
  BY <1>1 DEF Inv, QueuesOK, ItemOK
<1>3. Go("cron", n)
  BY <1>1
<1>. HIDE DEF row
<1>4. row.draft \in Drafts \union {None}
  BY <1>2 DEF OriginsOf, Drafts
<1>5. n \in StepType /\ n.pc = "news" /\ n.token = row.token /\ n.draft = row.draft
  BY <1>2, <1>4 DEF Idle, StepType
<1>. HIDE DEF n
<1>6. StepOK(n)
  BY <1>2, <1>5 DEF StepOK
<1>. QED BY <1>3, <1>6

(* The news cron links a token whose intent it has listed.                 *)
LEMMA SweepOK ==
    ASSUME Inv, Sweep
    PROVE  \E n : Go("sweep", n) /\ StepOK(n)
<1>1. PICK item \in sweep :
         Go("sweep", [Idle EXCEPT !.pc = "link", !.kind = "sweep", !.token = item[1],
                                  !.draft = item[2]])
  BY DEF Sweep
<1>2. /\ item[1] \in Tokens /\ item[2] \in NewsDrafts /\ item[2] \in OriginsOf(UriOf[item[1]])
      /\ news[item[1]].status # None /\ item[2] \in Drafts
  BY DEF Inv, QueuesOK, OriginsOf, Drafts
<1>. DEFINE n == [Idle EXCEPT !.pc = "link", !.kind = "sweep", !.token = item[1],
                              !.draft = item[2]]
<1>3. Go("sweep", n)
  BY <1>1
<1>4. n \in StepType /\ n.pc = "link" /\ n.token = item[1] /\ n.draft = item[2]
      /\ n.result = None
  BY <1>2 DEF Idle, StepType
<1>. HIDE DEF n
<1>5. StepOK(n)
  BY <1>2, <1>4, IntentsAssumption DEF StepOK
<1>. QED BY <1>3, <1>5

(* The request that records an intent with the token                       *)
LEMMA DisplayOK ==
    ASSUME Inv, NEW p \in Procs, Display(p)
    PROVE  \E n : Go(p, n) /\ StepOK(n)
<1>1. PICK t \in mined, path \in BOOLEAN :
         Go(p, [Idle EXCEPT !.pc = "read", !.kind = "display", !.token = t,
                            !.draft = IF path THEN None ELSE DraftOf[t], !.path = path])
  BY DEF Display
<1>. DEFINE draft == IF path THEN None ELSE DraftOf[t]
            n == [Idle EXCEPT !.pc = "read", !.kind = "display", !.token = t,
                              !.draft = draft, !.path = path]
<1>2. Go(p, n)
  BY <1>1
<1>3. /\ t \in Tokens /\ draft \in Drafts \union {None}
      /\ draft \in OriginsOf(UriOf[t]) \union {None}
  BY DEF Inv, PageOK, OriginsOf, Drafts
<1>. HIDE DEF draft
<1>4. /\ n \in StepType /\ n.pc = "read" /\ n.token = t /\ n.draft = draft
      /\ n.kind = "display"
  BY <1>3 DEF Idle, StepType
<1>. HIDE DEF n
<1>5. StepOK(n)
  BY <1>3, <1>4 DEF StepOK
<1>. QED BY <1>2, <1>5

(* ... and the one that only links the token's article.                    *)
LEMMA ActivateOK ==
    ASSUME Inv, NEW p \in Procs, Activate(p)
    PROVE  \E n : Go(p, n) /\ StepOK(n)
<1>1. PICK t \in mined :
         /\ DraftOf[t] \in NewsDrafts
         /\ Go(p, [Idle EXCEPT !.pc = "news", !.kind = "activate", !.token = t,
                               !.draft = DraftOf[t]])
  BY DEF Activate
<1>. DEFINE n == [Idle EXCEPT !.pc = "news", !.kind = "activate", !.token = t,
                              !.draft = DraftOf[t]]
<1>2. t \in Tokens /\ DraftOf[t] \in Drafts /\ DraftOf[t] \in OriginsOf(UriOf[t])
  BY DEF Inv, PageOK, OriginsOf, Drafts
<1>3. n \in StepType /\ n.pc = "news" /\ n.token = t /\ n.draft = DraftOf[t]
  BY <1>2 DEF Idle, StepType
<1>4. Go(p, n)
  BY <1>1
<1>. HIDE DEF n
<1>5. StepOK(n)
  BY <1>1, <1>2, <1>3 DEF StepOK
<1>. QED BY <1>4, <1>5

(* upsertNewsArticleMarketIntentAndLink: who goes on to link has written   *)
(* the intent ...                                                          *)
LEMMA UpsertNewsProc ==
    ASSUME Inv, TableOK(rows'), Grows, NEW p \in Procs, UpsertNews(p)
    PROVE  ProcOK'
<1>0. PICK s : s = proc[p]
  OBVIOUS
<1>. DEFINE intent == Upserted(s.token, s.draft)
            n == [s EXCEPT !.pc = "link"]
<1>1. StepOK(s) /\ s.pc = "news"
  BY <1>0 DEF Inv, ProcOK, UpsertNews, At
<1>2. s.token \in Tokens /\ s.draft \in OwnDrafts(s.token)
  BY <1>1, IntentsAssumption DEF StepOK, OwnDrafts, None
<1>3. \/ Go(p, AfterNews(s))
      \/ Go(p, n) /\ news' = [news EXCEPT ![s.token] = intent]
  BY <1>0 DEF UpsertNews
<1>4. CASE Go(p, AfterNews(s))
  <2>1. StepOK(AfterNews(s))
    BY <1>1, AfterNewsOK
  <2>. QED BY <1>4, <2>1, Moves
<1>5. CASE Go(p, n) /\ news' = [news EXCEPT ![s.token] = intent]
  <2>1. intent.status \in {"pending", "done"}
    BY <1>2, UpsertedOK
  <2>2. news'[s.token].status # None
    <3>. HIDE DEF intent
    <3>. QED BY <1>2, <1>5, <2>1 DEF Inv, NewsOK, None
  <2>3. n \in StepType /\ n.pc = "link" /\ n.token = s.token /\ n.draft = s.draft
    BY <1>1 DEF StepOK, StepType
  <2>4. StepOK(s)'
    BY <1>1, <1>2, StepsGrow DEF Inv
  <2>. HIDE DEF n
  <2>5. StepOK(n)'
    BY <1>1, <2>2, <2>3, <2>4 DEF StepOK
  <2>. QED BY <1>5, <2>5, OneMoves
<1>. QED BY <1>3, <1>4, <1>5

(* ... and who calls it done has linked the token.                         *)
LEMMA LinkNewsProc ==
    ASSUME Inv, TableOK(rows'), Grows, NEW p \in Procs, LinkNews(p)
    PROVE  ProcOK'
<1>0. PICK s : s = proc[p]
  OBVIOUS
<1>r. PICK result : result = IF s.token \in indexed THEN "done" ELSE "retry"
  OBVIOUS
<1>. DEFINE n == [s EXCEPT !.pc = "settle", !.result = result]
<1>1. StepOK(s) /\ s.pc = "link" /\ s.token \in Tokens /\ s.draft \in OwnDrafts(s.token)
  BY <1>0, IntentsAssumption DEF Inv, ProcOK, StepOK, LinkNews, At, OwnDrafts, None
<1>2. Go(p, n)
  BY <1>0, <1>r DEF LinkNews
<1>3. result = "done" => link'[s.token] # None
  <2>1. ASSUME s.token \in indexed PROVE link'[s.token] # None
    <3>1. link' = Linked(s.token, s.draft)
      BY <1>0, <2>1 DEF LinkNews
    <3>. QED BY <1>1, <3>1, LinkedOK
  <2>. QED BY <1>r, <2>1
<1>4. /\ n \in StepType /\ n.pc = "settle" /\ n.token = s.token /\ n.draft = s.draft
      /\ n.result = result
  BY <1>1, <1>r DEF StepOK, StepType, Statuses
<1>5. StepOK(s)'
  BY <1>1, StepsGrow DEF Inv
<1>. HIDE DEF n
<1>6. StepOK(n)'
  BY <1>1, <1>3, <1>4, <1>5 DEF StepOK
<1>. QED BY <1>2, <1>6, OneMoves

(* Every process keeps to what it has read, through all the others' steps. *)
LEMMA ProcStep == Inv /\ [Next]_vars => ProcOK'
<1>. SUFFICES ASSUME Inv, [Next]_vars PROVE ProcOK'
  OBVIOUS
<1>1. TableOK(rows') /\ Grows
  BY TableStep, PageStep DEF Kept
<1>2. ASSUME NEW p \in Procs, \E n : Go(p, n) /\ StepOK(n)
      PROVE  ProcOK'
  BY <1>1, <1>2, Moves
<1>3. ASSUME NEW p \in Procs, NEW n, Go(p, n), StepOK(n)
      PROVE  ProcOK'
  BY <1>1, <1>3, Moves
<1>4. ASSUME NEW p \in Procs, Read(p) PROVE ProcOK'
  BY <1>2, <1>4, ReadOK
<1>5. ASSUME NEW p \in Procs, Apply(p) PROVE ProcOK'
  <2>1. StepOK(proc[p]) /\ proc[p].pc = "apply" /\ Go(p, Finished(proc[p], "done"))
    BY <1>5 DEF Inv, ProcOK, Apply, At
  <2>. QED BY <1>3, <2>1, FinishedOK
<1>6. ASSUME NEW p \in Procs, Mark(p) PROVE ProcOK'
  <2>1. StepOK(proc[p]) /\ proc[p].pc = "mark" /\ (Go(p, ToNews(proc[p])) \/ Go(p, Idle))
    BY <1>6 DEF Inv, ProcOK, Mark, At
  <2>. QED BY <1>3, <2>1, ToNewsOK, IdleOK
<1>7. ASSUME NEW p \in Procs, UpsertNews(p) PROVE ProcOK'
  BY <1>1, <1>7, UpsertNewsProc
<1>8. ASSUME NEW p \in Procs, LinkNews(p) PROVE ProcOK'
  BY <1>1, <1>8, LinkNewsProc
<1>9. ASSUME NEW p \in Procs, SettleNews(p) PROVE ProcOK'
  <2>1. StepOK(proc[p]) /\ proc[p].pc = "settle" /\ Go(p, AfterNews(proc[p]))
    BY <1>9 DEF Inv, ProcOK, SettleNews, At
  <2>. QED BY <1>3, <2>1, AfterNewsOK
<1>10. ASSUME NEW p \in Procs, Pin(p) \/ Die(p) PROVE ProcOK'
  BY <1>3, <1>10, IdleOK DEF Pin, Die
<1>11. ASSUME NEW p \in Procs, Bound(p) PROVE ProcOK'
  BY <1>2, <1>11, BoundOK
<1>12. ASSUME NEW p \in Procs, StartPin(p) PROVE ProcOK'
  BY <1>2, <1>12, StartPinOK
<1>13. ASSUME NEW p \in Procs, Bind(p) PROVE ProcOK'
  BY <1>2, <1>13, BindOK
<1>14. ASSUME NEW p \in Procs, Display(p) PROVE ProcOK'
  BY <1>2, <1>14, DisplayOK
<1>15. ASSUME NEW p \in Procs, Activate(p) PROVE ProcOK'
  BY <1>2, <1>15, ActivateOK
<1>16. "cron" \in Procs /\ "sweep" \in Procs
  BY DEF Procs
<1>17. ASSUME CronIntent \/ CronOrphan \/ CronHeal \/ Sweep PROVE ProcOK'
  BY <1>2, <1>16, <1>17, CronIntentOK, CronOrphanOK, CronHealOK, SweepOK
<1>18. ASSUME proc' = proc PROVE ProcOK'
  BY <1>1, <1>18, NoneMoves
<1>19. \/ \E p \in Procs : StartPin(p) \/ Bind(p) \/ Display(p) \/ Activate(p)
                           \/ Continue(p) \/ Die(p)
       \/ CronIntent \/ CronOrphan \/ CronHeal \/ Sweep
       \/ proc' = proc
  BY DEF Next, vars, Mine, Index, Cron, StartCron, CronBind, ListPending, ListOrphans,
         ListGaps, EndCron, StartSweep, Lapse
<1>. QED
  BY <1>4, <1>5, <1>6, <1>7, <1>8, <1>9, <1>10, <1>11, <1>12, <1>13, <1>14, <1>15,
     <1>17, <1>18, <1>19 DEF Continue

-----------------------------------------------------------------------------
(* What the crons still have to visit. *)

(* An item stays what it was when it was listed.                           *)
LEMMA ItemStays ==
    ASSUME TableOK(rows), TableOK(rows'), Grows, NEW stage, NEW item, ItemOK(stage, item)
    PROVE  ItemOK(stage, item)'
<1>1. Len(rows) \in Nat /\ Len(rows') \in Nat
  BY DEF TableOK
<1>. QED BY <1>1 DEF Grows, ItemOK

(* What the cron lists is a new queue of items.                            *)
LEMMA NextStageOK ==
    ASSUME TableOK(rows), TableOK(rows'), Grows, NEW stage, NEW queue, NextStage(stage, queue),
           \A entry \in queue : ItemOK(stage, entry[2])
    PROVE  /\ DOMAIN cron' = {"stage", "queue"}
           /\ \A entry \in cron'.queue : ItemOK(cron.stage, entry[2])'
<1>1. cron' = [stage |-> stage, queue |-> queue]
  BY DEF NextStage
<1>2. ASSUME NEW entry \in queue
      PROVE  ItemOK(stage, entry[2])'
  <2>. DEFINE item == entry[2]
  <2>1. ItemOK(stage, item)
    OBVIOUS
  <2>. HIDE DEF item
  <2>2. ItemOK(stage, item)'
    BY <2>1, ItemStays
  <2>. QED BY <2>2 DEF item
<1>. QED BY <1>1, <1>2 DEF ItemOK

CronOK ==
    /\ DOMAIN cron = {"stage", "queue"}
    /\ \A entry \in cron.queue : ItemOK(cron.stage, entry[2])

SweepItemOK(item) ==
    /\ item \in Tokens \X NewsDrafts
    /\ item[2] \in OriginsOf(UriOf[item[1]])
    /\ news[item[1]].status # None

(* A visit takes its item from the queue.                                  *)
LEMMA QueueShrinks ==
    ASSUME TableOK(rows), TableOK(rows'), Grows, CronOK,
           \/ cron' = cron
           \/ \E entry \in cron.queue : cron' = [cron EXCEPT !.queue = @ \ {entry}]
    PROVE  CronOK'
<1>1. /\ DOMAIN cron' = {"stage", "queue"} /\ cron'.stage = cron.stage
      /\ cron'.queue \subseteq cron.queue
  BY DEF CronOK
<1>2. ASSUME NEW entry \in cron'.queue
      PROVE  ItemOK(cron.stage, entry[2])'
  <2>1. PICK stage, item : stage = cron.stage /\ item = entry[2]
    OBVIOUS
  <2>2. ItemOK(stage, item)
    BY <1>1, <1>2, <2>1 DEF CronOK
  <2>3. ItemOK(stage, item)'
    BY <2>2, ItemStays
  <2>. QED BY <1>1, <2>1, <2>3 DEF ItemOK
<1>. QED BY <1>1, <1>2 DEF CronOK

(* The queries of the image cron list what it may visit.                   *)
LEMMA ListsOK ==
    ASSUME Inv, TableOK(rows'), Grows, StartCron \/ ListPending \/ ListOrphans \/ ListGaps
    PROVE  CronOK'
<1>1. ASSUME NEW i \in 1..Len(rows)
      PROVE  /\ rows[i] \in RowType /\ RowOK(rows[i]) /\ rows[i].no \in 1..Len(rows)
             /\ rows[i].token # None =>
                  /\ rows[i].token \in Tokens
                  /\ rows[i].draft \in OriginsOf(UriOf[rows[i].token]) \union {None}
  <2>1. rows[i] \in RowType /\ RowOK(rows[i]) /\ rows[i].no <= Len(rows) /\ Len(rows) \in Nat
    BY DEF Inv, TableOK
  <2>. QED BY <2>1 DEF RowType, RowOK
<1>2. ASSUME NEW stage, NEW queue, NextStage(stage, queue),
             \A entry \in queue : ItemOK(stage, entry[2])
      PROVE  CronOK'
  BY <1>2, NextStageOK DEF Inv, CronOK
<1>3. CASE StartCron
  <2>. DEFINE queue == {<<rows[i].no, rows[i]>> :
                          i \in Numbers(LAMBDA r : r.status = "awaiting_token" /\ ~r.old)}
  <2>1. NextStage("bind", queue)
    BY <1>3 DEF StartCron
  <2>2. \A entry \in queue : ItemOK("bind", entry[2])
    BY <1>1 DEF ItemOK, Numbers
  <2>. HIDE DEF queue
  <2>. QED BY <1>2, <2>1, <2>2
<1>4. CASE ListPending
  <2>. DEFINE queue == ByUpdate(LAMBDA r : r.status = "pending" /\ r.attempts < MaxAttempts)
  <2>1. NextStage("pending", queue)
    BY <1>4 DEF ListPending
  <2>2. \A entry \in queue : ItemOK("pending", entry[2])
    <3>. SUFFICES ASSUME NEW entry \in queue PROVE ItemOK("pending", entry[2])
      OBVIOUS
    <3>1. PICK i \in 1..Len(rows) : entry[2] = rows[i] /\ rows[i].status = "pending"
      BY DEF ByUpdate, Numbers
    <3>2. rows[i].token # None
      BY <1>1, <3>1 DEF RowOK
    <3>. HIDE DEF queue
    <3>. QED BY <1>1, <3>1, <3>2 DEF ItemOK
  <2>. HIDE DEF queue
  <2>. QED BY <1>2, <2>1, <2>2
<1>5. CASE ListOrphans
  <2>. DEFINE queue == {<<0, [token |-> t, draft |-> link[t]]>> :
                          t \in indexed \ (shown \union aged)}
  <2>1. NextStage("orphans", queue)
    BY <1>5 DEF ListOrphans
  <2>2. \A entry \in queue : ItemOK("orphans", entry[2])
    BY DEF Inv, PageOK, ItemOK
  <2>. HIDE DEF queue
  <2>. QED BY <1>2, <2>1, <2>2
<1>6. CASE ListGaps
  <2>. DEFINE queue == ByUpdate(LAMBDA r : Gap(r) /\ ~r.quiet)
  <2>1. NextStage("heal", queue)
    BY <1>6 DEF ListGaps
  <2>2. \A entry \in queue : ItemOK("heal", entry[2])
    <3>. SUFFICES ASSUME NEW entry \in queue PROVE ItemOK("heal", entry[2])
      OBVIOUS
    <3>1. PICK i \in 1..Len(rows) : entry[2] = rows[i] /\ rows[i].token # None
                                    /\ rows[i].draft \in NewsDrafts
      BY DEF ByUpdate, Numbers, Gap
    <3>. HIDE DEF queue
    <3>. QED BY <1>1, <3>1 DEF ItemOK
  <2>. HIDE DEF queue
  <2>. QED BY <1>2, <2>1, <2>2
<1>. QED BY <1>3, <1>4, <1>5, <1>6

(* Both crons visit only what they have listed.                            *)
LEMMA QueuesStep == Inv /\ [Next]_vars => QueuesOK'
<1>. SUFFICES ASSUME Inv, [Next]_vars PROVE QueuesOK'
  OBVIOUS
<1>1. TableOK(rows') /\ Grows /\ NewsOK'
  BY TableStep, PageStep DEF Kept
<1>2. TableOK(rows) /\ CronOK /\ \A item \in sweep : SweepItemOK(item)
  BY DEF Inv, QueuesOK, CronOK, SweepItemOK
<1>3. CronOK'
  <2>1. CASE cron' = cron \/ \E entry \in cron.queue : cron' = [cron EXCEPT !.queue = @ \ {entry}]
    BY <1>1, <1>2, <2>1, QueueShrinks
  <2>2. CASE StartCron \/ ListPending \/ ListOrphans \/ ListGaps
    BY <1>1, <2>2, ListsOK
  <2>3. CASE cron' = Off
    BY <2>3 DEF Off, CronOK
  <2>. QED
    BY <2>1, <2>2, <2>3
       DEF Next, vars, CronVars, Visits, Mine, Index, StartPin, Bind, Display, Activate,
           Continue, Read, Apply, Mark, UpsertNews, LinkNews, SettleNews, Pin, Bound, Die,
           Cron, CronBind, CronIntent, CronOrphan, CronHeal, EndCron, StartSweep, Sweep, Lapse
<1>4. \A item \in sweep' : SweepItemOK(item)'
  <2>1. CASE sweep' \subseteq sweep
    <3>. SUFFICES ASSUME NEW item \in sweep' PROVE SweepItemOK(item)'
      OBVIOUS
    <3>1. PICK x : x = item
      OBVIOUS
    <3>2. SweepItemOK(x)
      BY <1>2, <2>1, <3>1
    <3>3. x[1] \in Tokens
      BY <3>2 DEF SweepItemOK
    <3>4. news'[x[1]].status # None
      BY <1>1, <3>2, <3>3 DEF SweepItemOK, Grows
    <3>. QED BY <3>1, <3>2, <3>4 DEF SweepItemOK
  <2>2. CASE StartSweep
    <3>. SUFFICES ASSUME NEW item \in sweep' PROVE SweepItemOK(item)'
      OBVIOUS
    <3>1. /\ news' = [t \in Tokens |->
                        IF news[t].status = "pending" /\ news[t].quiet
                        THEN [news[t] EXCEPT !.status = "expired", !.quiet = FALSE] ELSE news[t]]
          /\ sweep' = {<<t, news[t].draft>> :
                         t \in {u \in Tokens : news'[u].status = "pending"
                                               /\ news'[u].attempts < NewsMaxAttempts}}
      BY <2>2 DEF StartSweep
    <3>2. PICK t \in Tokens : item = <<t, news[t].draft>> /\ news'[t].status = "pending"
      BY <3>1
    <3>3. news'[t].draft = news[t].draft
      <4>1. news[t] \in NewsType
        BY DEF Inv, NewsOK
      <4>. QED BY <3>1, <4>1 DEF NewsType
    <3>4. news'[t].status # None
      BY <3>2 DEF None
    <3>5. news[t].draft \in NewsDrafts \intersect OriginsOf(UriOf[t])
      BY <1>1, <3>3, <3>4 DEF NewsOK
    <3>. QED BY <3>2, <3>4, <3>5 DEF SweepItemOK
  <2>. QED
    BY <2>1, <2>2
       DEF Next, vars, CronVars, Mine, Index, StartPin, Bind, Display, Activate,
           Continue, Read, Apply, Mark, UpsertNews, LinkNews, SettleNews, Pin, Bound, Die,
           Cron, StartCron, CronBind, ListPending, CronIntent, ListOrphans, CronOrphan,
           ListGaps, CronHeal, EndCron, Sweep, Lapse
<1>. QED BY <1>3, <1>4 DEF QueuesOK, CronOK, SweepItemOK

-----------------------------------------------------------------------------
(* The theorems. *)

(* Nothing is launched, nothing is recorded.                               *)
LEMMA InitInv == Init => Inv
<1>. SUFFICES ASSUME Init PROVE Inv
  OBVIOUS
<1>. USE IntentsAssumption DEF Init
<1>1. TableOK(rows) /\ ~Violates(rows)
  BY DEF TableOK, Violates
<1>2. PageOK /\ NewsDoneIsLinked
  BY DEF PageOK, NewsDoneIsLinked, NoIntent, None
<1>3. NewsOK
  <2>1. NoIntent \in NewsType
    BY DEF NoIntent, NewsType
  <2>. QED BY <2>1 DEF NewsOK, NoIntent
<1>4. ProcOK
  BY IdleOK DEF ProcOK
<1>5. QueuesOK
  BY DEF QueuesOK, Off
<1>. QED BY <1>1, <1>2, <1>3, <1>4, <1>5 DEF Inv

(* The invariant holds in every reachable state: the tables of intents are *)
(* well formed, and what every process and both crons have read is still   *)
(* true where they rely on it.                                             *)
THEOREM Invariance == Spec => []Inv
<1>1. Inv /\ [Next]_vars => Inv'
  BY TableStep, PageStep, ProcStep, QueuesStep DEF Kept, Inv
<1>. QED BY InitInv, <1>1, PTL DEF Spec

(* One open intent per token, whatever requests, indexer and crons write   *)
(* at once, and images only of indexed tokens.                             *)
THEOREM TypeCorrect == Spec => []TypeOK
<1>1. Inv => TypeOK
  <2>. SUFFICES ASSUME Inv PROVE TypeOK
    OBVIOUS
  <2>1. \A i \in 1..Len(rows) : rows[i] \in RowType
    BY DEF Inv, TableOK
  <2>. QED BY <2>1 DEF Inv, PageOK, TypeOK, RowType, Statuses
<1>. QED BY <1>1, Invariance, PTL

(* No writer, whatever it read before, calls a news intent done while the  *)
(* token has no article.                                                   *)
THEOREM DoneIsLinked == Spec => []NewsDoneIsLinked
<1>1. Inv => NewsDoneIsLinked
  BY DEF Inv
<1>. QED BY <1>1, Invariance, PTL

(* What a step does to a token's page, MarketPage lets it do.              *)
LEMMA MoveIsPageStep ==
    ASSUME NEW t \in Tokens, Move(t)
    PROVE  Page!Next
<1>1. Page!Attributed(t)
  BY DEF Move, LinkWrite, OwnDrafts, OriginsOf, Page!Attributed
<1>2. CASE t \notin indexed
  <2>1. indexed' = indexed \union {t}
    BY <1>2 DEF Move
  <2>2. Page!Index(t)
    BY <1>1, <1>2, <2>1 DEF Move, Page!Index
  <2>. QED BY <2>2 DEF Page!Next
<1>3. CASE t \in indexed
  <2>1. UNCHANGED indexed
    BY <1>3 DEF Move
  <2>2. Page!Link(t) \/ Page!Show(t)
    BY <1>1, <1>3 DEF Move, Page!Link, Page!Show
  <2>. QED BY <2>1, <2>2 DEF Page!Next
<1>. QED BY <1>2, <1>3

(* The system implements MarketPage: whatever requests, crons and the      *)
(* indexer interleave, a token's image is never taken away and its first   *)
(* article, one of a launch of its own image, is its only one.             *)
THEOREM PageImplemented == Spec => PageSpec
<1>1. Init => Page!Init
  BY DEF Init, Page!Init
<1>2. Inv /\ [Next]_vars => [Page!Next]_(Page!vars)
  <2>. SUFFICES ASSUME Inv, [Next]_vars PROVE Page!Next \/ UNCHANGED <<indexed, shown, link>>
    BY DEF Page!vars
  <2>1. ASSUME NEW t, Move(t) PROVE Page!Next
    BY <2>1, MoveIsPageStep DEF Move, Inv, PageOK
  <2>2. CASE \E t \in Tokens : Index(t)
    BY <2>1, <2>2, IndexMoves
  <2>3. CASE \E p \in Procs : Apply(p)
    BY <2>1, <2>3, ApplyMoves
  <2>4. CASE \E p \in Procs : LinkNews(p)
    BY <2>1, <2>4, LinkNewsMoves
  <2>5. \/ \E t \in Tokens : Index(t)
        \/ \E p \in Procs : Apply(p) \/ LinkNews(p)
        \/ UNCHANGED <<indexed, shown, link>>
    BY ZenonT(30) DEF Next, vars, pageVars, CronVars, Mine, StartPin, Bind, Display, Activate, Continue,
           Read, Mark, UpsertNews, SettleNews, Pin, Bound, Die, Cron, StartCron, CronBind,
           ListPending, CronIntent, ListOrphans, CronOrphan, ListGaps, CronHeal, EndCron,
           StartSweep, Sweep, Lapse
  <2>. QED BY <2>2, <2>3, <2>4, <2>5
<1>. QED BY <1>1, <1>2, Invariance, PTL DEF Spec, PageSpec, Page!Spec
=============================================================================
