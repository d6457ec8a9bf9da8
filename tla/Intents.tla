------------------------------- MODULE Intents -------------------------------
(***************************************************************************)
(* How a launched token gets its display image and the news article it     *)
(* came from.  Postgres keeps an intent per pinned image                   *)
(* (token_display_finalize_intents) and per token of a news launch         *)
(* (news_article_market_intents); requests of the browser, the indexer's   *)
(* transaction and two cron jobs act on them at once.  Each of them is a   *)
(* process that performs one query, or one group of queries without an     *)
(* effect in between, per step.                                            *)
(***************************************************************************)
EXTENDS Integers, FiniteSets, Sequences, SequencesExt, Functions

CONSTANTS
    Tokens,          \* launches of the browser, each with one token
    UriOf,           \* token -> the ipfs:// URI of its image
    DraftOf,         \* token -> launch draft
    NewsDrafts,      \* drafts with source_type 'news'; each has its article
    ArtDrafts,       \* drafts whose selected artwork has a display copy
    PonsTokens,      \* tokens whose launch row is written after the image
    Requests,        \* bound: requests served at the same time
    MaxRows,         \* bound: display intents
    MaxCalls,        \* bound: requests in all
    MaxFaults,       \* bound: failures of each kind
    FaultBudget,     \* bound: failures in all
    MaxAttempts,     \* attempts of a display intent (5 in the code)
    NewsMaxAttempts  \* attempts of a news intent (30 in the code)

FaultKinds == {"die", "mirror", "reindex", "lapse"}

ASSUME IntentsAssumption ==
    /\ "none" \notin Tokens \union NewsDrafts \union {DraftOf[t] : t \in Tokens}
    /\ MaxRows \in Nat /\ MaxCalls \in Nat /\ MaxFaults \in [FaultKinds -> Nat] /\ FaultBudget \in Nat
    /\ MaxAttempts \in Nat \ {0} /\ NewsMaxAttempts \in Nat \ {0}

VARIABLES
    mined,      \* tokens whose launch transaction has a receipt
    indexed,    \* tokens with a tokens and a launches row
    aged,       \* tokens launched longer ago than the crons look back
    shown,      \* tokens with a display_image_url
    link,       \* token -> draft of its news_article_markets row, or None
    rows,       \* display intents, least recently updated first
    news,       \* token -> its news intent, or NoIntent
    proc,       \* process -> where it is and what it has read
    cron,       \* the image cron's stage and what it still has to visit, pairs
                \* <<rank, item>> in the order of their ranks
    sweep,      \* tokens the news cron still has to visit
    calls, faults

pageVars == <<indexed, shown, link>>
vars == <<mined, aged, pageVars, rows, news, proc, cron, sweep, calls, faults>>

None == "none"
Procs == Requests \union {"cron", "sweep"}
Drafts == {DraftOf[t] : t \in Tokens}
Open == {"awaiting_token", "pending"}

Idle == [pc |-> "idle", kind |-> None, token |-> None, draft |-> None, path |-> FALSE,
         row |-> 0, result |-> None]
NoIntent == [status |-> None, attempts |-> 0, draft |-> None, quiet |-> FALSE]
Off == [stage |-> "off", queue |-> {}]

Budget(kind) == faults[kind] < MaxFaults[kind] /\ SumFunction(faults) < FaultBudget
Spend(kind) == faults' = [faults EXCEPT ![kind] = @ + 1]

-----------------------------------------------------------------------------
(* The tables. *)

Numbers(keep(_)) == {i \in 1..Len(rows) : keep(rows[i])}
Latest(S) == CHOOSE i \in S : \A j \in S : j <= i

\* created_at is the order of the numbers the rows have.
Newest(S) == CHOOSE i \in S : \A j \in S : rows[j].no <= rows[i].no

\* Every UPDATE sets updated_at, so the row becomes the last one.
Put(i, row) == Append(RemoveAt(rows, i), [row EXCEPT !.quiet = FALSE])
IndexOf(no) == CHOOSE i \in 1..Len(rows) : rows[i].no = no

NewRow(uri, token, draft, path) ==
    [no |-> Len(rows) + 1, uri |-> uri, token |-> token, draft |-> draft, path |-> path,
     status |-> IF token = None THEN "awaiting_token" ELSE "pending",
     attempts |-> 0, old |-> FALSE, quiet |-> FALSE]

Coalesce(given, kept) == IF given = None THEN kept ELSE given

Merged(row, token, draft, path) ==
    [row EXCEPT !.token = token, !.draft = Coalesce(draft, @), !.path = @ \/ path,
                !.status = "pending"]

\* token_display_finalize_intents_token_uidx: one open intent per token.
Violates(table) ==
    \E i, j \in 1..Len(table) :
        /\ i # j
        /\ table[i].token # None
        /\ table[i].token = table[j].token
        /\ {table[i].status, table[j].status} \subseteq Open

\* getDraftSelectedDisplayImagePath fills in for a path that is not given.
Visible(draft, path) == path \/ draft \in ArtDrafts

\* upsertNewsArticleMarketIntentAndLink up to its attempt to link.
Upserted(t, d) ==
    [news[t] EXCEPT !.status = IF @ = "done" \/ link[t] # None THEN "done" ELSE "pending",
                    !.draft = d, !.quiet = FALSE]

Bumped(intent) ==
    LET n == intent.attempts + 1
    IN  [intent EXCEPT !.attempts = IF n > NewsMaxAttempts THEN NewsMaxAttempts ELSE n,
                       !.status = IF n >= NewsMaxAttempts THEN "failed" ELSE @,
                       !.quiet = FALSE]

Refused(t, d) == link[t] \notin {None, d}

\* A slip: DO UPDATE.
RelinkedSlip(t, d) == [link EXCEPT ![t] = d]

\* linkNewsArticleMarket: ON CONFLICT DO NOTHING.
Linked(t, d) == IF link[t] = None THEN [link EXCEPT ![t] = d] ELSE link

-----------------------------------------------------------------------------
(* The launch and the indexer's transaction. *)

\* The browser awaits the pin of its image.
Mine(t) ==
    /\ t \notin mined
    /\ \A p \in Requests : ~(proc[p].pc = "pin" /\ proc[p].token = t)
    /\ mined' = mined \union {t}
    /\ UNCHANGED <<aged, pageVars, rows, news, proc, cron, sweep, calls, faults>>

\* ensureNewsArticleMarketFromTrustedDraft inside the transaction; without the
\* launch row it leaves a pending intent.
EnsureNews(t, draft, launched) ==
    IF draft \notin NewsDrafts \/ Refused(t, draft) THEN UNCHANGED <<news, link>>
    ELSE LET intent == Upserted(t, draft)
             done == intent.status = "done" \/ launched
         IN  /\ news' = [news EXCEPT ![t] = IF done THEN [intent EXCEPT !.status = "done"]
                                                    ELSE Bumped(intent)]
             /\ link' = IF launched /\ intent.status # "done" THEN Linked(t, draft) ELSE link

\* The token's own intent before another of the same image, then by status.
IntentRank(row, t) ==
    (IF row.token = t THEN 0 ELSE 3)
    + (IF row.status = "pending" THEN 0 ELSE IF row.status = "awaiting_token" THEN 1 ELSE 2)

\* applyBoundDisplayImageOnTokenInsert.
ApplyBound(t, launched) ==
    LET found == Numbers(LAMBDA r : /\ r.path
                                    /\ \/ r.token = t /\ r.status \in Open \union {"done"}
                                       \/ r.uri = UriOf[t] /\ r.status \in Open)
        best == {i \in found : \A j \in found : IntentRank(rows[i], t) <= IntentRank(rows[j], t)}
        i == Latest(best)
    IN  IF found = {} THEN UNCHANGED <<shown, link, rows, news>>
        ELSE /\ shown' = shown \union {t}
             /\ rows' = Put(i, [rows[i] EXCEPT !.token = t, !.status = "done"])
             /\ EnsureNews(t, rows[i].draft, launched)

\* A launch is indexed again when its block is replaced or the batch repeated.
Index(t) ==
    /\ t \in mined
    /\ \/ t \notin indexed /\ UNCHANGED faults
       \/ t \in indexed /\ Budget("reindex") /\ Spend("reindex")
    /\ indexed' = indexed \union {t}
    /\ ApplyBound(t, t \in indexed \/ t \notin PonsTokens)
    /\ UNCHANGED <<mined, aged, proc, cron, sweep, calls>>

-----------------------------------------------------------------------------
(* Steps that processes share. *)

At(p, pc) == proc[p].pc = pc
Go(p, step) == proc' = [proc EXCEPT ![p] = step]

ToNews(step) == IF step.draft \in NewsDrafts THEN [step EXCEPT !.pc = "news"] ELSE Idle

\* The bind route repeats what its helper did: upsertNewsArticleMarketIntentAndLink.
AfterNews(step) ==
    IF step.kind = "bind" THEN [step EXCEPT !.pc = "news", !.kind = "again"] ELSE Idle

\* What a result of finalizeTokenDisplayImage leads to: "done", "retry" or "failed".
Finished(step, result) ==
    CASE step.kind \in {"intent", "bind"} -> [step EXCEPT !.pc = "mark", !.result = result]
      [] step.kind = "orphan" /\ result = "done" -> ToNews(step)
      [] OTHER -> Idle

\* finalizeTokenDisplayImage reads the token; without a path and without artwork
\* it mirrors the IPFS image, which may fail for now or for good.
Read(p) ==
    LET s == proc[p]
        source == Visible(s.draft, s.path)
    IN  /\ At(p, "read")
        /\ \/ s.token \notin indexed /\ Go(p, Finished(s, "retry")) /\ UNCHANGED faults
           \/ s.token \in shown /\ Go(p, Finished(s, "done")) /\ UNCHANGED faults
           \/ /\ s.token \in indexed \ shown
              /\ Go(p, [s EXCEPT !.pc = "apply"])
              /\ UNCHANGED faults
           \/ /\ s.token \in indexed \ shown
              /\ ~source
              /\ Budget("mirror") /\ Spend("mirror")
              /\ \E result \in {"retry", "failed"} : Go(p, Finished(s, result))
        /\ UNCHANGED <<mined, aged, pageVars, rows, news, cron, sweep, calls>>

\* setTokenDisplayImageUrl, without another look at the token.
Apply(p) ==
    /\ At(p, "apply")
    /\ shown' = shown \union {proc[p].token}
    /\ Go(p, Finished(proc[p], "done"))
    /\ UNCHANGED <<mined, aged, indexed, link, rows, news, cron, sweep, calls, faults>>

\* markDisplayFinalizeIntentResult and bumpDisplayFinalizeIntentAttempt: by the
\* id read before, whatever became of the row meanwhile.
Mark(p) ==
    LET s == proc[p]
        i == IndexOf(s.row)
    IN  /\ At(p, "mark")
        /\ rows' = Put(i, [rows[i] EXCEPT
                               !.attempts = IF @ = MaxAttempts THEN @ ELSE @ + 1,
                               !.status = IF s.result = "retry" THEN @ ELSE s.result])
        /\ Go(p, IF s.result = "done" THEN ToNews(s) ELSE Idle)
        /\ UNCHANGED <<mined, aged, pageVars, news, cron, sweep, calls, faults>>

\* upsertNewsArticleMarketIntentAndLink until the link.
UpsertNews(p) ==
    LET s == proc[p]
        intent == Upserted(s.token, s.draft)
    IN  /\ At(p, "news")
        /\ IF Refused(s.token, s.draft) THEN Go(p, AfterNews(s)) /\ UNCHANGED news
           ELSE /\ news' = [news EXCEPT ![s.token] = intent]
                /\ Go(p, IF intent.status = "done" THEN AfterNews(s)
                                                   ELSE [s EXCEPT !.pc = "link"])
        /\ UNCHANGED <<mined, aged, pageVars, rows, cron, sweep, calls, faults>>

\* A slip: the reason of a link that was not made is ignored.
LinkNewsSlip(p) ==
    LET s == proc[p]
    IN  /\ At(p, "link")
        /\ link' = IF s.token \in indexed THEN Linked(s.token, s.draft) ELSE link
        /\ Go(p, [s EXCEPT !.pc = "settle", !.result = "done"])
        /\ UNCHANGED <<mined, aged, indexed, shown, rows, news, cron, sweep, calls, faults>>

\* linkNewsArticleMarket.
LinkNews(p) ==
    LET s == proc[p]
        launched == s.token \in indexed
    IN  /\ At(p, "link")
        /\ link' = IF launched THEN Linked(s.token, s.draft) ELSE link
        /\ Go(p, [s EXCEPT !.pc = "settle", !.result = IF launched THEN "done" ELSE "retry"])
        /\ UNCHANGED <<mined, aged, indexed, shown, rows, news, cron, sweep, calls, faults>>

\* markNewsArticleMarketIntentResult or bumpNewsArticleMarketIntentAttempt.
SettleNews(p) ==
    LET s == proc[p]
    IN  /\ At(p, "settle")
        /\ news' = [news EXCEPT ![s.token] =
                        IF s.result = "done" THEN [@ EXCEPT !.status = "done", !.quiet = FALSE]
                                             ELSE Bumped(@)]
        /\ Go(p, AfterNews(s))
        /\ UNCHANGED <<mined, aged, pageVars, rows, cron, sweep, calls, faults>>

-----------------------------------------------------------------------------
(* Requests of the browser. *)

Accept(p) == p \in Requests /\ At(p, "idle") /\ calls < MaxCalls /\ calls' = calls + 1

Pinning == {q \in Requests : At(q, "pin") /\ proc[q].row = 0}

\* Before the launch, the pin route, or enqueue for an image pinned earlier: look for
\* an open intent of the image; without a display copy there is no path.
StartPin(p) ==
    /\ Accept(p)
    /\ \E t \in Tokens \ mined, path \in BOOLEAN :
           LET open == Numbers(LAMBDA r : r.uri = UriOf[t] /\ r.status \in Open)
           IN  /\ open = {} => Len(rows) + Cardinality(Pinning) < MaxRows
               /\ Go(p, [Idle EXCEPT !.pc = "pin", !.token = t, !.draft = DraftOf[t],
                                     !.path = Visible(DraftOf[t], path),
                                     !.row = IF open = {} THEN 0 ELSE rows[Newest(open)].no])
    /\ UNCHANGED <<mined, aged, pageVars, rows, news, cron, sweep, faults>>

\* upsertTokenDisplayFinalizeIntent without a token: UPDATE or INSERT.
Pin(p) ==
    LET s == proc[p]
        i == IndexOf(s.row)
    IN  /\ At(p, "pin")
        /\ rows' = IF s.row = 0 THEN Append(rows, NewRow(UriOf[s.token], None, s.draft, s.path))
                   ELSE Put(i, [rows[i] EXCEPT !.draft = s.draft, !.path = @ \/ s.path])
        /\ Go(p, Idle)
        /\ UNCHANGED <<mined, aged, pageVars, news, cron, sweep, calls, faults>>

Awaiting(t) == Numbers(LAMBDA r : r.uri = UriOf[t] /\ r.status = "awaiting_token")
Taken(t) == Numbers(LAMBDA r : r.token = t /\ r.uri = UriOf[t] /\ r.status \in {"pending", "done"})
Pending(t) == Numbers(LAMBDA r : r.uri = UriOf[t] /\ r.status = "pending")

\* bindDisplayFinalizeIntentToToken: an awaiting intent of the image, else the
\* token's own, else a pending one, which may be another token's.
BindTo(p, t, draft, path) ==
    LET i == IF Awaiting(t) # {} THEN Newest(Awaiting(t))
             ELSE IF Taken(t) # {} THEN Latest(Taken(t)) ELSE Latest(Pending(t))
        merged == Merged(rows[i], t, draft, path)
        row == IF rows[i].status = "done" THEN [merged EXCEPT !.status = "done"] ELSE merged
        kept == Awaiting(t) = {} /\ Taken(t) # {} /\ draft = None /\ ~path
    IN  /\ Awaiting(t) \union Taken(t) \union Pending(t) # {}
        /\ rows' = IF kept THEN rows ELSE Put(i, row)
        /\ ~Violates(rows')
        /\ Go(p, [Idle EXCEPT !.pc = "bound", !.kind = "bind", !.token = t,
                              !.row = row.no, !.draft = row.draft, !.result = row.status,
                              !.path = Visible(row.draft, row.path)])

\* The browser may have lost the draft or the path.
Bind(p) ==
    /\ Accept(p)
    /\ \E t \in mined, lost \in BOOLEAN, path \in BOOLEAN :
           BindTo(p, t, IF lost THEN None ELSE DraftOf[t], path)
    /\ UNCHANGED <<mined, aged, pageVars, news, cron, sweep, faults>>

\* bindAndFinalizeTokenDisplayImage after the bind.
Bound(p) ==
    LET s == proc[p]
    IN  /\ At(p, "bound")
        /\ Go(p, CASE s.token \in shown /\ s.result # "done" ->
                          [s EXCEPT !.pc = "mark", !.result = "done"]
                   [] s.token \in shown /\ s.result = "done" -> ToNews(s)
                   [] s.token \notin shown /\ ~s.path -> Idle
                   [] s.token \notin shown /\ s.path ->
                          IF s.token \in indexed THEN [s EXCEPT !.pc = "apply"] ELSE ToNews(s))
        /\ UNCHANGED <<mined, aged, pageVars, rows, news, cron, sweep, calls, faults>>

\* The display route's intent with the token.
Recorded(t, draft, path) ==
    LET own == Numbers(LAMBDA r : r.token = t /\ r.status \in Open)
        merged(i) == Merged(rows[i], t, draft, path)
    IN  IF Awaiting(t) # {} THEN
            LET i == Newest(Awaiting(t)) IN Put(i, merged(i))
        ELSE IF own # {} THEN
            LET i == Latest(own) IN Put(i, [merged(i) EXCEPT !.uri = UriOf[t]])
        ELSE Append(rows, NewRow(UriOf[t], t, draft, path))

\* The display route: record the intent, best effort, then finalize.
Display(p) ==
    /\ Accept(p)
    /\ \E t \in mined, path \in BOOLEAN :
           LET draft == IF path THEN None ELSE DraftOf[t]
               recorded == Recorded(t, draft, Visible(draft, path))
           IN  /\ Len(recorded) + Cardinality(Pinning) <= MaxRows
               /\ rows' = IF Violates(recorded) THEN rows ELSE recorded
               /\ Go(p, [Idle EXCEPT !.pc = "read", !.kind = "display", !.token = t,
                                     !.draft = draft, !.path = path])
    /\ UNCHANGED <<mined, aged, pageVars, news, cron, sweep, faults>>

\* POST /api/news/article-markets.
Activate(p) ==
    /\ Accept(p)
    /\ \E t \in mined : /\ DraftOf[t] \in NewsDrafts
                        /\ Go(p, [Idle EXCEPT !.pc = "news", !.kind = "activate", !.token = t,
                                              !.draft = DraftOf[t]])
    /\ UNCHANGED <<mined, aged, pageVars, rows, news, cron, sweep, faults>>

-----------------------------------------------------------------------------
(* reconcileTokenDisplayImages: expire, bind, pending, orphans, heal. *)

CronVars == <<mined, aged, pageVars, news, sweep, calls, faults>>
CronIdle(stage) == cron.stage = stage /\ At("cron", "idle")
Done(stage) == CronIdle(stage) /\ cron.queue = {}
NextStage(stage, queue) == cron' = [stage |-> stage, queue |-> queue]

Visits(stage, entry) ==
    /\ CronIdle(stage)
    /\ \A other \in cron.queue : entry[1] <= other[1]
    /\ cron' = [cron EXCEPT !.queue = @ \ {entry}]

\* The rows that a query returns, least recently updated first.
ByUpdate(keep(_)) == {<<i, rows[i]>> : i \in Numbers(keep)}

StartCron ==
    /\ CronIdle("off")
    /\ rows' = [i \in 1..Len(rows) |->
                    IF rows[i].status = "awaiting_token" /\ rows[i].old
                    THEN [rows[i] EXCEPT !.status = "expired", !.quiet = FALSE] ELSE rows[i]]
    /\ NextStage("bind", {<<rows[i].no, rows[i]>> :
                             i \in Numbers(LAMBDA r : r.status = "awaiting_token" /\ ~r.old)})
    /\ UNCHANGED <<proc, CronVars>>

\* A slip: the token's other open intent is not looked for.
CronBindSlip ==
    /\ \E entry \in cron.queue :
           LET i == IndexOf(entry[2].no)
               matches == {t \in indexed \ (shown \union aged) : UriOf[t] = rows[i].uri}
           IN  /\ Visits("bind", entry)
               /\ \/ /\ rows[i].status # "awaiting_token" \/ Cardinality(matches) # 1
                     /\ UNCHANGED rows
                  \/ /\ rows[i].status = "awaiting_token"
                     /\ \E t \in matches :
                            /\ matches = {t}
                            /\ rows' = Put(i, [rows[i] EXCEPT !.token = t, !.status = "pending"])
    /\ UNCHANGED <<proc, CronVars>>

\* bindAwaitingDisplayFinalizeIntents, one row.  A write that loses a race with a
\* request breaks the unique index and ends the run, as Die does.
CronBind ==
    /\ \E entry \in cron.queue :
           LET i == IndexOf(entry[2].no)
               matches == {t \in indexed \ (shown \union aged) : UriOf[t] = rows[i].uri}
               taken(t) == Numbers(LAMBDA r : r.token = t /\ r.status \in Open) # {}
           IN  /\ Visits("bind", entry)
               /\ \/ /\ rows[i].status # "awaiting_token" \/ Cardinality(matches) # 1
                     /\ UNCHANGED rows
                  \/ /\ rows[i].status = "awaiting_token"
                     /\ \E t \in matches :
                            /\ matches = {t}
                            /\ rows' = Put(i, IF taken(t) THEN [rows[i] EXCEPT !.status = "noop"]
                                              ELSE [rows[i] EXCEPT !.token = t,
                                                                   !.status = "pending"])
    /\ UNCHANGED <<proc, CronVars>>

ListPending ==
    /\ Done("bind")
    /\ NextStage("pending",
                 ByUpdate(LAMBDA r : r.status = "pending" /\ r.attempts < MaxAttempts))
    /\ UNCHANGED <<proc, rows, CronVars>>

\* The listed row, not the present one, says what to finalize.
CronIntent ==
    /\ \E entry \in cron.queue :
           LET row == entry[2]
           IN  /\ Visits("pending", entry)
               /\ Go("cron", [Idle EXCEPT !.pc = "read", !.kind = "intent", !.token = row.token,
                                          !.draft = row.draft, !.path = row.path, !.row = row.no])
    /\ UNCHANGED <<rows, CronVars>>

\* A slip: only tokens whose image has an intent are looked at.
ListOrphansSlip ==
    /\ Done("pending")
    /\ NextStage("orphans",
                 {<<0, [token |-> t, draft |-> link[t]]>> :
                      t \in {u \in indexed \ (shown \union aged) :
                                 Numbers(LAMBDA r : r.uri = UriOf[u]) # {}}})
    /\ UNCHANGED <<proc, rows, CronVars>>

\* In any order: the launches' times are not modelled.
ListOrphans ==
    /\ Done("pending")
    /\ NextStage("orphans", {<<0, [token |-> t, draft |-> link[t]]>> :
                                 t \in indexed \ (shown \union aged)})
    /\ UNCHANGED <<proc, rows, CronVars>>

\* A slip: the draft of the open intent is forgotten.
CronOrphanSlip ==
    /\ \E entry \in cron.queue :
           LET orphan == entry[2]
               open == Numbers(LAMBDA r : r.uri = UriOf[orphan.token] /\ r.status \in Open)
               step == [Idle EXCEPT !.pc = "read", !.kind = "orphan", !.token = orphan.token,
                                    !.draft = orphan.draft]
           IN  /\ Visits("orphans", entry)
               /\ Go("cron", IF open = {} THEN step
                             ELSE [step EXCEPT !.path = rows[Latest(open)].path])
    /\ UNCHANGED <<rows, CronVars>>

\* findOpenIntentImageSource, then finalize.
CronOrphan ==
    /\ \E entry \in cron.queue :
           LET orphan == entry[2]
               open == Numbers(LAMBDA r : r.uri = UriOf[orphan.token] /\ r.status \in Open)
               source == rows[Latest(open)]
               step == [Idle EXCEPT !.pc = "read", !.kind = "orphan", !.token = orphan.token,
                                    !.draft = orphan.draft]
           IN  /\ Visits("orphans", entry)
               /\ Go("cron", IF open = {} THEN step
                             ELSE [step EXCEPT !.draft = Coalesce(source.draft, @),
                                               !.path = source.path])
    /\ UNCHANGED <<rows, CronVars>>

\* listDoneDisplayIntentsMissingNewsLink: the gap of the ZHANG token.
Gap(row) ==
    /\ row.status = "done"
    /\ row.draft \in NewsDrafts
    /\ row.token # None
    /\ news[row.token] = NoIntent

\* A slip: intents that are still open instead of done ones.
ListGapsSlip ==
    /\ Done("orphans")
    /\ NextStage("heal", ByUpdate(LAMBDA r : Gap([r EXCEPT !.status = "done"])
                                                 /\ r.status = "pending" /\ ~r.quiet))
    /\ UNCHANGED <<proc, rows, CronVars>>

ListGaps ==
    /\ Done("orphans")
    /\ NextStage("heal", ByUpdate(LAMBDA r : Gap(r) /\ ~r.quiet))
    /\ UNCHANGED <<proc, rows, CronVars>>

CronHeal ==
    /\ \E entry \in cron.queue :
           /\ Visits("heal", entry)
           /\ Go("cron", [Idle EXCEPT !.pc = "news", !.kind = "heal",
                                      !.token = entry[2].token, !.draft = entry[2].draft])
    /\ UNCHANGED <<rows, CronVars>>

EndCron ==
    /\ Done("heal")
    /\ cron' = Off
    /\ UNCHANGED <<proc, rows, CronVars>>

Cron == StartCron \/ CronBind \/ ListPending \/ CronIntent \/ ListOrphans \/ CronOrphan
        \/ ListGaps \/ CronHeal \/ EndCron

-----------------------------------------------------------------------------
(* reconcileNewsArticleMarkets: expire, then link what is pending. *)

StartSweep ==
    /\ sweep = {} /\ At("sweep", "idle")
    /\ news' = [t \in Tokens |->
                    IF news[t].status = "pending" /\ news[t].quiet
                    THEN [news[t] EXCEPT !.status = "expired", !.quiet = FALSE] ELSE news[t]]
    /\ sweep' = {<<t, news[t].draft>> :
                    t \in {u \in Tokens : news'[u].status = "pending"
                                          /\ news'[u].attempts < NewsMaxAttempts}}
    /\ UNCHANGED <<mined, aged, pageVars, rows, proc, cron, calls, faults>>

Sweep ==
    /\ At("sweep", "idle")
    /\ \E item \in sweep :
           /\ sweep' = sweep \ {item}
           /\ Go("sweep", [Idle EXCEPT !.pc = "link", !.kind = "sweep", !.token = item[1],
                                       !.draft = item[2]])
    /\ UNCHANGED <<mined, aged, pageVars, rows, news, cron, calls, faults>>

-----------------------------------------------------------------------------
(* What can go wrong. *)

\* A request is cut off or a query fails; a cron job ends with it.
Die(p) ==
    /\ ~At(p, "idle")
    /\ Budget("die") /\ Spend("die")
    /\ Go(p, Idle)
    /\ cron' = IF p = "cron" THEN Off ELSE cron
    /\ sweep' = IF p = "sweep" THEN {} ELSE sweep
    /\ UNCHANGED <<mined, aged, pageVars, rows, news, calls>>

\* A week in which the crons may not have run: launches leave the window they look
\* back to, intents become old.
Lapse ==
    /\ cron = Off /\ sweep = {} /\ \A p \in Procs : At(p, "idle")
    /\ Budget("lapse") /\ Spend("lapse")
    /\ aged' = mined
    /\ rows' = [i \in 1..Len(rows) |-> [rows[i] EXCEPT !.old = TRUE, !.quiet = TRUE]]
    /\ news' = [t \in Tokens |-> [news[t] EXCEPT !.quiet = news[t] # NoIntent]]
    /\ UNCHANGED <<mined, pageVars, proc, cron, sweep, calls>>

-----------------------------------------------------------------------------
Init ==
    /\ mined = {} /\ indexed = {} /\ aged = {} /\ shown = {}
    /\ link = [t \in Tokens |-> None]
    /\ rows = <<>>
    /\ news = [t \in Tokens |-> NoIntent]
    /\ proc = [p \in Procs |-> Idle]
    /\ cron = Off
    /\ sweep = {}
    /\ calls = 0
    /\ faults = [kind \in FaultKinds |-> 0]

Continue(p) == Read(p) \/ Apply(p) \/ Mark(p) \/ UpsertNews(p) \/ LinkNews(p) \/ SettleNews(p)
               \/ Pin(p) \/ Bound(p)

Next ==
    \/ \E t \in Tokens : Mine(t) \/ Index(t)
    \/ \E p \in Procs : StartPin(p) \/ Bind(p) \/ Display(p) \/ Activate(p) \/ Continue(p) \/ Die(p)
    \/ Cron \/ StartSweep \/ Sweep \/ Lapse

Spec == Init /\ [][Next]_vars

\* The indexer reaches every mined launch, both crons are scheduled again and
\* again, and a request that was accepted is executed.
Fairness ==
    /\ \A t \in Tokens : WF_vars(t \notin indexed /\ Index(t))
    /\ \A p \in Procs : WF_vars(Continue(p))
    /\ WF_vars(Cron) /\ WF_vars(StartSweep) /\ WF_vars(Sweep)

FairSpec == Spec /\ Fairness

-----------------------------------------------------------------------------
(* Properties. *)

TypeOK ==
    /\ shown \subseteq indexed /\ indexed \subseteq mined /\ aged \subseteq mined
    /\ link \in [Tokens -> NewsDrafts \union {None}]
    /\ \A i \in 1..Len(rows) : rows[i].status \in
           {"awaiting_token", "pending", "done", "failed", "expired", "noop"}
    /\ ~Violates(rows)

\* Four writers settle a news intent, some with what they read steps before: none of
\* them may call it done while the token has no article.
NewsDoneIsLinked ==
    \A t \in Tokens : news[t].status = "done" => link[t] # None

\* The page of a token is what MarketPage promises, through every interleaving of
\* requests, crons and transactions.
Page == INSTANCE MarketPage WITH
            Origins <- [t \in Tokens |-> {DraftOf[u] : u \in {v \in Tokens : UriOf[v] = UriOf[t]}}]
PageSpec == Page!Spec

\* An indexed token gets its image while the crons look back to it, whatever requests
\* died and whichever intent was taken, refused or never recorded.
ImageShown ==
    \A t \in Tokens : t \in indexed ~> t \in shown \union aged

\* "indexer display success must not leave ZHANG-class gap": an image that is done
\* gets its news intent, even if the request that should have written it died.
GapCloses ==
    \A t \in Tokens :
        (\E i \in 1..Len(rows) : Gap(rows[i]) /\ rows[i].token = t)
            ~> (news[t] # NoIntent \/ t \in aged)

\* The pin recorded a news draft for the image of an indexed token, but the token
\* has no article yet.
LoreDue(t) ==
    /\ t \in indexed /\ link[t] = None
    /\ \E i \in 1..Len(rows) : rows[i].uri = UriOf[t] /\ rows[i].draft \in NewsDrafts

\* The intents gave up: the image failed for good, or attempts or time ran out.
GaveUp(t) ==
    \/ t \in aged \/ news[t].attempts = NewsMaxAttempts \/ news[t].status = "expired"
    \/ \E i \in 1..Len(rows) :
           /\ rows[i].uri = UriOf[t]
           /\ rows[i].status \in {"failed", "expired"} \/ rows[i].attempts = MaxAttempts

\* The crons recover a closed browser and transient failures, unless a process is
\* stopped at an unlucky moment: what was recorded at the pin becomes the token's
\* lore while attempts are left (reconcile-token-display-images.ts:47).
LoreKept == \A t \in Tokens : LoreDue(t) ~> ~LoreDue(t) \/ GaveUp(t) \/ faults["die"] > 0
=============================================================================
