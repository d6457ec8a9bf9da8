------------------------------ MODULE MarketPage ------------------------------
(***************************************************************************)
(* What readers of a token's page may rely on, whatever requests, cron     *)
(* jobs and indexer transactions maintain it: the token is indexed, then   *)
(* it may get a display image, which is never taken away, and at most one  *)
(* originating article, which is the article of a launch of the same image *)
(* and never changes.                                                      *)
(***************************************************************************)
CONSTANTS
    Tokens,
    Origins,    \* token -> drafts whose article it may be attributed to
    None

VARIABLES indexed, shown, link

vars == <<indexed, shown, link>>

Init ==
    /\ indexed = {}
    /\ shown = {}
    /\ link = [t \in Tokens |-> None]

\* The token is unattributed or stays attributed as it was.
Attributed(t) ==
    \/ link' = link
    \/ link[t] = None /\ \E d \in Origins[t] : link' = [link EXCEPT ![t] = d]

\* Indexing may find the image and the article at once.
Index(t) ==
    /\ t \notin indexed
    /\ indexed' = indexed \union {t}
    /\ shown' \in {shown, shown \union {t}}
    /\ Attributed(t)

Show(t) ==
    /\ t \in indexed
    /\ shown' = shown \union {t}
    /\ Attributed(t)

Link(t) ==
    /\ t \in indexed
    /\ Attributed(t)
    /\ UNCHANGED shown

Next == \E t \in Tokens : Index(t) \/ ((Show(t) \/ Link(t)) /\ UNCHANGED indexed)

Spec == Init /\ [][Next]_vars
=============================================================================
