-------------------------------- MODULE Ledger --------------------------------
(***************************************************************************)
(* What the readers of the indexer's rows and checkpoint (pages, observer, *)
(* holder-rewards worker) may rely on, whatever replays, crashes and       *)
(* reorganisations happen: the ledger grows at its end and is cut at its   *)
(* end.  Nothing appears at or below a checkpoint that was read, and what  *)
(* is there stays until the checkpoint goes back below it or its key gets  *)
(* a place above the checkpoint; a sealed entry keeps its place for good.  *)
(***************************************************************************)
EXTENDS Naturals

CONSTANT Keys

VARIABLES
    height,     \* the checkpoint that readers see
    place,      \* key -> block of its entry, 0 when there is none
    sealed      \* keys whose entries are final

vars == <<height, place, sealed>>

Init ==
    /\ height = 0
    /\ place = [k \in Keys |-> 0]
    /\ sealed = {}

\* Entries above the old height, also of keys that had one below.
Extend ==
    /\ height < height'
    /\ \A k \in Keys :
        place'[k] = place[k] \/ (k \notin sealed /\ place'[k] \in height + 1 .. height')
    /\ sealed \subseteq sealed'
    /\ \A k \in sealed' \ sealed : height < place'[k]

\* A replay begins at block h, which no sealed entry has reached.
Rollback ==
    /\ \E h \in 1 .. height :
        /\ \A k \in sealed : place[k] < h
        /\ height' = h - 1
        /\ place' = [k \in Keys |-> IF place[k] < h THEN place[k] ELSE 0]
    /\ UNCHANGED sealed

Seal ==
    /\ sealed \subseteq sealed'
    /\ \A k \in sealed' : place[k] # 0
    /\ UNCHANGED <<height, place>>

Next == Extend \/ Rollback \/ Seal

Spec == Init /\ [][Next]_vars
=============================================================================
