------------------------------ MODULE MCIntents ------------------------------
(* Small instances of Intents: tokens "a" and "b" of drafts "A" and "B". *)
EXTENDS Intents

OneImage == [t \in Tokens |-> "image"]
OwnDrafts == [t \in Tokens |-> IF t = "a" THEN "A" ELSE "B"]
Faults(die, mirror, reindex, lapse) ==
    [die |-> die, mirror |-> mirror, reindex |-> reindex, lapse |-> lapse]
EachOnce == Faults(1, 1, 1, 1)
=============================================================================
