-------------------------- MODULE MCHolderRewards --------------------------
(***************************************************************************)
(* Instances of HolderRewards with two rounds.  Two holders are eligible   *)
(* at the first block and none later: the second round has no holders, or  *)
(* those of an earlier block when its snapshot was taken too early.        *)
(***************************************************************************)
EXTENDS HolderRewards

CONSTANTS alice, bob

TwoHolders  == {alice, bob}
ShortHours  == [r \in Rounds |-> r + 1]
HoldersLeave == [b \in 1 .. MaxHead |-> IF b = 1 THEN TwoHolders ELSE {}]
=============================================================================
