---------------------------- MODULE MCFeeKeeper ----------------------------
(* A market whose token cannot be distributed and whose receipts fail       *)
(* verification comes before a market without such trouble.                 *)
EXTENDS FeeKeeper

CONSTANTS k1, k2, failing, sound

Order == <<failing, sound>>
TokenStuck == {<<failing, "token">>}
=============================================================================
