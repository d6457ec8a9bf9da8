--------------------------- MODULE MCAuthSession ---------------------------
(* Small instances of AuthSession. *)
EXTENDS AuthSession

CONSTANTS a, b, sol
=============================================================================
