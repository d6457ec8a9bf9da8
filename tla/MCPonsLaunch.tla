---------------------------- MODULE MCPonsLaunch ----------------------------
(* Instances of PonsLaunch for TLC. *)
EXTENDS PonsLaunch

\* A day is shorter than half a year; both are counted in safety margins.
PolicyLength == [p \in {"lock_24h", "lock_6m"} |-> IF p = "lock_24h" THEN 1 ELSE 3]
SixMonths == [p \in {"lock_6m"} |-> 3]
=============================================================================
