----------------------------- MODULE MCPumpWorker -----------------------------
(* Small instances of PumpWorker. *)
EXTENDS PumpWorker

Faults(listing, close, connect, rpc, drop, crash) ==
    [listing |-> listing, close |-> close, connect |-> connect, rpc |-> rpc,
     drop |-> drop, crash |-> crash]

EachFaultOnce == Faults(2, 1, 1, 1, 1, 1)
=============================================================================
