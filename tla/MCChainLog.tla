---------------------------- MODULE MCChainLog ----------------------------
(* A small instance of ChainLog: two server processes of one thread each. *)
EXTENDS ChainLog, TLC

CONSTANTS t1, t2, p1, p2

MCProcOf == (t1 :> p1) @@ (t2 :> p2)
=============================================================================
