----------------------------- MODULE MCRpcConn -----------------------------
(* RpcConn for TLC: the configurations pick how many calls, listeners and  *)
(* messages from the bus there are, and which of them may be dropped.      *)
EXTENDS RpcConn, TLC

\* Calls differ only in their names (for runs that check no liveness).
MCCalls == Permutations(Calls)
=============================================================================
