----------------------------- MODULE MCRpcCall ------------------------------
(* Instance of RpcCall for TLC: the main thread and one other thread.      *)
EXTENDS RpcCall
=============================================================================
