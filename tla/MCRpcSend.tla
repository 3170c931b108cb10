------------------------------ MODULE MCRpcSend -----------------------------
(* Instance of RpcSend for TLC: two threads, two connections.              *)
EXTENDS RpcSend
=============================================================================
