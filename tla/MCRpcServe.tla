----------------------------- MODULE MCRpcServe -----------------------------
(* Instance of RpcServe for TLC.                                           *)
EXTENDS RpcServe
=============================================================================
