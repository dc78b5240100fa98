---------------------------- MODULE MCRpcBridge ----------------------------
(* Model checking of RpcBridge: the bounds are given in the .cfg files.    *)
EXTENDS RpcBridge
=============================================================================
