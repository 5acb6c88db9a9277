----------------------------- MODULE MCRpcClient -----------------------------
(***************************************************************************)
(* Instances of RpcClient for TLC.                                         *)
(***************************************************************************)
EXTENDS RpcClient, TLC
=============================================================================
