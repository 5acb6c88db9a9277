----------------------------- MODULE MCRpcSystem -----------------------------
(***************************************************************************)
(* RpcSystem for TLC: how each client and each front calls.                *)
(***************************************************************************)
EXTENDS RpcSystem

CONSTANTS c1, c2, f1, f2

MCMode == [a \in {c1, c2, f1, f2} |->
             CASE a = c1 -> "SERVER" [] a = c2 -> "CLIENT"
               [] a = f1 -> "CLIENT" [] a = f2 -> "SERVER"]
=============================================================================
