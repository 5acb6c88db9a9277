----------------------------- MODULE MCBalancer -----------------------------
(***************************************************************************)
(* Instances of Balancer for TLC.                                          *)
(***************************************************************************)
EXTENDS Balancer

MCEndpoints == 1..2
=============================================================================
