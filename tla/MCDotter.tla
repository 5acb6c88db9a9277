------------------------------ MODULE MCDotter ------------------------------
(***************************************************************************)
(* Instances of Dotter for TLC.                                            *)
(***************************************************************************)
EXTENDS Dotter
=============================================================================
