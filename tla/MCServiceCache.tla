--------------------------- MODULE MCServiceCache ---------------------------
(***************************************************************************)
(* Instances of ServiceCache for TLC.                                      *)
(***************************************************************************)
EXTENDS ServiceCache, TLC

\* The names of services and of providers have no meaning of their own.
MCSymmetry == Permutations(Keys)
=============================================================================
