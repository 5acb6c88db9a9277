---------------------------- MODULE MCRpcServer ----------------------------
(***************************************************************************)
(* Instances of RpcServer for TLC.                                         *)
(***************************************************************************)
EXTENDS RpcServer, TLC

\* A body of two bytes, so a frame of 11.
MCBodyLen == 2

\* The network cuts frames inside the body only.
MCBodyCuts == {8}

\* It may cut in the header, in the body and before the last CR LF.
MCAllCuts == {3, 8, 9}

\* The kernel's numbers have no meaning of their own.
MCFdSymmetry == Permutations(Fds)
=============================================================================
