------------------------------- MODULE MCTaint -------------------------------
(***************************************************************************)
(* Instance of Taint for TLC.                                               *)
(***************************************************************************)
EXTENDS Taint, TLC

CONSTANTS f1, f2, f3, none

MCFailureIds == {f1, f2, f3}

Symmetric == Permutations(MCFailureIds)
=============================================================================
