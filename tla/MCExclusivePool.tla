---------------------------- MODULE MCExclusivePool ---------------------------
(***************************************************************************)
(* Small instances of ExclusivePool.                                        *)
(***************************************************************************)
EXTENDS ExclusivePool

CONSTANTS h1, h2, h3

MCHandles == {h1, h2, h3}
Symmetric == Permutations(Handles)
=============================================================================
