----------------------------- MODULE MCSlicedPool -----------------------------
(***************************************************************************)
(* Small instances of SlicedPool.                                           *)
(***************************************************************************)
EXTENDS SlicedPool

CONSTANTS h1, h2, h3

MCHandles == {h1, h2, h3}
MCSizes == {1, 5}
Symmetric == Permutations(Handles)
=============================================================================
