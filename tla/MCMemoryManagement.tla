-------------------------- MODULE MCMemoryManagement --------------------------
(***************************************************************************)
(* A small instance of MemoryManagement.                                    *)
(***************************************************************************)
EXTENDS MemoryManagement

CONSTANTS h1, h2

MCHandles == {h1, h2}
Symmetric == Permutations(Handles)
=============================================================================
