----------------------------- MODULE MCPoolArena ------------------------------
(***************************************************************************)
(* A small instance of PoolArena: two small allocations that share a page,  *)
(* and one that outgrows the pages.                                         *)
(***************************************************************************)
EXTENDS PoolArena, TLC

CONSTANTS h1, h2, h3

MCHandles == {h1, h2, h3}
MCSizesOf == (h1 :> {1}) @@ (h2 :> {1}) @@ (h3 :> {3, 5})
Symmetric == Permutations({h1, h2})
=============================================================================
