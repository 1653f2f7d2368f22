------------------------------ MODULE PoolSlice -------------------------------
(***************************************************************************)
(* What the memory pools share (memory_pool/base.rs): a slice is a record   *)
(* with at least a size, a padding and the handle of its allocation, None   *)
(* when it was never bound.                                                 *)
(***************************************************************************)
EXTENDS Integers

CONSTANTS
  Alignment,    \* of every slice, in bytes
  None

ASSUME AlignmentAssumption == Alignment \in Nat \ {0}

\* calculate_padding
Padding(size) ==
  LET remainder == size % Alignment
  IN  IF remainder # 0 THEN Alignment - remainder ELSE 0

EffectiveSize(slice) == slice.size + slice.padding

\* A slice is free when nobody but the pool has its handle.
IsFree(slice, held) == slice.handle \notin held
=============================================================================
