------------------------------ MODULE DirectPool ------------------------------
(***************************************************************************)
(* The pool that does no carving (memory_pool/direct_pool.rs): a device     *)
(* allocation per slice, reused by exact padded size, given back by reclaim *)
(* down to a ceiling. An index of slices is the location of a handle, so a  *)
(* slice that went back leaves a tombstone. Its MemoryPool::cleanup has no  *)
(* caller and is left out.                                                  *)
(*                                                                         *)
(* A reservation is bound to the caller's handle in the same step. A guard  *)
(* is one more owner of the handle, and the last owner lets go on any       *)
(* thread, between any two calls.                                           *)
(***************************************************************************)
EXTENDS PoolSlice, Sequences, FiniteSets, SequencesExt

CONSTANTS
  Handles,      \* handles of the program
  Sizes,        \* sizes it asks for
  ReclaimAt,    \* the ceiling, None for a pool that never reclaims
  Tombstone,
  MaxSlices     \* bound: slices the device can give

ASSUME DirectAssumption ==
  /\ Sizes \subseteq Nat
  /\ ReclaimAt \in Nat \cup {None}
  /\ None \notin Handles /\ None \notin Nat

VARIABLES
  slices,       \* Vec<Option<Slice>>; backing is the bytes behind it, 0 when lazy
  vacant,       \* the positions of the tombstones; the order of reuse is left open
  location,     \* the descriptors: slice index of each owned handle, 0 for others
  held          \* handles owned outside the pool, by the program or a guard

vars == <<slices, vacant, location, held>>

Live == {i \in DOMAIN slices : slices[i] # Tombstone}

Free == {i \in Live : IsFree(slices[i], held)}

Init ==
  /\ slices = <<>> /\ vacant = {}
  /\ location = [h \in Handles |-> 0]
  /\ held = {}

\* try_reserve and bind: a free slice of exactly the padded size.
Fits(size) == {i \in Free : EffectiveSize(slices[i]) = size + Padding(size)}

MutantKeepsPadding(slice, size, h) == [slice EXCEPT !.size = size, !.handle = h]

Retaken(slice, size, h) ==
  [slice EXCEPT !.size = size, !.padding = Padding(size), !.handle = h]

TryReserve(h, size) ==
  /\ h \notin held /\ Fits(size) # {}
  /\ LET i == CHOOSE i \in Fits(size) : \A j \in Fits(size) : i <= j
     IN  /\ slices' = [slices EXCEPT ![i] = Retaken(@, size, h)]
         /\ location' = [location EXCEPT ![h] = i]
  /\ held' = held \cup {h}
  /\ UNCHANGED vacant

\* alloc and bind, eager or lazy.
NewSlice(size, h, mapped) ==
  [size |-> size, padding |-> Padding(size), handle |-> h, mapped |-> mapped,
   backing |-> IF mapped THEN size + Padding(size) ELSE 0]

Alloc(h, size, mapped) ==
  /\ h \notin held /\ Cardinality(Live) < MaxSlices
  /\ IF vacant # {}
     THEN \E i \in vacant : /\ slices' = [slices EXCEPT ![i] = NewSlice(size, h, mapped)]
                            /\ location' = [location EXCEPT ![h] = i]
                            /\ vacant' = vacant \ {i}
     ELSE /\ slices' = Append(slices, NewSlice(size, h, mapped))
          /\ location' = [location EXCEPT ![h] = Len(slices) + 1]
          /\ UNCHANGED vacant
  /\ held' = held \cup {h}

\* The last owner of an allocation lets it go. The handle of a slice that only
\* the pool has is of no consequence.
DropHandle(h) ==
  /\ h \in held
  /\ held' = held \ {h}
  /\ slices' = [slices EXCEPT ![location[h]].handle = None]
  /\ location' = [location EXCEPT ![h] = 0]
  /\ UNCHANGED vacant

\* materialize: the real allocation is as large as the slice says it is.
Materialize(h) ==
  LET i == location[h]
  IN  /\ h \in held
      /\ slices[i] # Tombstone /\ ~slices[i].mapped /\ slices[i].handle = h
      /\ slices' = [slices EXCEPT ![i].mapped = TRUE, ![i].backing = EffectiveSize(slices[i])]
      /\ UNCHANGED <<vacant, location, held>>

\* The slices in `gone` go back to the driver.
Release(gone) ==
  /\ slices' = [i \in DOMAIN slices |-> IF i \in gone THEN Tombstone ELSE slices[i]]
  /\ vacant' = vacant \cup gone
  /\ UNCHANGED <<location, held>>

Bytes(positions) ==
  FoldLeftDomain(LAMBDA n, i : n + (IF i \in positions THEN EffectiveSize(slices[i]) ELSE 0),
                 0, slices)

\* release_free: in index order, until what is left is under the ceiling.
MutantStopsEarly ==
  {i \in Free : Bytes(Live \ {j \in Free : j <= i}) > ReclaimAt}

Reclaimable ==
  {i \in Free : Bytes(Live \ {j \in Free : j < i}) > ReclaimAt}

Reclaim == ReclaimAt # None /\ Release(Reclaimable)

Next ==
  \/ \E h \in Handles, size \in Sizes :
       TryReserve(h, size) \/ \E mapped \in BOOLEAN : Alloc(h, size, mapped)
  \/ \E h \in Handles : DropHandle(h) \/ Materialize(h)
  \/ Reclaim

Spec == Init /\ [][Next]_vars

-----------------------------------------------------------------------------

SliceRecord ==
  [size : Nat, padding : Nat, handle : Handles \cup {None}, mapped : BOOLEAN, backing : Nat]

\* The shape of the pool: sizes and paddings are u64 and never go below zero.
TypeOK ==
  /\ slices \in Seq(SliceRecord \cup {Tombstone})
  /\ location \in [Handles -> Nat]
  /\ held \subseteq Handles

\* vacant names exactly the tombstones, through every release and reuse: alloc
\* never overwrites a slice and the vector does not grow past what it needs.
VacantAreTombstones == vacant = {i \in DOMAIN slices : slices[i] = Tombstone}

\* Whatever an owned handle stands for is where its descriptor says, and no two
\* owners share a slice: reuse, tombstones and releases never hand out memory
\* somebody still has.
OwnersFound ==
  \A h \in held : /\ location[h] \in DOMAIN slices
                  /\ slices[location[h]] # Tombstone
                  /\ slices[location[h]].handle = h

\* The handle of a slice somebody owns is that of its owner.
HandlesOwned ==
  \A i \in Live : slices[i].handle # None =>
    slices[i].handle \in held /\ location[slices[i].handle] = i

\* effective_size describes the device allocation: it is what reclaim counts,
\* what exact-fit reuse compares and what materialize allocates.
EffectiveIsAllocation ==
  \A i \in Live : slices[i].mapped => slices[i].backing = EffectiveSize(slices[i])

\* What every reservation, drop, mapping and reclaim preserves.
PoolInv ==
  TypeOK /\ VacantAreTombstones /\ OwnersFound /\ HandlesOwned /\ EffectiveIsAllocation
=============================================================================
