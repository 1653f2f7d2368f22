---------------------------- MODULE PersistentPool ----------------------------
(***************************************************************************)
(* The pool of long-lived allocations (memory_pool/persistent_pool.rs): a   *)
(* device allocation per slice, found again through an index by padded      *)
(* size, given back only by an explicit cleanup, which rebuilds the slices, *)
(* the index and the locations of the handles.                              *)
(***************************************************************************)
EXTENDS PoolSlice, Sequences, SequencesExt

CONSTANTS
  Handles,      \* handles of the program
  Sizes,        \* sizes it asks for
  MaxSlices     \* bound: slices the device can give

VARIABLES
  slices,       \* Vec<Slice>; backing is the bytes behind it, 0 when lazy
  sizes,        \* padded size -> positions, in the order they were added
  location,     \* the descriptors: slice index of each owned handle, 0 for others
  held          \* handles owned outside the pool, by the program or a guard

vars == <<slices, sizes, location, held>>

PaddedSizes == {size + padding : size \in Sizes, padding \in 0 .. Alignment - 1}

Init ==
  /\ slices = <<>>
  /\ sizes = [s \in PaddedSizes |-> <<>>]
  /\ location = [h \in Handles |-> 0]
  /\ held = {}

\* try_reserve: the first free position of the padded size, 0 for none.
MutantFindsOwned(size) ==
  LET positions == sizes[size + Padding(size)]
  IN  IF positions = <<>> THEN 0 ELSE positions[1]

Found(size) ==
  LET positions == sizes[size + Padding(size)]
      k == SelectInSeq(positions, LAMBDA i : IsFree(slices[i], held))
  IN  IF k = 0 THEN 0 ELSE positions[k]

\* try_reserve and bind. The padding stays that of the last allocation.
TryReserve(h, size) ==
  LET i == Found(size)
  IN  /\ h \notin held /\ i # 0
      /\ slices' = [slices EXCEPT ![i].size = size, ![i].handle = h]
      /\ location' = [location EXCEPT ![h] = i]
      /\ held' = held \cup {h}
      /\ UNCHANGED sizes

HasSize(size) == sizes[size + Padding(size)] # <<>>

\* alloc and bind, eager or lazy.
Alloc(h, size, mapped) ==
  /\ h \notin held /\ Len(slices) < MaxSlices
  /\ slices' = Append(slices,
       [size |-> size, padding |-> Padding(size), handle |-> h, mapped |-> mapped,
        backing |-> IF mapped THEN size + Padding(size) ELSE 0])
  /\ sizes' = [sizes EXCEPT ![size + Padding(size)] = Append(@, Len(slices) + 1)]
  /\ location' = [location EXCEPT ![h] = Len(slices) + 1]
  /\ held' = held \cup {h}

\* The last owner of an allocation lets it go. The handle of a slice that only
\* the pool has is of no consequence.
DropHandle(h) ==
  /\ h \in held
  /\ held' = held \ {h}
  /\ slices' = [slices EXCEPT ![location[h]].handle = None]
  /\ location' = [location EXCEPT ![h] = 0]
  /\ UNCHANGED sizes

\* materialize: the real allocation is as large as effective_size says.
Materialize(h) ==
  LET i == location[h]
  IN  /\ h \in held /\ ~slices[i].mapped /\ slices[i].handle = h
      /\ slices' = [slices EXCEPT ![i].mapped = TRUE, ![i].backing = EffectiveSize(slices[i])]
      /\ UNCHANGED <<sizes, location, held>>

\* An explicit cleanup: free slices go back, the rest move up, the index is
\* rebuilt.
Relocated(kept) ==
  [h \in Handles |->
     IF h \in held THEN SelectInSeq(kept, LAMBDA slice : slice.handle = h) ELSE location[h]]

Indexed(kept) ==
  [s \in PaddedSizes |->
     SelectSeq([i \in DOMAIN kept |-> i], LAMBDA i : EffectiveSize(kept[i]) = s)]

Cleanup ==
  LET kept == SelectSeq(slices, LAMBDA slice : ~IsFree(slice, held))
  IN  /\ slices' = kept
      /\ sizes' = Indexed(kept)
      /\ location' = Relocated(kept)
      /\ UNCHANGED held

Next ==
  \/ \E h \in Handles, size \in Sizes :
       TryReserve(h, size) \/ \E mapped \in BOOLEAN : Alloc(h, size, mapped)
  \/ \E h \in Handles : DropHandle(h) \/ Materialize(h)
  \/ Cleanup

Spec == Init /\ [][Next]_vars

-----------------------------------------------------------------------------

TypeOK ==
  /\ \A i \in DOMAIN slices :
       /\ slices[i].size \in Sizes /\ slices[i].backing \in Nat
       /\ slices[i].padding \in 0 .. Alignment - 1
       /\ slices[i].handle \in held \cup {None}
  /\ location \in [Handles -> 0 .. MaxSlices] /\ held \subseteq Handles

\* The index names every slice exactly once, across allocations and the rebuild
\* of a cleanup: no slice is lost to reuse, none is out of range.
IndexedOnce ==
  \A i \in 1 .. MaxSlices :
    LET places == {<<s, k>> \in PaddedSizes \X (1 .. MaxSlices) :
                     k \in DOMAIN sizes[s] /\ sizes[s][k] = i}
    IN  IF i \in DOMAIN slices THEN \E p \in places : places = {p} ELSE places = {}

\* The descriptor of every owned handle leads to its own slice, also after a
\* cleanup moved it up.
HandlesFound ==
  \A h \in held : location[h] \in DOMAIN slices /\ slices[location[h]].handle = h

\* What every reservation, drop, mapping and rebuild preserves.
PoolInv == TypeOK /\ IndexedOnce /\ HandlesFound

\* A slice "owns its whole buffer": the device allocation behind a mapped slice
\* covers the allocation it was handed out for.
FitsAllocation ==
  \A i \in DOMAIN slices : slices[i].mapped => slices[i].size <= slices[i].backing
=============================================================================
