------------------------------ MODULE MemoryPage ------------------------------
(***************************************************************************)
(* A page carved into slices (cubecl-server, memory_pool/memory_page.rs):   *)
(* try_reserve and coalesce, as operators on the sequence of slices.        *)
(*                                                                         *)
(* Every operator takes the set of handles that are held outside the pool.  *)
(***************************************************************************)
EXTENDS PoolSlice, Sequences, SequencesExt

Slice(offset, size) == [offset |-> offset, size |-> size, padding |-> 0, handle |-> None]

IsEmpty(slices, held) == \A i \in DOMAIN slices : IsFree(slices[i], held)

-----------------------------------------------------------------------------
(* try_reserve *)

CanUse(slice, size, held) ==
  slice.size >= size + Padding(size) /\ IsFree(slice, held)

\* The first slice with room, 0 when there is none.
MutantAnySlice(slices, size, held) ==
  SelectInSeq(slices, LAMBDA slice : slice.size >= size + Padding(size))

Candidate(slices, size, held) ==
  SelectInSeq(slices, LAMBDA slice : CanUse(slice, size, held))

\* The slice shrinks to the request and the rest of it becomes a slice of its
\* own. What the last allocation had as padding belongs to neither.
MutantSplitUnpadded(slices, i, size, handle) ==
  LET old == slices[i]
      reserved == [old EXCEPT !.size = size, !.padding = Padding(size), !.handle = handle]
  IN  IF old.size > size
      THEN InsertAt([slices EXCEPT ![i] = reserved], i + 1,
                    Slice(old.offset + size, old.size - size))
      ELSE [slices EXCEPT ![i] = reserved]

Reserved(slices, i, size, handle) ==
  LET old == slices[i]
      effective == size + Padding(size)
      reserved == [old EXCEPT !.size = size, !.padding = Padding(size), !.handle = handle]
  IN  IF old.size > effective
      THEN InsertAt([slices EXCEPT ![i] = reserved], i + 1,
                    Slice(old.offset + effective, old.size - effective))
      ELSE [slices EXCEPT ![i] = reserved]

-----------------------------------------------------------------------------
(* coalesce *)

\* MemoryJob::add: a single slice merges with nothing.
JobAdd(job) ==
  [tasks |-> IF job.count < 2 THEN job.tasks
             ELSE Append(job.tasks, [start |-> job.start, count |-> job.count]),
   start |-> 0, count |-> 0]

\* One slice of memory_job's walk: a run of free slices goes on or ends.
JobStep(job, i, free) ==
  IF free
  THEN [job EXCEPT !.start = IF job.count = 0 THEN i ELSE @, !.count = @ + 1]
  ELSE JobAdd(job)

\* The walk over the first n slices.
JobWalk(slices, held) ==
  LET job[n \in 0 .. Len(slices)] ==
        IF n = 0 THEN [tasks |-> <<>>, start |-> 0, count |-> 0]
        ELSE JobStep(job[n - 1], n, IsFree(slices[n], held))
  IN  job[Len(slices)]

\* memory_job: the runs of free slices.
MutantNoLastRun(slices, held) == JobWalk(slices, held).tasks

MemoryJob(slices, held) == JobAdd(JobWalk(slices, held)).tasks

\* One slice of the drain: on_coalesce says whether it is kept, starts a
\* merge, continues it, or completes it.
CoalesceStep(acc, i, slice) ==
  LET task == Head(acc.tasks)
      cursor == acc.cursor + 1
  IN  IF acc.tasks = <<>> \/ task.start + acc.cursor # i
      THEN [acc EXCEPT !.slices = Append(@, slice)]
      ELSE IF cursor = 1
      THEN [acc EXCEPT !.cursor = 1, !.offset = slice.offset, !.size = EffectiveSize(slice)]
      ELSE IF cursor = task.count
      THEN [acc EXCEPT !.tasks = Tail(@), !.cursor = 0,
                       !.slices = Append(@, Slice(acc.offset, acc.size + EffectiveSize(slice)))]
      ELSE [acc EXCEPT !.cursor = cursor, !.size = @ + EffectiveSize(slice)]

Coalesced(slices, held) ==
  LET tasks == MemoryJob(slices, held)
      drained[n \in 0 .. Len(slices)] ==
        IF n = 0 THEN [slices |-> <<>>, tasks |-> tasks, cursor |-> 0, offset |-> 0, size |-> 0]
        ELSE CoalesceStep(drained[n - 1], n, slices[n])
  IN  IF tasks = <<>> THEN slices ELSE drained[Len(slices)].slices

\* Adding or merging slices rewrites the slice index of every handle on the
\* page; location[h] is <<page, slice>>.
Positioned(location, page, old, new) ==
  [h \in DOMAIN location |->
     IF Len(old) # Len(new) /\ \E i \in DOMAIN new : new[i].handle = h
     THEN <<page, CHOOSE i \in DOMAIN new : new[i].handle = h>>
     ELSE location[h]]
=============================================================================
