------------------------------ MODULE SlicedPool ------------------------------
(***************************************************************************)
(* A pool of pages of one size (memory_pool/sliced_pool.rs), over the page  *)
(* operators of MemoryPage: reserve, the drop of a handle by its owner,     *)
(* guards, materialize and the explicit cleanup.                            *)
(*                                                                         *)
(* A reservation is bound to the caller's handle in the same step, as       *)
(* Command::initialize_memory does. Taint on the slices is the subject of   *)
(* module Failures.                                                         *)
(***************************************************************************)
EXTENDS MemoryPage, FiniteSets

CONSTANTS
  Handles,      \* handles of the program
  Sizes,        \* sizes it asks for
  PageSize, MaxSliceSize,
  MaxPages,     \* bound: pages the device can give
  Ids           \* storage ids; one is minted again once nothing names it

ASSUME PoolAssumption ==
  /\ PageSize \in Nat \ {0} /\ PageSize % Alignment = 0
  /\ MaxSliceSize \in 0 .. PageSize
  /\ Sizes \subseteq Nat
  /\ Cardinality(Ids) > MaxPages

VARIABLES
  pages,        \* the pages, each with its storage id, slices, backing, guards
  location,     \* the descriptors: <<page, slice>> of each handle
  held,         \* handles alive outside the pool
  device        \* ids the driver has memory for

vars == <<pages, location, held, device>>

NoLocation == <<0, 0>>

Guarded(page) == page.guards > 0

\* near_page_size: at most a fifth of the page goes unused.
Accept(size) ==
  MaxSliceSize >= size \/ (size <= PageSize /\ (PageSize - size) * 5 < PageSize)

Minted == CHOOSE id \in Ids : id \notin device /\ \A p \in DOMAIN pages : pages[p].id # id

Init ==
  /\ pages = <<>>
  /\ location = [h \in Handles |-> NoLocation]
  /\ held = {} /\ device = {}

\* The pages and locations after the unguarded pages among the first n
\* coalesced.
CoalescedPages(n) ==
  [p \in DOMAIN pages |->
     IF p <= n /\ ~Guarded(pages[p])
     THEN [pages[p] EXCEPT !.slices = Coalesced(@, held)]
     ELSE pages[p]]

Relocated(new) ==
  [h \in Handles |->
     IF h \in held
     THEN LET p == location[h][1]
          IN  Positioned(location, p, pages[p].slices, new[p].slices)[h]
     ELSE location[h]]

\* The first unguarded page that, coalesced, has room: 0 when none has.
MutantIgnoresGuard(size) ==
  SelectInSeq(CoalescedPages(Len(pages)),
              LAMBDA page : Candidate(page.slices, size, held) # 0)

PageWithRoom(size) ==
  SelectInSeq(CoalescedPages(Len(pages)),
              LAMBDA page : ~Guarded(page) /\ Candidate(page.slices, size, held) # 0)

\* reserve_free and bind.
ReserveFree(h, size) ==
  LET p == PageWithRoom(size)
      coalesced == CoalescedPages(p)
      slices == coalesced[p].slices
      i == Candidate(slices, size, held)
      reserved == Reserved(slices, i, size, h)
  IN  /\ Accept(size) /\ h \notin held /\ p # 0
      /\ pages' = [coalesced EXCEPT ![p].slices = reserved]
      /\ location' = [Positioned(Relocated(coalesced), p, slices, reserved)
                        EXCEPT ![h] = <<p, i>>]
      /\ held' = held \cup {h}
      /\ UNCHANGED device

\* alloc_page and bind, once reserve_free coalesced every page in vain. The
\* mapping is eager, or lazy under a dry run.
AllocPage(h, size) ==
  LET n == Len(pages)
      whole == <<Slice(0, PageSize)>>
  IN  /\ Accept(size) /\ h \notin held /\ PageWithRoom(size) = 0
      /\ n < MaxPages
      /\ \E mapped \in BOOLEAN :
           /\ pages' = Append(CoalescedPages(n),
                [id |-> Minted, mapped |-> mapped, guards |-> 0,
                 slices |-> Reserved(whole, 1, size, h)])
           /\ device' = IF mapped THEN device \cup {Minted} ELSE device
      /\ location' = [Relocated(CoalescedPages(n)) EXCEPT ![h] = <<n + 1, 1>>]
      /\ held' = held \cup {h}

\* The driver refuses the page; the coalescing stays.
AllocRefused(size) ==
  /\ Accept(size) /\ PageWithRoom(size) = 0
  /\ pages' = CoalescedPages(Len(pages))
  /\ location' = Relocated(CoalescedPages(Len(pages)))
  /\ UNCHANGED <<held, device>>

\* The last owner of an allocation drops it, on any thread. The page alone has
\* the handle of the slice now, so its name is of no consequence.
Drop(h) ==
  /\ h \in held
  /\ held' = held \ {h}
  /\ pages' = [pages EXCEPT ![location[h][1]].slices[location[h][2]].handle = None]
  /\ location' = [location EXCEPT ![h] = NoLocation]
  /\ UNCHANGED device

\* materialize, before the storage of a handle is used: find's identity check
\* precedes the mapping.
Materialize(h) ==
  LET p == location[h][1]
  IN  /\ h \in held
      /\ pages[p].slices[location[h][2]].handle = h
      /\ ~pages[p].mapped
      /\ pages' = [pages EXCEPT ![p].id = Minted, ![p].mapped = TRUE]
      /\ device' = device \cup {Minted}
      /\ UNCHANGED <<location, held>>

Guard(h) ==
  /\ h \in held /\ pages[location[h][1]].guards = 0
  /\ pages' = [pages EXCEPT ![location[h][1]].guards = @ + 1]
  /\ UNCHANGED <<location, held, device>>

Unguard(p) ==
  /\ Guarded(pages[p])
  /\ pages' = [pages EXCEPT ![p].guards = @ - 1]
  /\ UNCHANGED <<location, held, device>>

\* release_empty: every page coalesces, empty unguarded ones go back, the rest
\* are renumbered.
Released(page) == IsEmpty(page.slices, held) /\ ~Guarded(page)

Renumbered(loc, kept) ==
  [h \in Handles |->
     IF \E q \in DOMAIN kept : \E i \in DOMAIN kept[q].slices : kept[q].slices[i].handle = h
     THEN <<CHOOSE q \in DOMAIN kept : \E i \in DOMAIN kept[q].slices :
                                         kept[q].slices[i].handle = h, loc[h][2]>>
     ELSE loc[h]]

Cleanup ==
  LET coalesced == [p \in DOMAIN pages |-> [pages[p] EXCEPT !.slices = Coalesced(@, held)]]
      kept == SelectSeq(coalesced, LAMBDA page : ~Released(page))
  IN  /\ pages # <<>>
      /\ pages' = kept
      /\ location' = Renumbered(Relocated(coalesced), kept)
      /\ device' = device \ {coalesced[p].id : p \in {q \in DOMAIN pages : Released(coalesced[q])}}
      /\ UNCHANGED held

Next ==
  \/ \E size \in Sizes :
       \/ AllocRefused(size)
       \/ \E h \in Handles : ReserveFree(h, size) \/ AllocPage(h, size)
  \/ \E h \in Handles : Drop(h) \/ Materialize(h) \/ Guard(h)
  \/ \E p \in DOMAIN pages : Unguard(p)
  \/ Cleanup

Spec == Init /\ [][Next]_vars

-----------------------------------------------------------------------------

SliceOf(h) == pages[location[h][1]].slices[location[h][2]]

TypeOK ==
  /\ \A p \in DOMAIN pages :
       /\ pages[p].id \in Ids /\ pages[p].mapped \in BOOLEAN
       /\ pages[p].guards \in 0 .. 1
       /\ \A i \in DOMAIN pages[p].slices : pages[p].slices[i].size \in 0 .. PageSize
  /\ held \subseteq Handles /\ device \subseteq Ids

\* The driver has memory for exactly the mapped pages: nothing leaks, nothing
\* is given back under a page, and a lazy page's id never reaches the driver.
BackedPages ==
  /\ device = {pages[p].id : p \in {q \in DOMAIN pages : pages[q].mapped}}
  /\ Cardinality({pages[p].id : p \in DOMAIN pages}) = Len(pages)

\* The slices of a page are in order, disjoint, aligned and inside it: no
\* split or merge makes two allocations share a byte.
SlicesDisjoint ==
  \A p \in DOMAIN pages :
    LET s == pages[p].slices
    IN  \A i \in DOMAIN s :
          /\ s[i].offset % Alignment = 0
          /\ s[i].offset + EffectiveSize(s[i]) <=
               IF i < Len(s) THEN s[i + 1].offset ELSE PageSize

\* The descriptor of every live handle leads to its own slice, through every
\* split, merge and renumbering.
HandlesFound ==
  \A h \in held :
    /\ location[h][1] \in DOMAIN pages
    /\ location[h][2] \in DOMAIN pages[location[h][1]].slices
    /\ SliceOf(h).handle = h

\* What every reservation, drop, guard, mapping and cleanup preserves.
PoolInv == TypeOK /\ BackedPages /\ HandlesFound /\ SlicesDisjoint

\* A live allocation keeps its bytes: its offset and size stay, and its page is
\* not given back. The page only changes ids when it is given its memory.
AllocationsStay ==
  [][\A h \in held \cap held' :
       /\ SliceOf(h)'.offset = SliceOf(h).offset
       /\ SliceOf(h)'.size = SliceOf(h).size
       /\ pages[location[h][1]].mapped =>
            pages'[location'[h][1]].id = pages[location[h][1]].id]_vars

\* While a page is guarded nothing new is carved from it and it is not given
\* back, so what a graph reads there is never another allocation's.
GuardedPagesKept ==
  [][\A p \in DOMAIN pages :
       Guarded(pages[p]) /\ pages[p].mapped =>
         \E q \in DOMAIN pages' :
           /\ pages'[q].id = pages[p].id
           /\ \A i \in DOMAIN pages'[q].slices :
                pages'[q].slices[i].handle \in held' =>
                  \E j \in DOMAIN pages[p].slices :
                    pages[p].slices[j].handle = pages'[q].slices[i].handle]_vars

\* What coalesce should return: each run of two or more free slices is one
\* slice over their bytes, everything else stays.
Runs(s) ==
  {<<a, b>> \in (DOMAIN s) \X (DOMAIN s) :
     /\ a < b /\ \A i \in a .. b : IsFree(s[i], held)
     /\ a > 1 => ~IsFree(s[a - 1], held)
     /\ b < Len(s) => ~IsFree(s[b + 1], held)}

RunSize(s, a, b) == FoldLeftDomain(LAMBDA n, i : n + (IF i \in a .. b THEN EffectiveSize(s[i]) ELSE 0), 0, s)

CoalesceMergesRuns ==
  \A p \in DOMAIN pages :
    LET s == pages[p].slices
        merged == Coalesced(s, held)
    IN  /\ {merged[i] : i \in DOMAIN merged} =
             {Slice(s[run[1]].offset, RunSize(s, run[1], run[2])) : run \in Runs(s)}
               \cup {s[i] : i \in {j \in DOMAIN s : ~\E run \in Runs(s) : j \in run[1] .. run[2]}}
        /\ \A i \in 1 .. Len(merged) - 1 : merged[i].offset < merged[i + 1].offset

\* MemoryPage::try_reserve "Reserves a slice of the given size if there is
\* enough place in the page": an unguarded page with a free stretch as long as
\* the padded request serves it.
ServesWhatFits ==
  \A p \in DOMAIN pages, size \in Sizes :
    LET s == Coalesced(pages[p].slices, held)
    IN  (\E i \in DOMAIN s : IsFree(s[i], held) /\ EffectiveSize(s[i]) >= size + Padding(size))
          => Candidate(s, size, held) # 0
=============================================================================
