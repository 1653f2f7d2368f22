----------------------------- MODULE ExclusivePool ----------------------------
(***************************************************************************)
(* A bucket of pages with one allocation each (memory_pool/                 *)
(* exclusive_pool.rs), behind the three ways MemoryManagement::reserve may  *)
(* change pages, with the periodic cleanup that Allow runs first.           *)
(*                                                                         *)
(* cur_avg_size, a float that decays towards the served sizes, is any size  *)
(* up to max_alloc_size. Page indices wrap at PageWrap, 2^16 in the code.   *)
(***************************************************************************)
EXTENDS PoolSlice, Sequences, SequencesExt

CONSTANTS
  Handles,        \* handles of the program
  Sizes,          \* sizes it asks for
  MaxAllocSize,   \* of the bucket
  AllocAfterFree, \* ALLOC_AFTER_FREE, 5 in the code
  DeallocPeriod,
  PageWrap,       \* page indices are kept modulo this
  MaxPages        \* bound: pages the device can give

ASSUME ExclusiveAssumption ==
  /\ Sizes \subseteq Nat
  /\ MaxAllocSize \in Nat /\ MaxAllocSize % Alignment = 0
  /\ AllocAfterFree \in Nat \ {0} /\ DeallocPeriod \in Nat
  /\ PageWrap \in Nat \ {0}

VARIABLES
  pages,        \* [alloc, size, padding, handle, free, idle]; idle is a history
                \* counter: the Allow reservations since the page was last owned
  location,     \* the descriptors: page index (from 0) of each owned handle
  held,         \* handles owned outside the pool, by the program or a guard
  since         \* alloc_nr - last_dealloc_check, up to the check period

vars == <<pages, location, held, since>>

CheckPeriod == DeallocPeriod \div AllocAfterFree

NoPage == -1

Init ==
  /\ pages = <<>>
  /\ location = [h \in Handles |-> NoPage]
  /\ held = {} /\ since = 0

Accept(size) == MaxAllocSize >= size

RoundUp(size) == size + Padding(size)

MaxOf(a, b) == IF a > b THEN a ELSE b

MinOf(a, b) == IF a < b THEN a ELSE b

-----------------------------------------------------------------------------
(* cleanup *)

\* A page found free once more.
Aged(page) ==
  IF IsFree(page, held) THEN [page EXCEPT !.free = @ + 1] ELSE page

Expired(page, explicit) ==
  IsFree(page, held) /\ (page.free >= AllocAfterFree \/ explicit)

Kept(explicit) ==
  SelectSeq([p \in DOMAIN pages |-> Aged(pages[p])], LAMBDA page : ~Expired(page, explicit))

\* update_page on every page kept.
MutantKeepsNumbers(kept) == location

Renumbered(kept) ==
  [h \in Handles |->
     IF h \in held /\ \E p \in DOMAIN kept : kept[p].handle = h
     THEN (SelectInSeq(kept, LAMBDA page : page.handle = h) - 1) % PageWrap
     ELSE location[h]]

MutantChecksLate == since > CheckPeriod

Due == since >= CheckPeriod

\* The pool after a cleanup of the given kind: pages, locations, since.
Cleaned(explicit) ==
  IF explicit \/ Due
  THEN [pages |-> Kept(explicit), location |-> Renumbered(Kept(explicit)), since |-> 0]
  ELSE [pages |-> pages, location |-> location, since |-> since]

Cleanup ==
  /\ pages' = Cleaned(TRUE).pages
  /\ location' = Cleaned(TRUE).location
  /\ since' = Cleaned(TRUE).since
  /\ UNCHANGED held

-----------------------------------------------------------------------------
(* reserve *)

\* get_free_page: of the free pages that fit, the first with the least
\* free_count; 0 for none.
FittingPages(ps, size) == {p \in DOMAIN ps : ps[p].alloc >= size /\ IsFree(ps[p], held)}

FreePage(ps, size) ==
  LET fitting == FittingPages(ps, size)
  IN  IF fitting = {} THEN 0
      ELSE CHOOSE p \in fitting : \A q \in fitting :
             ps[p].free < ps[q].free \/ (ps[p].free = ps[q].free /\ p <= q)

\* What the pool has when the reservation proper starts: Allow cleans up
\* first, and only Forbidden leaves the reservation uncounted.
Base(update) ==
  IF update = "Allow"
  THEN [Cleaned(FALSE) EXCEPT
          !.pages = [p \in DOMAIN @ |-> IF IsFree(@[p], held) THEN [@[p] EXCEPT !.idle = @ + 1] ELSE @[p]],
          !.since = MinOf(CheckPeriod, @ + 1)]
  ELSE [pages |-> pages, location |-> location,
        since |-> IF update = "AddOnly" THEN MinOf(CheckPeriod, since + 1) ELSE since]

\* bind goes through the location, so it lands on the page the index names.
Bound(ps, loc, index, h) ==
  LET named == index % PageWrap
  IN  /\ pages' = [ps EXCEPT ![named + 1].handle = h, ![named + 1].idle = 0]
      /\ location' = [loc EXCEPT ![h] = named]
      /\ held' = held \cup {h}

\* try_reserve and bind, through the location the page got when it was made or
\* last renumbered.
TryReserve(h, size, update) ==
  LET base == Base(update)
      p == FreePage(base.pages, size)
      taken == [base.pages EXCEPT ![p].size = size, ![p].padding = Padding(size),
                                  ![p].free = MaxOf(0, @ - 1)]
  IN  /\ Accept(size) /\ h \notin held /\ p # 0
      /\ Bound(taken, base.location, p - 1, h)
      /\ since' = base.since

\* alloc_page, alloc and bind.
Alloc(h, size, update) ==
  LET base == Base(update)
  IN  /\ Accept(size) /\ h \notin held /\ update # "Forbidden"
      /\ FreePage(base.pages, size) = 0 /\ Len(base.pages) < MaxPages
      /\ \E avg \in 0 .. MaxAllocSize :
           Bound(Append(base.pages,
                   [alloc |-> RoundUp(MaxOf(avg, size)), size |-> size, padding |-> Padding(size),
                    handle |-> None, free |-> AllocAfterFree - 1, idle |-> 0]),
                 base.location, Len(base.pages), h)
      /\ since' = base.since

\* The device refuses the page, or the update forbids one: the cleanup stays.
Refused(size, update) ==
  LET base == Base(update)
  IN  /\ Accept(size) /\ FreePage(base.pages, size) = 0
      /\ pages' = base.pages /\ location' = base.location /\ since' = base.since
      /\ UNCHANGED held

\* The last owner of an allocation lets it go. The handle of a page that only
\* the pool has is of no consequence.
DropHandle(h) ==
  /\ h \in held
  /\ held' = held \ {h}
  /\ pages' = [p \in DOMAIN pages |->
                 IF pages[p].handle = h THEN [pages[p] EXCEPT !.handle = None] ELSE pages[p]]
  /\ location' = [location EXCEPT ![h] = NoPage]
  /\ UNCHANGED since

Next ==
  \/ \E size \in Sizes, update \in {"Allow", "AddOnly", "Forbidden"} :
       \/ Refused(size, update)
       \/ \E h \in Handles : TryReserve(h, size, update) \/ Alloc(h, size, update)
  \/ \E h \in Handles : DropHandle(h)
  \/ Cleanup

Spec == Init /\ [][Next]_vars

-----------------------------------------------------------------------------

TypeOK ==
  /\ \A p \in DOMAIN pages :
       /\ pages[p].free \in 0 .. AllocAfterFree - 1
       /\ pages[p].handle \in held \cup {None}
  /\ location \in [Handles -> NoPage .. PageWrap - 1]
  /\ held \subseteq Handles /\ since \in 0 .. CheckPeriod

\* The page index a handle carries is the index of the page its allocation is
\* on, and no other owner is there.
HandlesFound ==
  \A h \in held : /\ location[h] + 1 \in DOMAIN pages
                  /\ pages[location[h] + 1].handle = h

\* What a page is handed out for fits the memory allocated for it, padding
\* included.
PageFits == \A p \in DOMAIN pages : pages[p].size + pages[p].padding <= pages[p].alloc

\* What every reservation, drop and cleanup preserves: an owner finds its page,
\* alone on it, and the page is large enough.
PoolInv == TypeOK /\ HandlesFound /\ PageFits

\* A page nobody owns is given back within dealloc_period reservations that may
\* release pages, however it was used before.
UnusedReleased == \A p \in DOMAIN pages : pages[p].idle <= DeallocPeriod

\* get_free_page: "Return the smallest free page that fits."
SmallestFits ==
  [][\A h \in held' \ held, size \in Sizes :
       TryReserve(h, size, "Forbidden") =>
         \A p \in FittingPages(pages, size) : pages[location'[h] + 1].alloc <= pages[p].alloc]_vars
=============================================================================
