------------------------------ MODULE PoolArena -------------------------------
(***************************************************************************)
(* The adaptive memory of a stream: the arena of sliced pools, one per page *)
(* size (dynamic/arena.rs), and the relocation that moves live allocations  *)
(* off outdated pages (relocation/*.rs, dynamic/adaptive.rs), as the        *)
(* command of a server drives them (command/base.rs).                       *)
(*                                                                         *)
(* A page has room for so many units; how it is carved is the subject of    *)
(* SlicedPool, and whether a page with enough free units serves a request   *)
(* is left open. An allocation is what hand_over carries from slice to      *)
(* slice. The server thread reserves, plans, copies and commits; owners     *)
(* drop handles, resources and guards on other threads, and the device runs *)
(* submitted work, between any two of its steps.                            *)
(***************************************************************************)
EXTENDS Integers, FiniteSets, FiniteSetsExt

CONSTANTS
  Handles,
  SizesOf,      \* units each may be reserved with, padding included
  SlotCount,    \* ARENA_SLOTS
  MinPage, MaxPage, Slack,  \* PageSizing, in units
  Capacity,     \* what the device says it holds
  PageIds,      \* bound: pages the device can give
  MaxGuarded,   \* bound: pages graphs and a recording use at once
  MaxBound,     \* bound: resources somebody keeps at once
  MaxPending,   \* bound: submitted work the device has not run yet
  None

\* An allocation: its page, its size, whether the bytes its owner wrote are
\* there, and the page of work on it the device has not run, or 0.
Allocations == [page : PageIds, size : Nat, bytes : BOOLEAN, pending : PageIds \cup {0}]

Moves == [handle : Handles, page : PageIds, bytes : BOOLEAN]

Reasons == {"Explicit", "Capture", "ArenaFull", "MemoryPressure"}

\* What the server thread has in hand: the pages it has still to plan, the one
\* it plans with what is left of it, and the moves.
Relocations ==
  [stage : {"idle", "ticked", "plan", "copy", "landed", "cleanup"},
   reason : Reasons \cup {None}, todo : SUBSET [page : PageIds, live : SUBSET Handles],
   from : PageIds \cup {None}, left : SUBSET Handles, moves : SUBSET Moves]

ASSUME ArenaAssumption ==
  /\ PageIds \subseteq Nat \ {0}
  /\ SlotCount \in Nat \ {0}
  /\ MinPage \in Nat \ {0} /\ MaxPage \in Nat /\ MinPage <= MaxPage /\ Slack \in Nat
  /\ SizesOf \in [Handles -> SUBSET Nat]
  /\ None \notin Allocations

VARIABLES
  pools,        \* page size of the pool in each slot, 0 for an empty slot
  current,      \* the slot new allocations are carved from
  outdated,     \* the slots a growth left behind
  slotOf,       \* the slot of each page, 0 for one the device has back
  guards,       \* pages a graph guards
  alloc,        \* what each handle stands for, None when nobody owns it
  held,         \* handles the program owns
  bound,        \* handles of which somebody keeps the address
  stalled,      \* the shape at which a relocation moved nothing, or None
  recording,    \* "no", "self" when this stream records, "other" when another does
  touched,      \* pages the recording uses
  rel           \* what the server thread is doing

arena == <<pools, current, outdated, slotOf>>
owners == <<held, bound>>
graphs == <<guards, recording, touched>>
vars == <<arena, owners, graphs, alloc, stalled, rel>>

Slots == 1 .. SlotCount
Idle == [stage |-> "idle", reason |-> None, todo |-> {}, from |-> None, left |-> {}, moves |-> {}]

Init ==
  /\ pools = [s \in Slots |-> IF s = 1 THEN MinPage ELSE 0]
  /\ current = 1 /\ outdated = {}
  /\ slotOf = [p \in PageIds |-> 0]
  /\ alloc = [h \in Handles |-> None]
  /\ held = {} /\ bound = {} /\ guards = {} /\ touched = {}
  /\ stalled = None /\ recording = "no" /\ rel = Idle

PagesOf(s) == {p \in PageIds : slotOf[p] = s}
OutdatedPages == UNION {PagesOf(s) : s \in outdated}
LiveOn(p, allocs) == {h \in Handles : allocs[h] # None /\ allocs[h].page = p}

\* The handles a relocation under way has clones of.
Planned(r) ==
  (UNION {e.live : e \in r.todo}) \cup r.left \cup {m.handle : m \in r.moves}

\* What is left of the allocations once only `owning` own theirs.
Settled(allocs, owning) == [h \in Handles |-> IF h \in owning THEN allocs[h] ELSE None]

-----------------------------------------------------------------------------
(* Reservations *)

\* The units a slice takes, each under the handle it is carved for.
UnitsOf(h, kind, size) == {<<h, kind, u>> : u \in 1 .. size}

\* What is carved out of a page: the allocations on it, and the targets a
\* relocation under way has planned on it.
Carved(p, allocs, moves) ==
  UNION ({UnitsOf(h, "slice", allocs[h].size) : h \in LiveOn(p, allocs)}
           \cup {UnitsOf(m.handle, "target", allocs[m.handle].size) : m \in {n \in moves : n.page = p}})

Units(p) == Cardinality(Carved(p, alloc, rel.moves))

Room(size) == {p \in PagesOf(current) \ guards : Units(p) + size <= pools[current]}

\* The device has a page to give, and no page of the current pool is empty.
NewPage ==
  IF \E p \in PagesOf(current) \ guards : Units(p) = 0 THEN {}
  ELSE {p \in PageIds : slotOf[p] = 0 /\ \A q \in PageIds : slotOf[q] = 0 => p <= q}

Place(h, size, page) ==
  /\ alloc' = [alloc EXCEPT ![h] = [page |-> page, size |-> size, bytes |-> TRUE, pending |-> 0]]
  /\ held' = held \cup {h}
  /\ rel' = Idle
  /\ UNCHANGED <<bound, graphs, stalled>>

\* PageSizing::fit, for an allocation that outgrew the pages.
GrownSize(size) ==
  IF size + Slack > MaxPage THEN MaxPage ELSE IF size + Slack < MinPage THEN MinPage ELSE size + Slack

FreeSlots == {s \in Slots : pools[s] = 0}

\* drain, once the allocations are `allocs`: empty outdated pages go back, and
\* the slots of pools left with none. An explicit cleanup also releases the
\* empty pages of the current pool.
Released(allocs, from) ==
  {p \in (UNION {PagesOf(s) : s \in from}) \ guards : LiveOn(p, allocs) = {}}

Drain(allocs, from) ==
  LET gone == Released(allocs, from)
      drained == {s \in outdated : PagesOf(s) \subseteq gone}
  IN  /\ slotOf' = [p \in PageIds |-> IF p \in gone THEN 0 ELSE slotOf[p]]
      /\ pools' = [s \in Slots |-> IF s \in drained THEN 0 ELSE pools[s]]
      /\ outdated' = outdated \ drained
      /\ UNCHANGED current

\* A reservation that may change pages runs the periodic cleanup first. While
\* some stream records there is none, and none of its own adds a page.
Tick ==
  /\ rel = Idle /\ recording = "no"
  /\ Drain(alloc, outdated)
  /\ rel' = [Idle EXCEPT !.stage = "ticked"]
  /\ UNCHANGED <<owners, graphs, alloc, stalled>>

MayReserve == rel.stage = "ticked" \/ (rel = Idle /\ recording # "no")

\* PoolArena::reserve and try_reserve, where a page of the current size will do.
ReserveFits(h, size) ==
  /\ MayReserve /\ alloc[h] = None /\ size <= pools[current]
  /\ \/ \E p \in Room(size) : Place(h, size, p) /\ UNCHANGED arena
     \/ /\ recording # "self"
        /\ \E p \in NewPage : Place(h, size, p) /\ slotOf' = [slotOf EXCEPT ![p] = current]
        /\ UNCHANGED <<pools, current, outdated>>

\* grow: the new pool takes over once the device gave it its first page, and
\* nothing is released.
MutantReusesSlot(h, size) ==
  /\ MayReserve /\ alloc[h] = None /\ pools[current] < size /\ size <= MaxPage
  /\ recording # "self"
  /\ LET s == (current % SlotCount) + 1
     IN  \E p \in {q \in PageIds : slotOf[q] = 0} :
           /\ Place(h, size, p)
           /\ slotOf' = [slotOf EXCEPT ![p] = s]
           /\ pools' = [pools EXCEPT ![s] = GrownSize(size)]
           /\ outdated' = outdated \cup {current} /\ current' = s

Grow(h, size) ==
  /\ MayReserve /\ alloc[h] = None /\ pools[current] < size /\ size <= MaxPage
  /\ recording # "self"
  /\ \E s \in FreeSlots, p \in PageIds :
       /\ \A r \in FreeSlots : s <= r
       /\ slotOf[p] = 0 /\ \A q \in PageIds : slotOf[q] = 0 => p <= q
       /\ Place(h, size, p)
       /\ slotOf' = [slotOf EXCEPT ![p] = s]
       /\ pools' = [pools EXCEPT ![s] = GrownSize(size)]
       /\ outdated' = outdated \cup {current} /\ current' = s

\* BufferTooBig, PageSizesExhausted, or the device refused the page.
ReserveRefused ==
  /\ rel.stage = "ticked"
  /\ rel' = Idle
  /\ UNCHANGED <<arena, owners, graphs, alloc, stalled>>

-----------------------------------------------------------------------------
(* Owners, the device and recordings *)

\* The program drops a handle, or somebody a resource with its address.
Drop(h) ==
  /\ \/ h \in held /\ held' = held \ {h} /\ UNCHANGED bound
     \/ h \in bound /\ bound' = bound \ {h} /\ UNCHANGED held
  /\ alloc' = Settled(alloc, held' \cup bound' \cup Planned(rel))
  /\ UNCHANGED <<arena, graphs, stalled, rel>>

\* managed_resource
Resolve(h) ==
  /\ rel = Idle /\ h \in held \ bound
  /\ bound' = bound \cup {h} /\ Cardinality(bound') <= MaxBound
  /\ UNCHANGED <<arena, graphs, alloc, held, stalled, rel>>

\* Work that writes an allocation is submitted with the address it has then:
\* from here on `bytes` says whether what it writes is where the handle leads.
Submit(h) ==
  /\ rel = Idle /\ h \in held /\ alloc[h].pending = 0
  /\ Cardinality({g \in Handles : alloc[g] # None /\ alloc[g].pending # 0}) < MaxPending
  /\ alloc' = [alloc EXCEPT ![h].bytes = FALSE, ![h].pending = alloc[h].page]
  /\ UNCHANGED <<arena, owners, graphs, stalled, rel>>

\* The device writes where the work says.
Execute(h) ==
  /\ alloc[h] # None /\ alloc[h].pending # 0
  /\ alloc' = [alloc EXCEPT ![h].pending = 0,
                            ![h].bytes = (alloc[h].page = alloc[h].pending)]
  /\ UNCHANGED <<arena, owners, graphs, stalled, rel>>

StartRecording(who) ==
  /\ rel = Idle /\ recording = "no"
  /\ recording' = who
  /\ UNCHANGED <<arena, owners, guards, touched, alloc, stalled, rel>>

Touch(h) ==
  /\ rel = Idle /\ recording # "no" /\ h \in held
  /\ touched' = touched \cup {alloc[h].page}
  /\ Cardinality(guards \cup touched') <= MaxGuarded
  /\ UNCHANGED <<arena, owners, guards, recording, alloc, stalled, rel>>

\* guard_pages, when the recording seals.
Seal ==
  /\ rel = Idle /\ recording # "no"
  /\ guards' = guards \cup touched /\ touched' = {} /\ recording' = "no"
  /\ UNCHANGED <<arena, owners, alloc, stalled, rel>>

DropGuard(p) ==
  /\ p \in guards
  /\ guards' = guards \ {p}
  /\ UNCHANGED <<arena, owners, recording, touched, alloc, stalled, rel>>

-----------------------------------------------------------------------------
(* Relocations *)

Full == Cardinality(outdated) + 1 = SlotCount

Shape ==
  <<Cardinality(PagesOf(current)), Cardinality(outdated), Cardinality(OutdatedPages),
    Cardinality(OutdatedPages \cap guards)>>

Allocated == MapThenSumSet(LAMBDA p : pools[slotOf[p]], {p \in PageIds : slotOf[p] # 0})

\* MemoryPressure::new
HighPressure ==
  Allocated + pools[current] >
    IF Capacity > pools[current] THEN Capacity - pools[current] ELSE 0

\* Why one may start: asked for, before a capture, because a growth found no
\* slot, or wanted by the trigger.
Wanted(reason) ==
  CASE reason = "Explicit" -> TRUE
    [] reason = "Capture" -> outdated # {}
    [] reason = "ArenaFull" -> outdated # {} /\ Full
    [] reason = "MemoryPressure" ->
         outdated # {} /\ stalled # Shape /\ ~Full /\ HighPressure

MayAllocate(reason) == reason \in {"ArenaFull", "Capture"}

\* OutdatedPages::new: neither guarded nor with an allocation that is bound.
MutantMovesBound ==
  {[page |-> p, live |-> LiveOn(p, alloc)] :
     p \in {q \in OutdatedPages \ guards : LiveOn(q, alloc) # {}}}

Movable ==
  {[page |-> p, live |-> LiveOn(p, alloc)] :
     p \in {q \in OutdatedPages \ guards : LiveOn(q, alloc) # {} /\ LiveOn(q, alloc) \cap bound = {}}}

Start(reason) ==
  /\ rel = Idle /\ recording = "no" /\ Wanted(reason)
  /\ rel' = [Idle EXCEPT !.reason = reason,
                         !.stage = IF outdated = {} THEN "cleanup" ELSE "plan",
                         !.todo = Movable]
  /\ UNCHANGED <<arena, owners, graphs, alloc, stalled>>

LiveUnits(e) == MapThenSumSet(LAMBDA h : alloc[h].size, e.live)

\* plan takes the page with the fewest live units.
NextPage ==
  /\ rel.stage = "plan" /\ rel.left = {}
  /\ \E e \in rel.todo :
       /\ \A f \in rel.todo : LiveUnits(e) <= LiveUnits(f)
       /\ rel' = [rel EXCEPT !.todo = @ \ {e}, !.from = e.page, !.left = e.live]
  /\ UNCHANGED <<arena, owners, graphs, alloc, stalled>>

\* plan_move: a target in the room the current pages have, or on a new page.
PlanMove(h) ==
  /\ rel.stage = "plan" /\ h \in rel.left
  /\ \E p \in Room(alloc[h].size) \cup (IF MayAllocate(rel.reason) THEN NewPage ELSE {}) :
       /\ rel' = [rel EXCEPT !.left = @ \ {h},
                             !.moves = @ \cup {[handle |-> h, page |-> p, bytes |-> FALSE]}]
       /\ slotOf' = [slotOf EXCEPT ![p] = current]
  /\ UNCHANGED <<pools, current, outdated, owners, graphs, alloc, stalled>>

\* No target: the moves planned for this page are dropped.
MutantKeepsMoves(r) == r.moves

Truncated(r) == {m \in r.moves : alloc[m.handle].page # r.from}

PlanFails ==
  /\ rel.stage = "plan" /\ rel.left # {}
  /\ rel' = [rel EXCEPT !.left = {}, !.moves = Truncated(rel)]
  /\ alloc' = Settled(alloc, held \cup bound \cup Planned(rel'))
  /\ UNCHANGED <<arena, owners, graphs, stalled>>

\* The relocation is over; an explicit one goes on to the cleanup.
Ended(r) == IF r.reason = "Explicit" THEN [Idle EXCEPT !.stage = "cleanup"] ELSE Idle

PlanEnds ==
  /\ rel.stage = "plan" /\ rel.left = {} /\ rel.todo = {}
  /\ IF rel.moves = {} THEN rel' = Ended(rel) /\ stalled' = Shape
     ELSE rel' = [rel EXCEPT !.stage = "copy"] /\ UNCHANGED stalled
  /\ UNCHANGED <<arena, owners, graphs, alloc>>

\* Relocation::copy: wait_device, the copies, wait_copies.
MutantCopiesEarly == rel.stage = "copy"

DeviceDone == rel.stage = "copy" /\ \A h \in Handles : alloc[h] # None => alloc[h].pending = 0

Copy ==
  /\ DeviceDone
  /\ rel' = [rel EXCEPT !.stage = "landed",
                        !.moves = {[m EXCEPT !.bytes = alloc[m.handle].bytes] : m \in @}]
  /\ UNCHANGED <<arena, owners, graphs, alloc, stalled>>

\* A wait or a copy fails: the relocation is abandoned.
CopyFails ==
  /\ rel.stage = "copy"
  /\ rel' = Ended(rel) /\ stalled' = Shape
  /\ alloc' = Settled(alloc, held \cup bound)
  /\ UNCHANGED <<arena, owners, graphs>>

\* commit: hand_over for every move, then drain.
HandedOver ==
  [h \in Handles |->
     IF \E m \in rel.moves : m.handle = h
     THEN LET m == CHOOSE m \in rel.moves : m.handle = h
          IN  [alloc[h] EXCEPT !.page = m.page, !.bytes = m.bytes]
     ELSE alloc[h]]

Commit ==
  /\ rel.stage = "landed"
  /\ LET settled == Settled(HandedOver, held \cup bound)
     IN  alloc' = settled /\ Drain(settled, outdated)
  /\ rel' = Ended(rel) /\ stalled' = None
  /\ UNCHANGED <<owners, graphs>>

\* cleanup_memory, the end of an explicit reclaim.
Cleanup ==
  /\ rel.stage = "cleanup"
  /\ Drain(alloc, outdated \cup {current})
  /\ rel' = Idle
  /\ UNCHANGED <<owners, graphs, alloc, stalled>>

Server ==
  \/ \E h \in Handles : \E size \in SizesOf[h] : ReserveFits(h, size) \/ Grow(h, size)
  \/ ReserveRefused
  \/ NextPage \/ (\E h \in Handles : PlanMove(h)) \/ PlanFails \/ PlanEnds
  \/ Copy \/ CopyFails \/ Commit \/ Cleanup

Next ==
  \/ Tick \/ Server
  \/ \E h \in Handles : Drop(h) \/ Resolve(h) \/ Submit(h) \/ Execute(h) \/ Touch(h)
  \/ \E who \in {"self", "other"} : StartRecording(who)
  \/ Seal
  \/ \E p \in PageIds : DropGuard(p)
  \/ \E reason \in Reasons : Start(reason)

Spec == Init /\ [][Next]_vars

-----------------------------------------------------------------------------

TypeOK ==
  /\ pools \in [Slots -> 0 .. MaxPage] /\ current \in Slots /\ outdated \subseteq Slots
  /\ slotOf \in [PageIds -> 0 .. SlotCount]
  /\ alloc \in [Handles -> Allocations \cup {None}]
  /\ held \subseteq Handles /\ bound \subseteq Handles
  /\ guards \subseteq PageIds /\ touched \subseteq PageIds
  /\ recording \in {"no", "self", "other"}
  /\ rel \in Relocations

\* "The current slot always holds a pool", and "only the current pool and the
\* outdated ones hold a slot", each of another page size: the count of outdated
\* pools tells whether a growth has a slot to go to.
SlotsInv ==
  /\ pools[current] # 0 /\ current \notin outdated
  /\ outdated \cup {current} = {s \in Slots : pools[s] # 0}
  /\ \A s \in outdated : pools[s] < pools[current]
  /\ Full <=> FreeSlots = {}

\* Every owned allocation is on a page of a pool that is there, every target on
\* one of the current pool, and no page holds more than it has room for.
PlacedInv ==
  /\ \A p \in PageIds : slotOf[p] # 0 => pools[slotOf[p]] # 0 /\ Units(p) <= pools[slotOf[p]]
  /\ \A h \in held \cup bound \cup Planned(rel) : alloc[h] # None /\ slotOf[alloc[h].page] # 0
  /\ \A h \in Planned(rel) : slotOf[alloc[h].page] \in outdated
  /\ \A m \in rel.moves : slotOf[m.page] = current

\* The pages a recording used are there when it seals, and those a graph guards
\* for as long as it does, also once everything on them is dropped.
RecordedPagesKept == \A p \in touched \cup guards : slotOf[p] # 0

\* What every reservation, growth, drain and step of a relocation preserves.
ArenaInv == TypeOK /\ SlotsInv /\ PlacedInv /\ RecordedPagesKept

\* What the work of its owner wrote to an allocation is where the handle leads,
\* wherever a relocation took it and whatever of it failed.
ContentsKept ==
  \A h \in held : alloc[h].pending = 0 => alloc[h].bytes

\* Nothing that sits on a page a graph or a recording uses moves, nor anything
\* of which somebody keeps the address.
PinnedStays ==
  [][\A h \in Handles :
       alloc[h] # None /\ alloc'[h] # None
         /\ (h \in bound \cap bound' \/ alloc[h].page \in guards \cup touched)
       => alloc'[h].page = alloc[h].page]_vars

\* "Moving part of what is on it frees nothing": a page any allocation moves
\* off goes back to the device in the same step.
WholePagesMove ==
  [][\A h \in Handles :
       alloc[h] # None /\ alloc'[h] # None /\ alloc'[h].page # alloc[h].page
       => slotOf'[alloc[h].page] = 0]_vars

=============================================================================
