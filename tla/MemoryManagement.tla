--------------------------- MODULE MemoryManagement ---------------------------
(***************************************************************************)
(* The memory of one stream (memory_manage.rs) over two of its pools: the   *)
(* dedicated pool, whose state is that of the module extended here, and the *)
(* persistent pool P. The dynamic pools, which have modules of their own,   *)
(* are the set of handles they serve.                                       *)
(*                                                                         *)
(* A reservation is cut where a drop on another thread makes a difference:  *)
(* after the periodic cleanup, and between looking for a free persistent    *)
(* slice and allocating one.                                                *)
(***************************************************************************)
EXTENDS DirectPool

CONSTANTS
  NoRequest,
  MaxWindows,   \* bound: open allocation windows
  MaxDevice     \* bound: slices the device can give the two pools together

VARIABLES
  pSlices, pSizes, pLocation, pHeld,    \* the persistent pool
  dynamic,      \* handles the dynamic pools serve
  config,       \* PersistentMemory
  base,         \* base_mode
  windows,      \* the modes of the open windows, innermost last
  request       \* the reservation under way, or NoRequest

P == INSTANCE PersistentPool WITH slices <- pSlices, sizes <- pSizes,
                                  location <- pLocation, held <- pHeld

pVars == <<pSlices, pSizes, pLocation, pHeld>>
modeVars == <<config, base, windows>>
allVars == <<vars, pVars, dynamic, modeVars, request>>

Configs == {"Disabled", "Enabled", "SizeMatch", "Enforced"}

\* The mode comes from the options (Auto, for pinned and staging memory) or
\* from the configuration.
ManagerInit ==
  /\ Init /\ P!Init /\ dynamic = {}
  /\ config \in Configs
  /\ base \in {"Auto", IF config = "Enforced" THEN "Persistent" ELSE "Auto"}
  /\ windows = <<>> /\ request = NoRequest

Mode == IF windows = <<>> THEN base ELSE Last(windows)

\* mode: Auto closes the innermost window, the others open one.
Window(mode) ==
  IF mode = "Persistent" /\ config \in {"Disabled", "Enforced"} THEN base ELSE mode

SetMode(mode) ==
  /\ request = NoRequest
  /\ mode # "Auto" => Len(windows) < MaxWindows
  /\ windows' = IF mode # "Auto" THEN Append(windows, Window(mode))
                ELSE IF windows = <<>> THEN windows ELSE Front(windows)
  /\ UNCHANGED <<vars, pVars, dynamic, config, base, request>>

\* cleanup: the persistent pool answers explicit ones only, the dedicated one
\* reclaims at all of them.
CleanupPools(kind) ==
  /\ Reclaim
  /\ IF kind = "Explicit" THEN P!Cleanup ELSE UNCHANGED pVars
  /\ UNCHANGED <<dynamic, modeVars>>

ExplicitCleanup ==
  request = NoRequest /\ CleanupPools("Explicit") /\ UNCHANGED request

\* reserve under Allow and AddOnly: the periodic cleanup first, where the update
\* allows any change.
MutantAlwaysCleans(update) == CleanupPools("Periodic")

BeforeReserve(update) ==
  IF update = "Allow" THEN CleanupPools("Periodic")
  ELSE UNCHANGED <<vars, pVars, dynamic, modeVars>>

Reserve(h, size, update) ==
  /\ request = NoRequest /\ h \notin held \cup pHeld \cup dynamic
  /\ BeforeReserve(update)
  /\ request' = [handle |-> h, size |-> size, update |-> update, missed |-> FALSE]

\* Each way a reservation is served, by the pool it names. The device may
\* refuse to allocate.
Done == request' = NoRequest /\ UNCHANGED modeVars

Refused == Done /\ UNCHANGED <<vars, pVars, dynamic>>

DeviceHasRoom == Cardinality(Live) + Len(pSlices) < MaxDevice

ByDynamic(h) == Done /\ dynamic' = dynamic \cup {h} /\ UNCHANGED <<vars, pVars>>

FromDedicated(step) == Done /\ step /\ UNCHANGED <<pVars, dynamic>>

FromPersistent(step) == Done /\ step /\ UNCHANGED <<vars, dynamic>>

TriesPersistent == Mode = "Persistent" \/ (Mode = "Auto" /\ config = "SizeMatch")

\* reserve_adding, up to the search of the persistent pool.
ReserveAdding ==
  /\ request # NoRequest /\ ~request.missed
  /\ LET h == request.handle
         size == request.size
     IN  \/ /\ Mode = "Dedicated"
            /\ \/ DeviceHasRoom /\ \E mapped \in BOOLEAN : FromDedicated(Alloc(h, size, mapped))
               \/ Refused
         \/ /\ TriesPersistent /\ P!Found(size) # 0
            /\ FromPersistent(P!TryReserve(h, size))
         \/ /\ TriesPersistent /\ P!Found(size) = 0
            /\ request' = [request EXCEPT !.missed = TRUE]
            /\ UNCHANGED <<vars, pVars, dynamic, modeVars>>
         \/ /\ Mode = "Auto" /\ config # "SizeMatch"
            /\ ByDynamic(h) \/ Refused

\* reserve_adding after a search that found nothing.
ReserveMissed ==
  /\ request # NoRequest /\ request.missed
  /\ LET h == request.handle
         size == request.size
     IN  \/ /\ Mode = "Persistent" \/ P!HasSize(size)
            /\ DeviceHasRoom /\ \E mapped \in BOOLEAN : FromPersistent(P!Alloc(h, size, mapped))
         \/ /\ Mode = "Auto" /\ ~P!HasSize(size)
            /\ ByDynamic(h)
         \/ Refused

\* reserve under Forbidden, reserve_held: only room the pools have, or the update is refused.
HeldRoom(h, size) ==
  \/ /\ Mode = "Dedicated"
     /\ IF Fits(size) # {} THEN FromDedicated(TryReserve(h, size)) ELSE Refused
  \/ /\ TriesPersistent /\ P!Found(size) # 0
     /\ FromPersistent(P!TryReserve(h, size))
  \/ /\ Mode = "Persistent" /\ P!Found(size) = 0 /\ Refused
  \/ /\ Mode = "Auto" /\ (TriesPersistent => P!Found(size) = 0)
     /\ ByDynamic(h) \/ Refused

ReserveHeld(h, size) ==
  /\ request = NoRequest /\ h \notin held \cup pHeld \cup dynamic
  /\ HeldRoom(h, size)

\* The last owner of an allocation, on any thread, at any time.
Drop(h) ==
  /\ \/ DropHandle(h) /\ UNCHANGED <<pVars, dynamic>>
     \/ P!DropHandle(h) /\ UNCHANGED <<vars, dynamic>>
     \/ h \in dynamic /\ dynamic' = dynamic \ {h} /\ UNCHANGED <<vars, pVars>>
  /\ UNCHANGED <<modeVars, request>>

\* materialize, by the pool of the location.
Back(h) ==
  /\ request = NoRequest
  /\ \/ Materialize(h) /\ UNCHANGED pVars
     \/ P!Materialize(h) /\ UNCHANGED vars
  /\ UNCHANGED <<dynamic, modeVars, request>>

ManagerNext ==
  \/ \E mode \in {"Auto", "Persistent", "Dedicated"} : SetMode(mode)
  \/ \E h \in Handles, size \in Sizes :
       ReserveHeld(h, size) \/ \E update \in {"Allow", "AddOnly"} : Reserve(h, size, update)
  \/ ReserveAdding \/ ReserveMissed
  \/ \E h \in Handles : Drop(h) \/ Back(h)
  \/ ExplicitCleanup

ManagerSpec == ManagerInit /\ [][ManagerNext]_allVars

-----------------------------------------------------------------------------

\* Both pools keep their own invariants under the manager's routing, and an
\* allocation lives in one pool only.
ManagerInv ==
  /\ PoolInv /\ P!PoolInv
  /\ held \cap pHeld = {} /\ (held \cup pHeld) \cap dynamic = {}
  /\ request # NoRequest => request.handle \notin held \cup pHeld \cup dynamic

\* An owned allocation is not resized or given back by any call, whoever drops
\* what meanwhile, and keeps its device memory once it has it: cleanups release
\* only what nobody holds and renumber only what they then find again.
OwnedStays ==
  [][/\ \A h \in held \cap held' :
          LET old == slices[location[h]]
              new == slices'[location'[h]]
          IN  location'[h] = location[h] /\ new.size = old.size /\ (old.mapped => new = old)
     /\ \A h \in pHeld \cap pHeld' :
          LET old == pSlices[pLocation[h]]
              new == pSlices'[pLocation'[h]]
          IN  new.size = old.size /\ (old.mapped => new = old)]_allVars

\* PageUpdate: a reservation that may only add releases and renumbers nothing,
\* free slices included, and a forbidden one does not allocate either.
Numbered(before, after) ==
  /\ Len(before) <= Len(after)
  /\ \A i \in DOMAIN before :
       before[i] # Tombstone => after[i] # Tombstone /\ after[i].backing = before[i].backing

AddsOnly == request # NoRequest \/ (request' # NoRequest /\ request'.update = "AddOnly")

UpdateHonoured ==
  [][/\ AddsOnly => Numbered(slices, slices') /\ Numbered(pSlices, pSlices')
     /\ (\E h \in Handles, size \in Sizes : ReserveHeld(h, size)) =>
          /\ Numbered(slices, slices') /\ Numbered(pSlices, pSlices')
          /\ Live' = Live /\ DOMAIN pSlices' = DOMAIN pSlices]_allVars

\* "Freed is done": a dedicated slice that is free is gone after the next
\* reservation that may change pages and after every explicit cleanup.
FreedGoesBack ==
  [][(request = NoRequest /\ request' # NoRequest /\ request'.update = "Allow")
       \/ ExplicitCleanup
     => Free' = {} /\ Live \ Live' \subseteq Free]_allVars

\* A persistent slice "owns its whole buffer": the device allocation behind a
\* mapped slice covers the allocation it was handed out for.
PersistentFits == P!FitsAllocation
=============================================================================
