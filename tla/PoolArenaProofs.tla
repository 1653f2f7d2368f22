--------------------------- MODULE PoolArenaProofs ----------------------------
(***************************************************************************)
(* What a relocation promises, proved for any number of handles, pages and  *)
(* slots: contents follow their handles, nothing pinned moves, a page that  *)
(* anything moves off is emptied and given back, and no page is carved      *)
(* beyond its size.                                                         *)
(***************************************************************************)
EXTENDS PoolArena, FiniteSetTheorems, TLAPS

USE ZenonT(3), SMTT(20)

Moved(r) == {m.handle : m \in r.moves}

\* Owned allocations are there, on pages of pools that are there.
LiveInv ==
  /\ \A h \in held \cup bound : alloc[h] # None
  /\ \A h \in Handles : alloc[h] # None => slotOf[alloc[h].page] # 0
  /\ \A p \in PageIds : slotOf[p] # 0 => pools[slotOf[p]] # 0

\* Nothing is planned, moved or released while a stream records.
RecordInv ==
  /\ RecordedPagesKept
  /\ touched # {} => recording # "no"
  /\ rel.stage # "idle" => recording = "no"

\* What a relocation has clones of sits on outdated pages nobody pins, its
\* targets are on current pages, and of a page with a planned move everything
\* is planned.
PlanInv ==
  /\ rel.stage = "idle" => rel = Idle
  /\ rel.stage \in {"ticked", "cleanup"} => rel.todo = {} /\ rel.left = {} /\ rel.moves = {}
  /\ rel.stage \in {"copy", "landed"} => rel.todo = {} /\ rel.left = {}
  /\ \A h \in Planned(rel) :
       /\ alloc[h] # None /\ h \notin bound
       /\ alloc[h].page \notin guards /\ slotOf[alloc[h].page] \in outdated
  /\ \A m \in rel.moves : slotOf[m.page] = current
  /\ \A e \in rel.todo : e.live = LiveOn(e.page, alloc)
  /\ \A h \in rel.left : alloc[h].page = rel.from
  /\ rel.left # {} => LiveOn(rel.from, alloc) \subseteq rel.left \cup Moved(rel)
  /\ \A m \in rel.moves : LiveOn(alloc[m.handle].page, alloc) \subseteq rel.left \cup Moved(rel)

\* Work goes where the handle leads, and what has landed is what was written.
BytesInv ==
  /\ \A h \in Handles : alloc[h] # None =>
       IF alloc[h].pending = 0 THEN alloc[h].bytes ELSE alloc[h].pending = alloc[h].page
  /\ rel.stage = "landed" =>
       /\ \A h \in Handles : alloc[h] # None => alloc[h].pending = 0
       /\ \A m \in rel.moves : m.bytes = alloc[m.handle].bytes

Inv == TypeOK /\ SlotsInv /\ LiveInv /\ RecordInv /\ PlanInv /\ BytesInv

-----------------------------------------------------------------------------

\* The count of outdated pools tells whether a slot is left.
LEMMA SlotsCounted ==
  ASSUME NEW ps, NEW out \in SUBSET Slots, NEW cur \in Slots, cur \notin out,
         out \cup {cur} = {s \in Slots : ps[s] # 0}
  PROVE  Cardinality(out) + 1 = SlotCount <=> {s \in Slots : ps[s] = 0} = {}
<1>1. IsFiniteSet(Slots) /\ Cardinality(Slots) = SlotCount
  BY ArenaAssumption, FS_Interval DEF Slots
<1>2. IsFiniteSet(out)
  BY <1>1, FS_Subset
<1>3. Cardinality(out \cup {cur}) = Cardinality(out) + 1
  BY <1>2, FS_AddElement
<1>4. Cardinality(out \cup {cur}) = SlotCount <=> out \cup {cur} = Slots
  <2>1. out \cup {cur} \subseteq Slots
    OBVIOUS
  <2> QED
    BY <1>1, <2>1, FS_Subset
<1> QED
  BY <1>3, <1>4

LEMMA SlotsSame ==
  ASSUME SlotsInv, UNCHANGED <<pools, current, outdated>>
  PROVE  SlotsInv'
<1>1. pools' = pools /\ current' = current /\ outdated' = outdated
  OBVIOUS
<1>2. (Full <=> FreeSlots = {}) => (Full' <=> FreeSlots' = {})
  BY <1>1 DEF Full, FreeSlots
<1> QED
  BY <1>1, <1>2 DEF SlotsInv

\* The clones of a relocation, by where it keeps them.
LEMMA PlannedIs ==
  ASSUME NEW r, NEW h
  PROVE  h \in Planned(r) <=> (\E e \in r.todo : h \in e.live) \/ h \in r.left \/ h \in Moved(r)
BY DEF Planned, Moved

\* No relocation, no clones.
LEMMA PlanEmpty ==
  ASSUME NEW r, r.todo = {}, r.left = {}, r.moves = {}
  PROVE  Planned(r) = {} /\ Moved(r) = {}
BY DEF Planned, Moved

LEMMA IdlePlan ==
  ASSUME rel = Idle
  PROVE  PlanInv
<1>1. rel.todo = {} /\ rel.left = {} /\ rel.moves = {} /\ rel.stage = "idle"
  BY DEF Idle
<1>2. Planned(rel) = {}
  BY <1>1, PlanEmpty
<1> QED
  BY <1>1, <1>2 DEF PlanInv

LEMMA IdlePlanPrime ==
  ASSUME rel' = Idle
  PROVE  PlanInv'
<1>1. rel'.todo = {} /\ rel'.left = {} /\ rel'.moves = {} /\ rel'.stage = "idle"
  BY DEF Idle
<1>2. Planned(rel') = {}
  BY <1>1, PlanEmpty
<1> QED
  BY <1>1, <1>2 DEF PlanInv

\* A plan with nothing in it, whatever the stage.
LEMMA EmptyPlanPrime ==
  ASSUME rel'.stage \in {"ticked", "cleanup"},
         rel'.todo = {}, rel'.left = {}, rel'.moves = {}
  PROVE  PlanInv'
<1>1. Planned(rel') = {}
  BY PlanEmpty
<1> QED
  BY <1>1 DEF PlanInv

LEMMA InitInv == Init => Inv
<1> SUFFICES ASSUME Init PROVE Inv
  OBVIOUS
<1>1. TypeOK
  BY ArenaAssumption DEF Init, TypeOK, Slots, Idle, Relocations
<1>2. SlotsInv
  <2>1. outdated \in SUBSET Slots /\ current \in Slots /\ current \notin outdated
    BY ArenaAssumption DEF Init, Slots
  <2>2. outdated \cup {current} = {s \in Slots : pools[s] # 0}
    BY ArenaAssumption DEF Init, Slots
  <2>3. Full <=> FreeSlots = {}
    BY <2>1, <2>2, SlotsCounted DEF Full, FreeSlots
  <2> QED
    BY <2>1, <2>2, <2>3, ArenaAssumption DEF SlotsInv, Init, Slots
<1>3. LiveInv /\ RecordInv /\ BytesInv
  BY DEF Init, LiveInv, RecordInv, RecordedPagesKept, BytesInv, Idle
<1>4. PlanInv
  BY IdlePlan DEF Init
<1> QED
  BY <1>1, <1>2, <1>3, <1>4 DEF Inv

-----------------------------------------------------------------------------

LEMMA SettledIs ==
  ASSUME NEW allocs, NEW owning, NEW h \in Handles
  PROVE  Settled(allocs, owning)[h] = IF h \in owning THEN allocs[h] ELSE None
BY DEF Settled

\* Allocations that go, and guards and addresses that are dropped, leave a plan
\* as it is.
LEMMA PlanKept ==
  ASSUME TypeOK, PlanInv, UNCHANGED <<rel, slotOf, current, outdated>>,
         guards' \subseteq guards, bound' \subseteq bound,
         \A h \in Handles : alloc'[h] # None => alloc[h] # None /\ alloc'[h].page = alloc[h].page,
         \A h \in Planned(rel) : alloc'[h] # None
  PROVE  PlanInv'
<1>1. Planned(rel) \subseteq Handles
  BY PlannedIs DEF TypeOK, Relocations, Moves, Moved
<1>2. \A h \in Planned(rel) : alloc'[h] # None /\ alloc[h] # None /\ alloc'[h].page = alloc[h].page
  BY <1>1
<1>3. \A p : LiveOn(p, alloc') \subseteq LiveOn(p, alloc)
  BY DEF LiveOn
<1>4. \A e \in rel.todo : e.live = LiveOn(e.page, alloc')
  <2> SUFFICES ASSUME NEW e \in rel.todo PROVE e.live = LiveOn(e.page, alloc')
    OBVIOUS
  <2>1. e.live \subseteq Planned(rel)
    BY PlannedIs
  <2>2. e.live = LiveOn(e.page, alloc)
    BY DEF PlanInv
  <2>3. \A h \in e.live : h \in Handles /\ alloc[h].page = e.page
    BY <2>2 DEF LiveOn
  <2>4. \A h \in e.live : alloc'[h] # None /\ alloc'[h].page = e.page
    BY <2>1, <2>3, <1>2
  <2>5. e.live \subseteq LiveOn(e.page, alloc')
    BY <2>3, <2>4 DEF LiveOn
  <2> QED
    BY <2>2, <2>5, <1>3
<1>5. \A m \in rel.moves : m.handle \in Planned(rel)
  BY PlannedIs DEF Moved
<1>6. rel.left \subseteq Planned(rel)
  BY PlannedIs
<1>7. \A m \in rel.moves : LiveOn(alloc'[m.handle].page, alloc') \subseteq rel.left \cup Moved(rel)
  BY <1>2, <1>3, <1>5 DEF PlanInv
<1>8. \A h \in rel.left : alloc'[h].page = rel.from
  BY <1>2, <1>6 DEF PlanInv
<1>9. \A h \in Planned(rel) :
       /\ alloc'[h] # None /\ h \notin bound'
       /\ alloc'[h].page \notin guards' /\ slotOf'[alloc'[h].page] \in outdated'
  BY <1>2 DEF PlanInv
<1>10. rel.left # {} => LiveOn(rel.from, alloc') \subseteq rel.left \cup Moved(rel)
  BY <1>3 DEF PlanInv
<1> QED
  BY <1>4, <1>7, <1>8, <1>9, <1>10 DEF PlanInv

\* Giving empty pages and slots back, once the allocations are `allocs`.
LEMMA DrainKeeps ==
  ASSUME TypeOK, SlotsInv, LiveInv, NEW allocs \in [Handles -> Allocations \cup {None}],
         \A h \in Handles : allocs[h] # None => slotOf[allocs[h].page] # 0,
         NEW from \in SUBSET Slots, Drain(allocs, from)
  PROVE  /\ SlotsInv' /\ current' = current
         /\ pools' \in [Slots -> 0 .. MaxPage] /\ outdated' \subseteq Slots
         /\ slotOf' \in [PageIds -> 0 .. SlotCount]
         /\ \A p \in PageIds : slotOf'[p] # 0 => pools'[slotOf'[p]] # 0
         /\ \A p \in guards : slotOf'[p] = slotOf[p]
         /\ \A h \in Handles : allocs[h] # None => slotOf'[allocs[h].page] # 0
<1> DEFINE gone == Released(allocs, from)
           drained == {s \in outdated : PagesOf(s) \subseteq gone}
<1>1. /\ slotOf' = [p \in PageIds |-> IF p \in gone THEN 0 ELSE slotOf[p]]
      /\ pools' = [s \in Slots |-> IF s \in drained THEN 0 ELSE pools[s]]
      /\ outdated' = outdated \ drained
      /\ current' = current
  BY DEF Drain
<1>2. gone \subseteq PageIds \ guards /\ \A p \in gone : LiveOn(p, allocs) = {}
  BY DEF Released, PagesOf
<1>3. drained \subseteq outdated /\ \A p \in PageIds : slotOf[p] \in drained => p \in gone
  BY DEF PagesOf
<1> HIDE DEF gone, drained
<1>t. /\ pools \in [Slots -> 0 .. MaxPage] /\ outdated \subseteq Slots
      /\ slotOf \in [PageIds -> 0 .. SlotCount]
  BY DEF TypeOK
<1>4. /\ pools' \in [Slots -> 0 .. MaxPage] /\ outdated' \subseteq Slots
      /\ slotOf' \in [PageIds -> 0 .. SlotCount]
  BY <1>1, <1>t, ArenaAssumption
<1>5. SlotsInv'
  <2>1. outdated' \in SUBSET Slots /\ current' \in Slots /\ current' \notin outdated'
    BY <1>1, <1>4 DEF SlotsInv, TypeOK
  <2>2. outdated' \cup {current'} = {s \in Slots : pools'[s] # 0}
    BY <1>1, <1>3 DEF SlotsInv, TypeOK
  <2>3. Full' <=> FreeSlots' = {}
    BY <2>1, <2>2, SlotsCounted DEF Full, FreeSlots
  <2>4. pools'[current'] # 0 /\ \A s \in outdated' : pools'[s] < pools'[current']
    BY <1>1, <1>3 DEF SlotsInv, TypeOK
  <2> QED
    BY <2>1, <2>2, <2>3, <2>4 DEF SlotsInv
<1>6. \A p \in PageIds : slotOf'[p] # 0 => pools'[slotOf'[p]] # 0
  <2> SUFFICES ASSUME NEW p \in PageIds, slotOf'[p] # 0 PROVE pools'[slotOf'[p]] # 0
    OBVIOUS
  <2>1. slotOf'[p] = slotOf[p] /\ slotOf[p] \in Slots /\ slotOf[p] \notin drained
    BY <1>1, <1>3, ArenaAssumption DEF TypeOK, Slots
  <2>2. pools[slotOf[p]] # 0
    BY <2>1 DEF LiveInv
  <2> QED
    BY <2>1, <2>2, <1>1
<1>7. \A p \in guards : slotOf'[p] = slotOf[p]
  BY <1>1, <1>2 DEF TypeOK
<1>8. \A h \in Handles : allocs[h] # None => slotOf'[allocs[h].page] # 0
  <2> SUFFICES ASSUME NEW h \in Handles, allocs[h] # None PROVE slotOf'[allocs[h].page] # 0
    OBVIOUS
  <2>1. allocs[h].page \in PageIds
    BY DEF Allocations
  <2>2. allocs[h].page \notin gone
    BY <1>2 DEF LiveOn
  <2> QED
    BY <1>1, <2>1, <2>2
<1> QED
  BY <1>1, <1>4, <1>5, <1>6, <1>7, <1>8

-----------------------------------------------------------------------------
(* Owners, the device and recordings *)

LEMMA DropInv ==
  ASSUME Inv, NEW g \in Handles, Drop(g)
  PROVE  Inv'
<1> USE DEF Inv
<1> DEFINE owning == held' \cup bound' \cup Planned(rel)
<1>1. /\ alloc' = Settled(alloc, owning) /\ held' \subseteq held /\ bound' \subseteq bound
      /\ UNCHANGED <<arena, graphs, stalled, rel>>
  BY DEF Drop
<1>2. \A h \in Handles : alloc'[h] = IF h \in owning THEN alloc[h] ELSE None
  BY <1>1, SettledIs
<1>3. \A h \in Handles : alloc'[h] # None => alloc'[h] = alloc[h]
  BY <1>2
<1>4. \A h \in Planned(rel) : h \in Handles /\ alloc'[h] = alloc[h] /\ alloc[h] # None
  <2>1. Planned(rel) \subseteq Handles
    BY PlannedIs DEF TypeOK, Relocations, Moves, Moved
  <2> QED
    BY <1>2, <2>1 DEF PlanInv
<1>5. TypeOK'
  <2>1. alloc' \in [Handles -> Allocations \cup {None}]
    BY <1>1, <1>2 DEF TypeOK, Settled
  <2> QED
    BY <1>1, <2>1 DEF TypeOK, arena, graphs
<1>6. SlotsInv'
  BY <1>1, SlotsSame DEF arena
<1>7. LiveInv'
  <2>1. \A h \in held' \cup bound' : h \in Handles /\ alloc'[h] = alloc[h] /\ alloc[h] # None
    BY <1>1, <1>2 DEF LiveInv, TypeOK
  <2> QED
    BY <1>1, <1>3, <2>1 DEF LiveInv, arena
<1>8. RecordInv'
  BY <1>1 DEF RecordInv, RecordedPagesKept, arena, graphs
<1>9. PlanInv'
  BY <1>1, <1>3, <1>4, PlanKept DEF arena, graphs
<1>10. BytesInv'
  <2>1. \A m \in rel.moves : alloc'[m.handle] = alloc[m.handle]
    BY <1>4, PlannedIs DEF Moved
  <2> QED
    BY <1>1, <1>3, <2>1 DEF BytesInv
<1> QED
  BY <1>5, <1>6, <1>7, <1>8, <1>9, <1>10

LEMMA ResolveInv ==
  ASSUME Inv, NEW g \in Handles, Resolve(g)
  PROVE  Inv'
<1> USE DEF Inv
<1>1. /\ rel' = Idle /\ rel = Idle /\ g \in held /\ bound' = bound \cup {g}
      /\ UNCHANGED <<arena, graphs, alloc, held, stalled, rel>>
  BY DEF Resolve
<1>2. TypeOK'
  BY <1>1 DEF TypeOK, arena, graphs
<1>3. SlotsInv'
  BY <1>1, SlotsSame DEF arena
<1>4. LiveInv' /\ RecordInv' /\ BytesInv'
  BY <1>1 DEF LiveInv, RecordInv, RecordedPagesKept, BytesInv, arena, graphs
<1>5. PlanInv'
  BY <1>1, IdlePlanPrime
<1> QED
  BY <1>2, <1>3, <1>4, <1>5

LEMMA SubmitInv ==
  ASSUME Inv, NEW g \in Handles, Submit(g)
  PROVE  Inv'
<1> USE DEF Inv
<1>1. rel' = Idle /\ rel = Idle /\ g \in held /\ UNCHANGED <<arena, owners, graphs, rel>>
  BY DEF Submit
<1>n. alloc[g] # None
  BY <1>1 DEF LiveInv
<1>a. alloc' = [alloc EXCEPT ![g].bytes = FALSE, ![g].pending = alloc[g].page]
  BY DEF Submit
<1>2. alloc[g] \in Allocations
  BY <1>n DEF TypeOK
<1>3. /\ alloc'[g] = [alloc[g] EXCEPT !.bytes = FALSE, !.pending = alloc[g].page]
      /\ \A h \in Handles \ {g} : alloc'[h] = alloc[h]
  BY <1>a DEF TypeOK
<1>4. alloc'[g] \in Allocations /\ alloc'[g].page = alloc[g].page /\ alloc'[g].pending = alloc[g].page
  BY <1>2, <1>3 DEF Allocations
<1>5. alloc[g].page \in PageIds /\ alloc[g].page # 0 /\ alloc'[g] # None
  BY <1>2, <1>4, ArenaAssumption DEF Allocations
<1>6. TypeOK'
  <2>1. alloc' \in [Handles -> Allocations \cup {None}]
    BY <1>a, <1>3, <1>4 DEF TypeOK
  <2> QED
    BY <1>1, <2>1 DEF TypeOK, arena, graphs, owners
<1>7. SlotsInv'
  BY <1>1, SlotsSame DEF arena
<1>8. LiveInv' /\ RecordInv'
  <2>1. held \cup bound \subseteq Handles
    BY DEF TypeOK
  <2>2. LiveInv'
    BY <1>1, <1>3, <1>4, <1>5, <2>1 DEF LiveInv, arena, owners
  <2> QED
    BY <1>1, <2>2 DEF RecordInv, RecordedPagesKept, arena, graphs
<1>9. BytesInv'
  <2>1. rel'.stage = "idle"
    BY <1>1 DEF Idle
  <2>2. \A h \in Handles : alloc'[h] # None =>
          IF alloc'[h].pending = 0 THEN alloc'[h].bytes ELSE alloc'[h].pending = alloc'[h].page
    BY <1>3, <1>4, <1>5 DEF BytesInv
  <2> QED
    BY <2>1, <2>2 DEF BytesInv
<1>10. PlanInv'
  BY <1>1, IdlePlanPrime
<1> QED
  BY <1>6, <1>7, <1>8, <1>9, <1>10

LEMMA ExecuteInv ==
  ASSUME Inv, NEW g \in Handles, Execute(g)
  PROVE  Inv'
<1> USE DEF Inv
<1>1. /\ alloc[g] # None /\ alloc[g].pending # 0
      /\ alloc' = [alloc EXCEPT ![g].pending = 0, ![g].bytes = (alloc[g].page = alloc[g].pending)]
      /\ UNCHANGED <<arena, owners, graphs, stalled, rel>>
  BY DEF Execute
<1>2. alloc[g] \in Allocations
  BY <1>1 DEF TypeOK
<1>3. alloc[g].page = alloc[g].pending
  BY <1>1 DEF BytesInv
<1>4. /\ alloc'[g] = [alloc[g] EXCEPT !.pending = 0, !.bytes = TRUE]
      /\ \A h \in Handles \ {g} : alloc'[h] = alloc[h]
  BY <1>1, <1>3 DEF TypeOK
<1>5. alloc'[g] \in Allocations /\ alloc'[g].page = alloc[g].page /\ alloc'[g].pending = 0 /\ alloc'[g].bytes
  BY <1>2, <1>4 DEF Allocations
<1>6. alloc'[g] # None
  BY <1>5, ArenaAssumption
<1>7. TypeOK'
  <2>1. alloc' \in [Handles -> Allocations \cup {None}]
    BY <1>1, <1>4, <1>5 DEF TypeOK
  <2> QED
    BY <1>1, <2>1 DEF TypeOK, arena, graphs, owners
<1>8. SlotsInv'
  BY <1>1, SlotsSame DEF arena
<1>9. LiveInv' /\ RecordInv'
  BY <1>1, <1>4, <1>5, <1>6, ZenonT(40) DEF LiveInv, RecordInv, RecordedPagesKept, TypeOK, arena, owners, graphs
<1>10. PlanInv'
  <2>1. \A h \in Handles : alloc'[h] # None => alloc[h] # None /\ alloc'[h].page = alloc[h].page
    BY <1>1, <1>4, <1>5
  <2>2. \A h \in Planned(rel) : h \in Handles
    BY PlannedIs DEF TypeOK, Relocations, Moves, Moved
  <2>3. \A h \in Planned(rel) : alloc'[h] # None
    BY <1>4, <1>6, <2>2 DEF PlanInv
  <2> QED
    BY <1>1, <2>1, <2>3, PlanKept DEF arena, graphs, owners
<1>11. BytesInv'
  <2>1. rel.stage # "landed"
    BY <1>1 DEF BytesInv
  <2> QED
    BY <1>1, <1>4, <1>5, <2>1, ZenonT(40) DEF BytesInv
<1> QED
  BY <1>7, <1>8, <1>9, <1>10, <1>11

LEMMA StartRecordingInv ==
  ASSUME Inv, NEW who \in {"self", "other"}, StartRecording(who)
  PROVE  Inv'
<1> USE DEF Inv
<1>1. /\ rel' = Idle /\ rel = Idle /\ recording = "no" /\ recording' = who
      /\ UNCHANGED <<arena, owners, guards, touched, alloc, stalled, rel>>
  BY DEF StartRecording
<1>2. TypeOK'
  BY <1>1 DEF TypeOK, arena, owners
<1>3. SlotsInv'
  BY <1>1, SlotsSame DEF arena
<1>4. LiveInv' /\ BytesInv'
  BY <1>1 DEF LiveInv, BytesInv, arena, owners
<1>5. RecordInv'
  BY <1>1 DEF RecordInv, RecordedPagesKept, arena, Idle
<1>6. PlanInv'
  BY <1>1, IdlePlanPrime
<1> QED
  BY <1>2, <1>3, <1>4, <1>5, <1>6

LEMMA TouchInv ==
  ASSUME Inv, NEW g \in Handles, Touch(g)
  PROVE  Inv'
<1> USE DEF Inv
<1>1. /\ rel' = Idle /\ rel = Idle /\ recording # "no" /\ g \in held
      /\ touched' = touched \cup {alloc[g].page}
      /\ UNCHANGED <<arena, owners, guards, recording, alloc, stalled, rel>>
  BY DEF Touch
<1>n. alloc[g] # None
  BY <1>1 DEF LiveInv
<1>2. alloc[g].page \in PageIds /\ slotOf[alloc[g].page] # 0
  BY <1>n DEF TypeOK, LiveInv, Allocations
<1>3. TypeOK'
  BY <1>1, <1>2 DEF TypeOK, arena, owners
<1>4. SlotsInv'
  BY <1>1, SlotsSame DEF arena
<1>5. LiveInv' /\ BytesInv'
  BY <1>1 DEF LiveInv, BytesInv, arena, owners
<1>6. RecordInv'
  BY <1>1, <1>2 DEF RecordInv, RecordedPagesKept, arena
<1>7. PlanInv'
  BY <1>1, IdlePlanPrime
<1> QED
  BY <1>3, <1>4, <1>5, <1>6, <1>7

LEMMA SealInv ==
  ASSUME Inv, Seal
  PROVE  Inv'
<1> USE DEF Inv
<1>1. /\ rel' = Idle /\ rel = Idle /\ guards' = guards \cup touched
      /\ touched' = {} /\ recording' = "no"
      /\ UNCHANGED <<arena, owners, alloc, stalled, rel>>
  BY DEF Seal
<1>2. TypeOK'
  BY <1>1 DEF TypeOK, arena, owners
<1>3. SlotsInv'
  BY <1>1, SlotsSame DEF arena
<1>4. LiveInv' /\ BytesInv'
  BY <1>1 DEF LiveInv, BytesInv, arena, owners
<1>5. RecordInv'
  BY <1>1 DEF RecordInv, RecordedPagesKept, arena
<1>6. PlanInv'
  BY <1>1, IdlePlanPrime
<1> QED
  BY <1>2, <1>3, <1>4, <1>5, <1>6

LEMMA DropGuardInv ==
  ASSUME Inv, NEW p \in PageIds, DropGuard(p)
  PROVE  Inv'
<1> USE DEF Inv
<1>1. /\ guards' \subseteq guards
      /\ UNCHANGED <<arena, owners, recording, touched, alloc, stalled, rel>>
  BY DEF DropGuard
<1>2. TypeOK'
  BY <1>1 DEF TypeOK, arena, owners
<1>3. SlotsInv'
  BY <1>1, SlotsSame DEF arena
<1>4. LiveInv' /\ BytesInv'
  BY <1>1 DEF LiveInv, BytesInv, arena, owners
<1>5. RecordInv'
  BY <1>1 DEF RecordInv, RecordedPagesKept, arena
<1>6. PlanInv'
  <2>1. \A h \in Planned(rel) : alloc'[h] # None
    BY <1>1 DEF PlanInv
  <2> QED
    BY <1>1, <2>1, PlanKept DEF arena, owners
<1> QED
  BY <1>2, <1>3, <1>4, <1>5, <1>6

-----------------------------------------------------------------------------
(* Reservations *)

\* No recording is under way, so it uses no page, when the server drains.
LEMMA TickInv ==
  ASSUME Inv, Tick
  PROVE  Inv'
<1> USE DEF Inv
<1>1. /\ recording = "no" /\ Drain(alloc, outdated) /\ rel' = [Idle EXCEPT !.stage = "ticked"]
      /\ UNCHANGED <<owners, graphs, alloc, stalled>>
  BY DEF Tick
<1>2. /\ SlotsInv' /\ current' = current
      /\ pools' \in [Slots -> 0 .. MaxPage] /\ outdated' \subseteq Slots
      /\ slotOf' \in [PageIds -> 0 .. SlotCount]
      /\ \A p \in PageIds : slotOf'[p] # 0 => pools'[slotOf'[p]] # 0
      /\ \A p \in guards : slotOf'[p] = slotOf[p]
      /\ \A h \in Handles : alloc[h] # None => slotOf'[alloc[h].page] # 0
  <2>1. /\ alloc \in [Handles -> Allocations \cup {None}] /\ outdated \in SUBSET Slots
        /\ \A h \in Handles : alloc[h] # None => slotOf[alloc[h].page] # 0
    BY DEF TypeOK, LiveInv
  <2> QED
    BY <1>1, <2>1, DrainKeeps
<1>3. rel' \in Relocations /\ rel'.stage = "ticked" /\ rel'.todo = {} /\ rel'.left = {} /\ rel'.moves = {}
  BY <1>1 DEF Idle, Relocations
<1>4. TypeOK'
  BY <1>1, <1>2, <1>3 DEF TypeOK, owners, graphs
<1>5. LiveInv'
  BY <1>1, <1>2 DEF LiveInv, owners
<1>6. RecordInv'
  BY <1>1, <1>2 DEF RecordInv, RecordedPagesKept, graphs
<1>7. PlanInv'
  BY <1>3, EmptyPlanPrime
<1>8. BytesInv'
  BY <1>1, <1>3 DEF BytesInv
<1> QED
  BY <1>2, <1>4, <1>5, <1>6, <1>7, <1>8

\* What a reservation does to the rest, wherever the page comes from.
LEMMA PlaceKeeps ==
  ASSUME Inv, NEW g \in Handles, NEW size \in Nat, NEW p \in PageIds, alloc[g] = None,
         Place(g, size, p), SlotsInv',
         pools' \in [Slots -> 0 .. MaxPage], current' \in Slots, outdated' \subseteq Slots,
         slotOf' \in [PageIds -> 0 .. SlotCount], slotOf'[p] # 0,
         \A q \in PageIds : slotOf[q] # 0 => slotOf'[q] # 0,
         \A q \in PageIds : slotOf'[q] # 0 => pools'[slotOf'[q]] # 0
  PROVE  Inv'
<1> USE DEF Inv
<1> DEFINE new == [page |-> p, size |-> size, bytes |-> TRUE, pending |-> 0]
<1>1. /\ alloc' = [alloc EXCEPT ![g] = new] /\ held' = held \cup {g} /\ rel' = Idle
      /\ UNCHANGED <<bound, graphs, stalled>>
  BY DEF Place
<1>2. new \in Allocations /\ new.page = p /\ new.bytes /\ new.pending = 0
  BY DEF Allocations
<1>3. new # None
  BY <1>2, ArenaAssumption
<1> HIDE DEF new
<1>4. alloc'[g] = new /\ \A h \in Handles \ {g} : alloc'[h] = alloc[h]
  BY <1>1 DEF TypeOK
<1>5. TypeOK'
  <2>1. alloc' \in [Handles -> Allocations \cup {None}]
    BY <1>1, <1>2 DEF TypeOK
  <2>2. rel' \in Relocations
    BY <1>1 DEF Idle, Relocations
  <2> QED
    BY <1>1, <2>1, <2>2 DEF TypeOK, graphs
<1>6. LiveInv'
  <2>1. \A h \in held' \cup bound' : alloc'[h] # None
    BY <1>1, <1>3, <1>4 DEF LiveInv, TypeOK
  <2>2. \A h \in Handles : alloc'[h] # None => slotOf'[alloc'[h].page] # 0
    <3> SUFFICES ASSUME NEW h \in Handles, alloc'[h] # None, h # g
                 PROVE  slotOf'[alloc'[h].page] # 0
      BY <1>2, <1>4
    <3>1. alloc'[h] = alloc[h] /\ slotOf[alloc[h].page] # 0
      BY <1>4 DEF LiveInv
    <3>2. alloc[h].page \in PageIds
      BY <3>1 DEF TypeOK, Allocations
    <3> QED
      BY <3>1, <3>2
  <2> QED
    BY <2>1, <2>2 DEF LiveInv
<1>7. RecordInv'
  BY <1>1 DEF RecordInv, RecordedPagesKept, graphs, Idle, TypeOK
<1>8. PlanInv'
  BY <1>1, IdlePlanPrime
<1>9. BytesInv'
  <2>1. rel'.stage = "idle"
    BY <1>1 DEF Idle
  <2>2. \A h \in Handles : alloc'[h] # None =>
          IF alloc'[h].pending = 0 THEN alloc'[h].bytes ELSE alloc'[h].pending = alloc'[h].page
    BY <1>2, <1>4 DEF BytesInv
  <2> QED
    BY <2>1, <2>2 DEF BytesInv
<1> QED
  BY <1>5, <1>6, <1>7, <1>8, <1>9

LEMMA ReserveFitsInv ==
  ASSUME Inv, NEW g \in Handles, NEW size \in SizesOf[g], ReserveFits(g, size)
  PROVE  Inv'
<1> USE DEF Inv
<1>1. size \in Nat /\ alloc[g] = None
  BY ArenaAssumption DEF ReserveFits
<1>t. /\ pools \in [Slots -> 0 .. MaxPage] /\ current \in Slots /\ outdated \subseteq Slots
      /\ slotOf \in [PageIds -> 0 .. SlotCount] /\ current # 0 /\ pools[current] # 0
  BY ArenaAssumption DEF TypeOK, SlotsInv, Slots
<1>2. CASE \E p \in Room(size) : Place(g, size, p) /\ UNCHANGED arena
  <2>1. PICK p \in Room(size) : Place(g, size, p) /\ UNCHANGED arena
    BY <1>2
  <2>2. p \in PageIds /\ slotOf[p] = current
    BY DEF Room, PagesOf
  <2>3. SlotsInv'
    BY <2>1, SlotsSame DEF arena
  <2> QED
    BY <1>1, <1>t, <2>1, <2>2, <2>3, PlaceKeeps DEF arena, LiveInv
<1>3. CASE /\ \E p \in NewPage : Place(g, size, p) /\ slotOf' = [slotOf EXCEPT ![p] = current]
           /\ UNCHANGED <<pools, current, outdated>>
  <2>1. PICK p \in NewPage : Place(g, size, p) /\ slotOf' = [slotOf EXCEPT ![p] = current]
    BY <1>3
  <2>2. p \in PageIds
    BY DEF NewPage
  <2>3. SlotsInv'
    BY <1>3, SlotsSame
  <2>4. slotOf' \in [PageIds -> 0 .. SlotCount] /\ slotOf'[p] # 0
    BY <1>t, <2>1, <2>2 DEF Slots
  <2>5. \A q \in PageIds : slotOf[q] # 0 => slotOf'[q] # 0
    BY <1>t, <2>1, <2>2
  <2>6. \A q \in PageIds : slotOf'[q] # 0 => pools'[slotOf'[q]] # 0
    BY <1>t, <1>3, <2>1, <2>2 DEF LiveInv
  <2> QED
    BY <1>1, <1>3, <1>t, <2>1, <2>2, <2>3, <2>4, <2>5, <2>6, PlaceKeeps
<1> QED
  BY <1>2, <1>3 DEF ReserveFits

LEMMA GrowInv ==
  ASSUME Inv, NEW g \in Handles, NEW size \in SizesOf[g], Grow(g, size)
  PROVE  Inv'
<1> USE DEF Inv
<1>1. size \in Nat /\ alloc[g] = None /\ pools[current] < size /\ size <= MaxPage
  BY ArenaAssumption DEF Grow
<1>2. PICK s \in FreeSlots, p \in PageIds :
        /\ slotOf[p] = 0 /\ Place(g, size, p)
        /\ slotOf' = [slotOf EXCEPT ![p] = s]
        /\ pools' = [pools EXCEPT ![s] = GrownSize(size)]
        /\ outdated' = outdated \cup {current} /\ current' = s
  BY DEF Grow
<1>3. s \in Slots /\ s # 0 /\ pools[s] = 0
  BY DEF FreeSlots, Slots
<1>t. /\ pools \in [Slots -> 0 .. MaxPage] /\ current \in Slots /\ outdated \subseteq Slots
      /\ slotOf \in [PageIds -> 0 .. SlotCount]
  BY DEF TypeOK
<1>4. GrownSize(size) \in 0 .. MaxPage /\ size <= GrownSize(size)
  BY <1>1, ArenaAssumption DEF GrownSize
<1>5. /\ pools' \in [Slots -> 0 .. MaxPage] /\ current' \in Slots /\ outdated' \subseteq Slots
      /\ slotOf' \in [PageIds -> 0 .. SlotCount] /\ slotOf'[p] = s
      /\ pools'[s] = GrownSize(size) /\ \A r \in Slots \ {s} : pools'[r] = pools[r]
      /\ \A q \in PageIds \ {p} : slotOf'[q] = slotOf[q]
  BY <1>2, <1>3, <1>4, <1>t DEF Slots
<1>6. pools[current] \in Nat /\ pools[current] < GrownSize(size) /\ GrownSize(size) # 0
  BY <1>1, <1>4, <1>t, ArenaAssumption
<1>7. SlotsInv'
  <2>1. s \notin outdated /\ s # current
    BY <1>3 DEF SlotsInv
  <2>2. outdated' \in SUBSET Slots /\ current' \in Slots /\ current' \notin outdated'
    BY <1>2, <1>5, <2>1
  <2>3. outdated' \cup {current'} = {r \in Slots : pools'[r] # 0}
    BY <1>2, <1>3, <1>5, <1>6 DEF SlotsInv
  <2>4. Full' <=> FreeSlots' = {}
    BY <2>2, <2>3, SlotsCounted DEF Full, FreeSlots
  <2>5. \A r \in outdated' : pools'[r] < pools'[current']
    <3>1. \A r \in outdated : pools[r] < pools[current] /\ pools[r] \in Nat
      BY <1>t DEF SlotsInv
    <3>2. \A r \in outdated' : pools'[r] = pools[r] /\ pools[r] \in Nat /\ pools[r] <= pools[current]
      BY <1>2, <1>5, <1>6, <1>t, <2>1, <3>1
    <3> QED
      BY <1>2, <1>5, <1>6, <3>2
  <2> QED
    BY <1>2, <1>5, <1>6, <2>2, <2>3, <2>4, <2>5 DEF SlotsInv
<1>8. \A q \in PageIds : slotOf[q] # 0 => slotOf'[q] # 0
  BY <1>2, <1>5
<1>9. \A q \in PageIds : slotOf'[q] # 0 => pools'[slotOf'[q]] # 0
  <2> SUFFICES ASSUME NEW q \in PageIds, slotOf'[q] # 0, q # p PROVE pools'[slotOf'[q]] # 0
    BY <1>5, <1>6
  <2>1. slotOf'[q] = slotOf[q] /\ slotOf[q] \in Slots /\ pools[slotOf[q]] # 0
    BY <1>5, <1>t, ArenaAssumption DEF LiveInv, Slots
  <2> QED
    BY <1>3, <1>5, <2>1
<1> QED
  BY <1>1, <1>2, <1>3, <1>5, <1>7, <1>8, <1>9, PlaceKeeps

\* Steps that only change what the server has in hand.
LEMMA HandKeeps ==
  ASSUME Inv, UNCHANGED <<arena, owners, graphs, alloc>>, rel' \in Relocations,
         rel'.stage # "idle" => recording = "no", rel'.stage # "landed", PlanInv'
  PROVE  Inv'
<1> USE DEF Inv
<1>1. TypeOK'
  BY DEF TypeOK, arena, owners, graphs
<1>2. SlotsInv'
  BY SlotsSame DEF arena
<1>3. LiveInv' /\ BytesInv' /\ RecordInv'
  BY DEF LiveInv, BytesInv, RecordInv, RecordedPagesKept, arena, owners, graphs
<1> QED
  BY <1>1, <1>2, <1>3

LEMMA ReserveRefusedInv ==
  ASSUME Inv, ReserveRefused
  PROVE  Inv'
<1>1. rel' = Idle /\ UNCHANGED <<arena, owners, graphs, alloc>>
  BY DEF ReserveRefused
<1>2. rel' \in Relocations /\ rel'.stage = "idle"
  BY <1>1 DEF Idle, Relocations
<1> QED
  BY <1>1, <1>2, IdlePlanPrime, HandKeeps

-----------------------------------------------------------------------------
(* Relocations *)

\* A relocation that ends leaves no clones.
LEMMA EndedIs ==
  ASSUME NEW r
  PROVE  /\ Ended(r) \in Relocations /\ Ended(r).stage \in {"idle", "cleanup"}
         /\ Ended(r).stage = "idle" => Ended(r) = Idle
         /\ Ended(r).todo = {} /\ Ended(r).left = {} /\ Ended(r).moves = {}
BY DEF Ended, Idle, Relocations

LEMMA EndedPlan ==
  ASSUME rel' = Ended(rel)
  PROVE  PlanInv'
<1>1. CASE rel'.stage = "idle"
  BY <1>1, EndedIs, IdlePlanPrime
<1>2. CASE rel'.stage = "cleanup"
  BY <1>2, EndedIs, EmptyPlanPrime
<1> QED
  BY <1>1, <1>2, EndedIs

LEMMA StartInv ==
  ASSUME Inv, NEW reason \in Reasons, Start(reason)
  PROVE  Inv'
<1> USE DEF Inv
<1> DEFINE stage == IF outdated = {} THEN "cleanup" ELSE "plan"
<1>1. /\ recording = "no" /\ UNCHANGED <<arena, owners, graphs, alloc>>
      /\ rel' = [Idle EXCEPT !.reason = reason, !.stage = stage, !.todo = Movable]
  BY DEF Start
<1>2. /\ rel'.stage = stage /\ rel'.todo = Movable /\ rel'.left = {} /\ rel'.moves = {}
      /\ rel'.reason = reason /\ rel'.from = None
  BY <1>1 DEF Idle
<1>3. \A e \in Movable :
        /\ e.page \in PageIds \ guards /\ slotOf[e.page] \in outdated
        /\ e.live = LiveOn(e.page, alloc) /\ e.live \cap bound = {}
        /\ e \in [page : PageIds, live : SUBSET Handles]
  BY DEF Movable, OutdatedPages, PagesOf, LiveOn
<1>4. rel' \in Relocations
  <2>1. Movable \in SUBSET [page : PageIds, live : SUBSET Handles]
    BY <1>3
  <2> QED
    BY <1>1, <2>1 DEF Idle, Relocations
<1>5. outdated = {} => Movable = {}
  BY <1>3
<1>6. \A h \in Planned(rel') : \E e \in Movable : h \in e.live
  BY <1>2, PlannedIs DEF Moved
<1>7. \A h \in Planned(rel') :
       /\ alloc[h] # None /\ h \notin bound
       /\ alloc[h].page \notin guards /\ slotOf[alloc[h].page] \in outdated
  BY <1>3, <1>6 DEF LiveOn
<1>8. PlanInv'
  <2>1. UNCHANGED <<alloc, slotOf, outdated, current, guards, bound>>
    BY <1>1 DEF arena, owners, graphs
  <2>2. \A h \in Planned(rel') :
         /\ alloc'[h] # None /\ h \notin bound'
         /\ alloc'[h].page \notin guards' /\ slotOf'[alloc'[h].page] \in outdated'
    BY <2>1, <1>7
  <2>3. \A e \in rel'.todo : e.live = LiveOn(e.page, alloc')
    BY <2>1, <1>2, <1>3
  <2> QED
    BY <1>2, <1>5, <2>2, <2>3 DEF PlanInv
<1> QED
  BY <1>1, <1>2, <1>4, <1>8, HandKeeps

LEMMA NextPageInv ==
  ASSUME Inv, NextPage
  PROVE  Inv'
<1> USE DEF Inv
<1>1. /\ rel.stage = "plan" /\ rel.left = {} /\ UNCHANGED <<arena, owners, graphs, alloc>>
  BY DEF NextPage
<1>2. PICK e \in rel.todo : rel' = [rel EXCEPT !.todo = rel.todo \ {e}, !.from = e.page, !.left = e.live]
  BY DEF NextPage
<1>t. rel \in Relocations /\ e \in [page : PageIds, live : SUBSET Handles]
  BY DEF TypeOK, Relocations
<1>3. /\ rel'.stage = "plan" /\ rel'.todo = rel.todo \ {e} /\ rel'.from = e.page
      /\ rel'.left = e.live /\ rel'.moves = rel.moves /\ rel' \in Relocations
  BY <1>1, <1>2, <1>t DEF Relocations
<1>4. Moved(rel') = Moved(rel)
  BY <1>3 DEF Moved
<1>5. Planned(rel') \subseteq Planned(rel)
  BY <1>3, <1>4, PlannedIs
<1>6. e.live = LiveOn(e.page, alloc) /\ \A h \in e.live : alloc[h].page = e.page
  BY DEF PlanInv, LiveOn
<1>7. PlanInv'
  BY <1>1, <1>3, <1>4, <1>5, <1>6 DEF PlanInv, arena, owners, graphs
<1>8. recording = "no"
  BY <1>1 DEF RecordInv
<1> QED
  BY <1>1, <1>3, <1>7, <1>8, HandKeeps

\* A target on a current page, old or new, is nobody else's page.
LEMMA PlanMoveInv ==
  ASSUME Inv, NEW g \in Handles, PlanMove(g)
  PROVE  Inv'
<1> USE DEF Inv
<1>1. /\ rel.stage = "plan" /\ g \in rel.left
      /\ UNCHANGED <<pools, current, outdated, owners, graphs, alloc>>
  BY DEF PlanMove
<1>2. PICK p \in Room(alloc[g].size) \cup NewPage :
        /\ rel' = [rel EXCEPT !.left = rel.left \ {g},
                              !.moves = rel.moves \cup {[handle |-> g, page |-> p, bytes |-> FALSE]}]
        /\ slotOf' = [slotOf EXCEPT ![p] = current]
  BY DEF PlanMove
<1>3. p \in PageIds /\ (slotOf[p] = current \/ slotOf[p] = 0)
  BY DEF Room, PagesOf, NewPage
<1> DEFINE new == [handle |-> g, page |-> p, bytes |-> FALSE]
<1>n. new \in Moves /\ new.handle = g /\ new.page = p
  BY <1>3 DEF Moves
<1>m. rel' = [rel EXCEPT !.left = rel.left \ {g}, !.moves = rel.moves \cup {new}]
  BY <1>2
<1> HIDE DEF new
<1>t. /\ slotOf \in [PageIds -> 0 .. SlotCount] /\ current \in Slots /\ current # 0
      /\ rel \in Relocations
  BY ArenaAssumption DEF TypeOK, Slots
<1>4. /\ slotOf' \in [PageIds -> 0 .. SlotCount] /\ slotOf'[p] = current
      /\ \A q \in PageIds \ {p} : slotOf'[q] = slotOf[q]
  BY <1>2, <1>3, <1>t DEF Slots
<1>5. \A q \in PageIds : slotOf[q] # 0 => slotOf'[q] = slotOf[q]
  BY <1>3, <1>4
<1>6. /\ rel'.stage = "plan" /\ rel'.todo = rel.todo /\ rel'.from = rel.from
      /\ rel'.left = rel.left \ {g} /\ rel'.moves = rel.moves \cup {new}
      /\ rel' \in Relocations
  BY <1>1, <1>m, <1>n, <1>t DEF Relocations
<1>7. Moved(rel') = Moved(rel) \cup {g}
  BY <1>6, <1>n DEF Moved
<1>8. rel'.left \cup Moved(rel') = rel.left \cup Moved(rel)
  BY <1>1, <1>6, <1>7
<1>9. \A h \in Planned(rel') : h \in Planned(rel)
  BY <1>1, <1>6, <1>7, PlannedIs
<1>p. \A h \in Handles : alloc[h] # None => alloc[h].page \in PageIds
  BY DEF TypeOK, Allocations
<1>10. \A h \in Handles : alloc[h] # None => slotOf'[alloc[h].page] = slotOf[alloc[h].page]
  BY <1>5, <1>p DEF LiveInv
<1>11. TypeOK'
  BY <1>1, <1>4, <1>6 DEF TypeOK, owners, graphs
<1>12. SlotsInv'
  BY <1>1, SlotsSame
<1>13. LiveInv'
  <2>1. \A q \in PageIds : slotOf'[q] # 0 => pools'[slotOf'[q]] # 0
    BY <1>1, <1>4 DEF LiveInv, SlotsInv
  <2> QED
    BY <1>1, <1>10, <2>1 DEF LiveInv, owners
<1>14. RecordInv'
  BY <1>1, <1>5, <1>6 DEF RecordInv, RecordedPagesKept, graphs, TypeOK
<1>15. PlanInv'
  <2>1. UNCHANGED <<alloc, outdated, current, guards, bound>>
    BY <1>1 DEF owners, graphs
  <2>h. Planned(rel) \subseteq Handles
    BY PlannedIs DEF TypeOK, Relocations, Moves, Moved
  <2>2. \A h \in Planned(rel') :
         /\ alloc'[h] # None /\ h \notin bound'
         /\ alloc'[h].page \notin guards' /\ slotOf'[alloc'[h].page] \in outdated'
    BY <2>1, <2>h, <1>9, <1>10 DEF PlanInv
  <2>3. \A m \in rel'.moves : slotOf'[m.page] = current'
    <3>1. \A m \in rel.moves : m.page \in PageIds /\ slotOf[m.page] = current
      BY <1>t DEF PlanInv, Relocations, Moves
    <3> QED
      BY <2>1, <3>1, <1>4, <1>5, <1>6, <1>n, <1>t
  <2>4. \A m \in rel'.moves : LiveOn(alloc'[m.handle].page, alloc') \subseteq rel'.left \cup Moved(rel')
    <3>1. alloc[g].page = rel.from /\ LiveOn(rel.from, alloc) \subseteq rel.left \cup Moved(rel)
      BY <1>1 DEF PlanInv
    <3> QED
      BY <2>1, <3>1, <1>6, <1>8, <1>n DEF PlanInv
  <2>5. \A e \in rel'.todo : e.live = LiveOn(e.page, alloc')
    BY <2>1, <1>6 DEF PlanInv
  <2>6. /\ \A h \in rel'.left : alloc'[h].page = rel'.from
        /\ rel'.left # {} => LiveOn(rel'.from, alloc') \subseteq rel'.left \cup Moved(rel')
    BY <2>1, <1>1, <1>6, <1>8 DEF PlanInv
  <2> QED
    BY <1>6, <2>2, <2>3, <2>4, <2>5, <2>6 DEF PlanInv
<1>16. BytesInv'
  BY <1>1, <1>6 DEF BytesInv
<1> QED
  BY <1>11, <1>12, <1>13, <1>14, <1>15, <1>16

\* A page that fails takes its moves with it, and no move of another page.
LEMMA PlanFailsInv ==
  ASSUME Inv, PlanFails
  PROVE  Inv'
<1> USE DEF Inv
<1>1. /\ rel.stage = "plan" /\ rel' = [rel EXCEPT !.left = {}, !.moves = Truncated(rel)]
      /\ alloc' = Settled(alloc, held \cup bound \cup Planned(rel'))
      /\ UNCHANGED <<arena, owners, graphs>>
  BY DEF PlanFails
<1>t. rel \in Relocations /\ Truncated(rel) \subseteq rel.moves
  BY DEF TypeOK, Truncated
<1>2. /\ rel'.stage = "plan" /\ rel'.todo = rel.todo /\ rel'.left = {}
      /\ rel'.moves = Truncated(rel) /\ rel' \in Relocations
  BY <1>1, <1>t DEF Relocations
<1>3. Moved(rel') \subseteq Moved(rel) /\ Planned(rel') \subseteq Planned(rel)
  <2>1. Moved(rel') \subseteq Moved(rel)
    BY <1>2, <1>t DEF Moved
  <2> QED
    BY <1>2, <2>1, PlannedIs
<1>4. \A h \in Handles :
        alloc'[h] = IF h \in held \cup bound \cup Planned(rel') THEN alloc[h] ELSE None
  BY <1>1, SettledIs
<1>5. \A h \in Handles : alloc'[h] # None => alloc'[h] = alloc[h]
  BY <1>4
<1>6. \A h \in Planned(rel') : h \in Handles /\ alloc'[h] = alloc[h] /\ alloc[h] # None
  <2>1. Planned(rel) \subseteq Handles
    BY PlannedIs DEF TypeOK, Relocations, Moves, Moved
  <2> QED
    BY <1>3, <1>4, <2>1 DEF PlanInv
<1>7. TypeOK'
  <2>1. alloc' \in [Handles -> Allocations \cup {None}]
    BY <1>1, <1>4 DEF TypeOK, Settled
  <2> QED
    BY <1>1, <1>2, <2>1 DEF TypeOK, arena, owners, graphs
<1>8. SlotsInv'
  BY <1>1, SlotsSame DEF arena
<1>9. LiveInv'
  <2>1. \A h \in held' \cup bound' : h \in Handles /\ alloc'[h] = alloc[h] /\ alloc[h] # None
    BY <1>1, <1>4 DEF LiveInv, TypeOK, owners
  <2> QED
    BY <1>1, <1>5, <2>1 DEF LiveInv, arena
<1>10. RecordInv'
  BY <1>1, <1>2 DEF RecordInv, RecordedPagesKept, arena, graphs
<1>11. PlanInv'
  <2>1. UNCHANGED <<slotOf, outdated, current, guards, bound>>
    BY <1>1 DEF arena, owners, graphs
  <2>2. \A h \in Planned(rel') :
         /\ alloc'[h] # None /\ h \notin bound'
         /\ alloc'[h].page \notin guards' /\ slotOf'[alloc'[h].page] \in outdated'
    BY <2>1, <1>3, <1>6 DEF PlanInv
  <2>3. \A m \in rel'.moves : slotOf'[m.page] = current'
    BY <2>1, <1>2, <1>t DEF PlanInv
  <2>4. \A q : LiveOn(q, alloc') \subseteq LiveOn(q, alloc)
    BY <1>5 DEF LiveOn
  <2>5. \A e \in rel'.todo : e.live = LiveOn(e.page, alloc')
    <3> SUFFICES ASSUME NEW e \in rel.todo PROVE e.live = LiveOn(e.page, alloc')
      BY <1>2
    <3>1. e.live \subseteq Planned(rel')
      BY <1>2, PlannedIs
    <3>2. e.live = LiveOn(e.page, alloc)
      BY DEF PlanInv
    <3>3. e.live \subseteq LiveOn(e.page, alloc')
      BY <1>6, <3>1, <3>2 DEF LiveOn
    <3> QED
      BY <2>4, <3>2, <3>3
  <2>6. \A m \in rel'.moves : LiveOn(alloc'[m.handle].page, alloc') \subseteq rel'.left \cup Moved(rel')
    <3> SUFFICES ASSUME NEW m \in rel'.moves, NEW h \in LiveOn(alloc'[m.handle].page, alloc')
                 PROVE  h \in Moved(rel')
      OBVIOUS
    <3>1. m \in rel.moves /\ alloc[m.handle].page # rel.from
      BY <1>2 DEF Truncated
    <3>2. alloc'[m.handle] = alloc[m.handle]
      BY <1>6, PlannedIs DEF Moved
    <3>3. h \in LiveOn(alloc[m.handle].page, alloc) /\ alloc[h].page # rel.from
      BY <2>4, <3>1, <3>2 DEF LiveOn
    <3>4. h \in Moved(rel)
      BY <3>1, <3>3 DEF PlanInv
    <3>5. PICK n \in rel.moves : n.handle = h
      BY <3>4 DEF Moved
    <3>6. n \in rel'.moves
      BY <1>2, <3>3, <3>5 DEF Truncated
    <3> QED
      BY <3>5, <3>6 DEF Moved
  <2> QED
    BY <1>2, <2>2, <2>3, <2>5, <2>6 DEF PlanInv
<1>12. BytesInv'
  BY <1>2, <1>5 DEF BytesInv
<1> QED
  BY <1>7, <1>8, <1>9, <1>10, <1>11, <1>12

LEMMA PlanEndsInv ==
  ASSUME Inv, PlanEnds
  PROVE  Inv'
<1> USE DEF Inv
<1>1. /\ rel.stage = "plan" /\ rel.left = {} /\ rel.todo = {}
      /\ UNCHANGED <<arena, owners, graphs, alloc>>
  BY DEF PlanEnds
<1>2. recording = "no"
  BY <1>1 DEF RecordInv
<1>3. CASE rel' = Ended(rel)
  BY <1>1, <1>2, <1>3, EndedIs, EndedPlan, HandKeeps
<1>4. CASE rel' = [rel EXCEPT !.stage = "copy"]
  <2>1. /\ rel'.stage = "copy" /\ rel'.todo = {} /\ rel'.left = {} /\ rel'.moves = rel.moves
        /\ rel' \in Relocations
    BY <1>1, <1>4 DEF TypeOK, Relocations
  <2>2. Moved(rel') = Moved(rel)
    BY <2>1 DEF Moved
  <2>3. Planned(rel') \subseteq Planned(rel)
    BY <2>1, <2>2, PlannedIs
  <2>4. PlanInv'
    BY <1>1, <2>1, <2>2, <2>3 DEF PlanInv, arena, owners, graphs
  <2> QED
    BY <1>1, <1>2, <2>1, <2>4, HandKeeps
<1> QED
  BY <1>3, <1>4 DEF PlanEnds

LEMMA CopyInv ==
  ASSUME Inv, Copy
  PROVE  Inv'
<1> USE DEF Inv
<1> DEFINE landed(m) == [m EXCEPT !.bytes = alloc[m.handle].bytes]
<1>1. /\ rel.stage = "copy" /\ UNCHANGED <<arena, owners, graphs, alloc>>
      /\ rel' = [rel EXCEPT !.stage = "landed", !.moves = {landed(m) : m \in rel.moves}]
      /\ \A h \in Handles : alloc[h] # None => alloc[h].pending = 0
  BY DEF Copy, DeviceDone
<1>t. rel \in Relocations /\ rel.moves \subseteq Moves
  BY DEF TypeOK, Relocations
<1>2. \A m \in rel.moves : m.handle \in Handles /\ alloc[m.handle] # None
  BY <1>t, PlannedIs DEF PlanInv, Moved, Moves
<1>3. \A m \in rel.moves : alloc[m.handle].bytes \in BOOLEAN
  BY <1>2 DEF TypeOK, Allocations
<1>4. \A m \in rel.moves :
        /\ landed(m) \in Moves /\ landed(m).handle = m.handle /\ landed(m).page = m.page
        /\ landed(m).bytes = alloc[m.handle].bytes
  BY <1>t, <1>3 DEF Moves
<1> HIDE DEF landed
<1>5. {landed(m) : m \in rel.moves} \in SUBSET Moves
  BY <1>4
<1>6. /\ rel'.stage = "landed" /\ rel'.todo = {} /\ rel'.left = {} /\ rel' \in Relocations
      /\ rel'.moves = {landed(m) : m \in rel.moves}
  BY <1>1, <1>5, <1>t DEF Relocations, PlanInv
<1>7. Moved(rel') = Moved(rel)
  BY <1>4, <1>6 DEF Moved
<1>8. Planned(rel') \subseteq Planned(rel)
  BY <1>6, <1>7, PlannedIs
<1>9. rel.left = {}
  BY <1>1 DEF PlanInv
<1>10. PlanInv'
  <2>1. UNCHANGED <<alloc, slotOf, outdated, current, guards, bound>>
    BY <1>1 DEF arena, owners, graphs
  <2>2. \A h \in Planned(rel') :
         /\ alloc'[h] # None /\ h \notin bound'
         /\ alloc'[h].page \notin guards' /\ slotOf'[alloc'[h].page] \in outdated'
    BY <2>1, <1>8 DEF PlanInv
  <2>3. \A m \in rel'.moves : slotOf'[m.page] = current'
    BY <2>1, <1>4, <1>6 DEF PlanInv
  <2>4. \A m \in rel'.moves : LiveOn(alloc'[m.handle].page, alloc') \subseteq rel'.left \cup Moved(rel')
    BY <2>1, <1>4, <1>6, <1>7, <1>9 DEF PlanInv
  <2> QED
    BY <1>6, <2>2, <2>3, <2>4 DEF PlanInv
<1>11. BytesInv'
  <2>1. \A m \in rel'.moves : m.bytes = alloc'[m.handle].bytes
    BY <1>1, <1>4, <1>6
  <2> QED
    BY <1>1, <2>1 DEF BytesInv
<1>12. TypeOK'
  BY <1>1, <1>6 DEF TypeOK, arena, owners, graphs
<1>13. SlotsInv'
  BY <1>1, SlotsSame DEF arena
<1>14. LiveInv' /\ RecordInv'
  BY <1>1, <1>6 DEF LiveInv, RecordInv, RecordedPagesKept, arena, owners, graphs
<1> QED
  BY <1>10, <1>11, <1>12, <1>13, <1>14

LEMMA CopyFailsInv ==
  ASSUME Inv, CopyFails
  PROVE  Inv'
<1> USE DEF Inv
<1>1. /\ rel.stage = "copy" /\ rel' = Ended(rel) /\ alloc' = Settled(alloc, held \cup bound)
      /\ UNCHANGED <<arena, owners, graphs>>
  BY DEF CopyFails
<1>2. rel' \in Relocations /\ rel'.stage # "landed" /\ recording = "no"
  BY <1>1, EndedIs DEF RecordInv
<1>3. \A h \in Handles : alloc'[h] = IF h \in held \cup bound THEN alloc[h] ELSE None
  BY <1>1, SettledIs
<1>4. TypeOK'
  <2>1. alloc' \in [Handles -> Allocations \cup {None}]
    BY <1>1, <1>3 DEF TypeOK, Settled
  <2> QED
    BY <1>1, <1>2, <2>1 DEF TypeOK, arena, owners, graphs
<1>5. SlotsInv'
  BY <1>1, SlotsSame DEF arena
<1>6. LiveInv'
  <2>1. \A h \in held' \cup bound' : h \in Handles /\ alloc'[h] = alloc[h] /\ alloc[h] # None
    BY <1>1, <1>3 DEF LiveInv, TypeOK, owners
  <2> QED
    BY <1>1, <1>3, <2>1 DEF LiveInv, arena
<1>7. RecordInv'
  BY <1>1, <1>2 DEF RecordInv, RecordedPagesKept, arena, graphs
<1>8. PlanInv'
  BY <1>1, EndedPlan
<1>9. BytesInv'
  BY <1>2, <1>3 DEF BytesInv
<1> QED
  BY <1>4, <1>5, <1>6, <1>7, <1>8, <1>9

\* hand_over leads a handle to a current page with what was written in it.
LEMMA HandedOverIs ==
  ASSUME Inv, rel.stage = "landed", NEW h \in Handles
  PROVE  IF h \in Moved(rel)
         THEN /\ alloc[h] # None /\ HandedOver[h] \in Allocations
              /\ slotOf[HandedOver[h].page] = current
              /\ HandedOver[h].pending = 0 /\ HandedOver[h].bytes
         ELSE HandedOver[h] = alloc[h]
<1> USE DEF Inv
<1>1. CASE h \in Moved(rel)
  <2>1. \E m \in rel.moves : m.handle = h
    BY <1>1 DEF Moved
  <2> DEFINE m == CHOOSE m \in rel.moves : m.handle = h
  <2>2. m \in rel.moves /\ m.handle = h
    BY <2>1
  <2>3. HandedOver[h] = [alloc[h] EXCEPT !.page = m.page, !.bytes = m.bytes]
    BY <2>1 DEF HandedOver
  <2> HIDE DEF m
  <2>4. m \in Moves /\ slotOf[m.page] = current
    BY <2>2 DEF TypeOK, Relocations, PlanInv
  <2>5. alloc[h] # None
    BY <1>1, PlannedIs DEF PlanInv
  <2>6. alloc[h] \in Allocations
    BY <2>5 DEF TypeOK
  <2>7. alloc[h].pending = 0 /\ m.bytes = alloc[h].bytes
    BY <2>2, <2>5 DEF BytesInv
  <2>8. alloc[h].bytes
    BY <2>5, <2>7 DEF BytesInv
  <2>9. /\ HandedOver[h] \in Allocations /\ HandedOver[h].page = m.page
        /\ HandedOver[h].bytes = m.bytes /\ HandedOver[h].pending = alloc[h].pending
    BY <2>3, <2>4, <2>6 DEF Allocations, Moves
  <2> QED
    BY <1>1, <2>4, <2>5, <2>7, <2>8, <2>9
<1>2. CASE h \notin Moved(rel)
  BY <1>2 DEF HandedOver, Moved
<1> QED
  BY <1>1, <1>2

LEMMA CommitInv ==
  ASSUME Inv, Commit
  PROVE  Inv'
<1> USE DEF Inv
<1> DEFINE settled == Settled(HandedOver, held \cup bound)
<1>1. /\ rel.stage = "landed" /\ alloc' = settled /\ Drain(settled, outdated)
      /\ rel' = Ended(rel) /\ UNCHANGED <<owners, graphs>>
  BY DEF Commit
<1>2. rel' \in Relocations /\ rel'.stage # "landed" /\ recording = "no"
  BY <1>1, EndedIs DEF RecordInv
<1>3. \A h \in Handles : settled[h] = IF h \in held \cup bound THEN HandedOver[h] ELSE None
  BY SettledIs
<1>4. \A h \in Handles : HandedOver[h] \in Allocations \cup {None}
  BY <1>1, HandedOverIs DEF TypeOK
<1>5. settled \in [Handles -> Allocations \cup {None}]
  BY <1>4 DEF Settled
<1> HIDE DEF settled
<1>6. \A h \in Handles : settled[h] # None => slotOf[settled[h].page] # 0
  <2>1. current # 0
    BY ArenaAssumption DEF TypeOK, Slots
  <2> QED
    BY <1>1, <1>3, <2>1, HandedOverIs DEF LiveInv
<1>7. /\ SlotsInv' /\ current' = current
      /\ pools' \in [Slots -> 0 .. MaxPage] /\ outdated' \subseteq Slots
      /\ slotOf' \in [PageIds -> 0 .. SlotCount]
      /\ \A p \in PageIds : slotOf'[p] # 0 => pools'[slotOf'[p]] # 0
      /\ \A p \in guards : slotOf'[p] = slotOf[p]
      /\ \A h \in Handles : settled[h] # None => slotOf'[settled[h].page] # 0
  <2>1. outdated \in SUBSET Slots
    BY DEF TypeOK
  <2> QED
    BY <1>1, <1>5, <1>6, <2>1, DrainKeeps
<1>8. TypeOK'
  BY <1>1, <1>2, <1>5, <1>7 DEF TypeOK, owners, graphs
<1>9. LiveInv'
  <2>1. \A h \in held \cup bound : h \in Handles /\ alloc[h] # None
    BY DEF LiveInv, TypeOK
  <2>2. \A h \in held \cup bound : settled[h] # None
    BY <1>1, <1>3, <2>1, HandedOverIs, ArenaAssumption
  <2> QED
    BY <1>1, <1>7, <2>2 DEF LiveInv, owners
<1>10. RecordInv'
  BY <1>1, <1>2, <1>7 DEF RecordInv, RecordedPagesKept, graphs
<1>11. PlanInv'
  BY <1>1, EndedPlan
<1>12. BytesInv'
  <2>1. \A h \in Handles : settled[h] # None =>
          IF settled[h].pending = 0 THEN settled[h].bytes ELSE settled[h].pending = settled[h].page
    BY <1>1, <1>3, HandedOverIs DEF BytesInv
  <2> QED
    BY <1>1, <1>2, <2>1 DEF BytesInv
<1> QED
  BY <1>7, <1>8, <1>9, <1>10, <1>11, <1>12

LEMMA CleanupInv ==
  ASSUME Inv, Cleanup
  PROVE  Inv'
<1> USE DEF Inv
<1>1. /\ rel.stage = "cleanup" /\ Drain(alloc, outdated \cup {current}) /\ rel' = Idle
      /\ UNCHANGED <<owners, graphs, alloc>>
  BY DEF Cleanup
<1>2. /\ SlotsInv' /\ current' = current
      /\ pools' \in [Slots -> 0 .. MaxPage] /\ outdated' \subseteq Slots
      /\ slotOf' \in [PageIds -> 0 .. SlotCount]
      /\ \A p \in PageIds : slotOf'[p] # 0 => pools'[slotOf'[p]] # 0
      /\ \A p \in guards : slotOf'[p] = slotOf[p]
      /\ \A h \in Handles : alloc[h] # None => slotOf'[alloc[h].page] # 0
  <2>1. /\ alloc \in [Handles -> Allocations \cup {None}] /\ outdated \cup {current} \in SUBSET Slots
        /\ \A h \in Handles : alloc[h] # None => slotOf[alloc[h].page] # 0
    BY DEF TypeOK, LiveInv
  <2> QED
    BY <1>1, <2>1, DrainKeeps
<1>3. rel' \in Relocations /\ rel'.stage = "idle" /\ recording = "no"
  BY <1>1 DEF Idle, Relocations, RecordInv
<1>4. TypeOK'
  BY <1>1, <1>2, <1>3 DEF TypeOK, owners, graphs
<1>5. LiveInv'
  BY <1>1, <1>2 DEF LiveInv, owners
<1>6. RecordInv'
  BY <1>1, <1>2, <1>3 DEF RecordInv, RecordedPagesKept, graphs
<1>7. PlanInv'
  BY <1>1, IdlePlanPrime
<1>8. BytesInv'
  BY <1>1, <1>3 DEF BytesInv
<1> QED
  BY <1>2, <1>4, <1>5, <1>6, <1>7, <1>8

-----------------------------------------------------------------------------

LEMMA StutterInv ==
  ASSUME Inv, UNCHANGED vars
  PROVE  Inv'
<1> USE DEF Inv
<1>1. /\ UNCHANGED <<pools, current, outdated, slotOf>> /\ UNCHANGED <<guards, recording, touched>>
      /\ UNCHANGED <<held, bound>> /\ UNCHANGED <<alloc, rel>>
  BY DEF vars, arena, owners, graphs
<1>2. SlotsInv'
  BY <1>1, SlotsSame
<1>3. TypeOK' /\ LiveInv' /\ RecordInv' /\ BytesInv'
  BY <1>1 DEF TypeOK, LiveInv, RecordInv, RecordedPagesKept, BytesInv
<1>4. PlanInv'
  <2>1. \A h \in Planned(rel) : alloc'[h] # None
    BY <1>1 DEF PlanInv
  <2> QED
    BY <1>1, <2>1, PlanKept
<1> QED
  BY <1>2, <1>3, <1>4

LEMMA NextInv ==
  ASSUME Inv, Next
  PROVE  Inv'
<1>1. CASE \E h \in Handles : \E size \in SizesOf[h] : ReserveFits(h, size) \/ Grow(h, size)
  BY <1>1, ReserveFitsInv, GrowInv
<1>2. CASE Tick \/ ReserveRefused \/ NextPage \/ (\E h \in Handles : PlanMove(h)) \/ PlanFails
  BY <1>2, TickInv, ReserveRefusedInv, NextPageInv, PlanMoveInv, PlanFailsInv
<1>3. CASE PlanEnds \/ Copy \/ CopyFails \/ Commit \/ Cleanup
  BY <1>3, PlanEndsInv, CopyInv, CopyFailsInv, CommitInv, CleanupInv
<1>4. CASE \E h \in Handles : Drop(h) \/ Resolve(h) \/ Submit(h) \/ Execute(h) \/ Touch(h)
  BY <1>4, DropInv, ResolveInv, SubmitInv, ExecuteInv, TouchInv
<1>5. CASE \E who \in {"self", "other"} : StartRecording(who)
  BY <1>5, StartRecordingInv
<1>6. CASE Seal \/ \E p \in PageIds : DropGuard(p)
  BY <1>6, SealInv, DropGuardInv
<1>7. CASE \E reason \in Reasons : Start(reason)
  BY <1>7, StartInv
<1> QED
  BY <1>1, <1>2, <1>3, <1>4, <1>5, <1>6, <1>7 DEF Next, Server

\* The inductive invariant: what every step of a reservation, an owner, the
\* device, a recording and a relocation preserves.
THEOREM ArenaInductive == Spec => []Inv
<1>1. Inv /\ [Next]_vars => Inv'
  BY NextInv, StutterInv
<1> QED
  BY InitInv, <1>1, PTL DEF Spec

\* What the owner of an allocation wrote is where its handle leads, at every
\* moment between a relocation's plan and its commit, also when it fails.
THEOREM ArenaContents == Spec => []ContentsKept
<1>1. Inv => ContentsKept
  BY DEF Inv, TypeOK, LiveInv, BytesInv, ContentsKept
<1> QED
  BY ArenaInductive, <1>1, PTL

\* Only a commit moves anything.
LEMMA CommitMoves ==
  ASSUME Inv, [Next]_vars, NEW h \in Handles, alloc[h] # None, alloc'[h] # None,
         alloc'[h].page # alloc[h].page
  PROVE  Commit
<1>1. alloc' # alloc
  OBVIOUS
<1>2. \A owning : alloc' # Settled(alloc, owning)
  BY SettledIs
<1>3. ~ \E g \in Handles : Submit(g)
  <2> SUFFICES ASSUME NEW g \in Handles, Submit(g) PROVE FALSE
    OBVIOUS
  <2>1. alloc' = [alloc EXCEPT ![g].bytes = FALSE, ![g].pending = alloc[g].page]
    BY DEF Submit
  <2>2. alloc[h] \in Allocations /\ alloc \in [Handles -> Allocations \cup {None}]
    BY DEF Inv, TypeOK
  <2>3. alloc'[h] = alloc[h] \/ alloc'[h] = [alloc[h] EXCEPT !.bytes = FALSE, !.pending = alloc[h].page]
    BY <2>1, <2>2
  <2> QED
    BY <2>2, <2>3 DEF Allocations
<1>4. ~ \E g \in Handles : Execute(g)
  <2> SUFFICES ASSUME NEW g \in Handles, Execute(g) PROVE FALSE
    OBVIOUS
  <2>1. alloc' = [alloc EXCEPT ![g].pending = 0, ![g].bytes = (alloc[g].page = alloc[g].pending)]
    BY DEF Execute
  <2>2. alloc[h] \in Allocations /\ alloc \in [Handles -> Allocations \cup {None}]
    BY DEF Inv, TypeOK
  <2>3. alloc'[h] = alloc[h]
        \/ alloc'[h] = [alloc[h] EXCEPT !.pending = 0, !.bytes = (alloc[h].page = alloc[h].pending)]
    BY <2>1, <2>2
  <2> QED
    BY <2>2, <2>3 DEF Allocations
<1>5. ~ \E g \in Handles : \E size \in SizesOf[g] : ReserveFits(g, size) \/ Grow(g, size)
  <2> SUFFICES ASSUME NEW g \in Handles, NEW size \in SizesOf[g], ReserveFits(g, size) \/ Grow(g, size)
               PROVE  FALSE
    OBVIOUS
  <2>1. alloc[g] = None /\ \E q : Place(g, size, q)
    BY DEF ReserveFits, Grow
  <2>2. alloc'[h] = alloc[h]
    BY <2>1 DEF Place, Inv, TypeOK
  <2> QED
    BY <2>2
<1>6. ~UNCHANGED vars
  BY <1>1 DEF vars
<1>7. ~Tick /\ ~ReserveRefused /\ ~NextPage /\ ~PlanEnds /\ ~Copy /\ ~Cleanup /\ ~Seal
  BY <1>1 DEF Tick, ReserveRefused, NextPage, PlanEnds, Copy, Cleanup, Seal
<1>8. ~PlanFails /\ ~CopyFails
  BY <1>2 DEF PlanFails, CopyFails
<1>9. ~ \E g \in Handles : Drop(g) \/ Resolve(g) \/ Touch(g) \/ PlanMove(g)
  BY <1>1, <1>2 DEF Drop, Resolve, Touch, PlanMove
<1>10. /\ ~ \E who \in {"self", "other"} : StartRecording(who)
       /\ ~ \E p \in PageIds : DropGuard(p)
       /\ ~ \E reason \in Reasons : Start(reason)
  BY <1>1 DEF StartRecording, DropGuard, Start
<1> QED
  BY <1>3, <1>4, <1>5, <1>6, <1>7, <1>8, <1>9, <1>10 DEF Next, Server

\* What a commit moves was planned, off an outdated page nobody pins.
LEMMA MovedIsPlanned ==
  ASSUME Inv, Commit, NEW h \in Handles, alloc[h] # None, alloc'[h] # None,
         alloc'[h].page # alloc[h].page
  PROVE  /\ h \in Moved(rel) /\ h \notin bound
         /\ alloc[h].page \notin guards \cup touched /\ slotOf[alloc[h].page] \in outdated
<1>1. rel.stage = "landed" /\ alloc' = Settled(HandedOver, held \cup bound)
  BY DEF Commit
<1>2. alloc'[h] = HandedOver[h]
  BY <1>1, SettledIs
<1>3. h \in Moved(rel)
  BY <1>1, <1>2, HandedOverIs
<1>4. h \in Planned(rel)
  BY <1>3, PlannedIs
<1>5. touched = {}
  BY <1>1 DEF Inv, RecordInv
<1> QED
  BY <1>3, <1>4, <1>5 DEF Inv, PlanInv

\* No step of the arena moves an allocation somebody holds the address of, or
\* one on a page a graph or a recording uses.
THEOREM ArenaPinned == Spec => PinnedStays
<1>1. ASSUME Inv, [Next]_vars
      PROVE  [\A h \in Handles :
                alloc[h] # None /\ alloc'[h] # None
                  /\ (h \in bound \cap bound' \/ alloc[h].page \in guards \cup touched)
                => alloc'[h].page = alloc[h].page]_vars
  BY <1>1, CommitMoves, MovedIsPlanned
<1> QED
  BY ArenaInductive, <1>1, PTL DEF Spec, PinnedStays

\* A page anything moves off is given back in the same step.
THEOREM ArenaWholePages == Spec => WholePagesMove
<1>1. ASSUME Inv, [Next]_vars, NEW h \in Handles, alloc[h] # None, alloc'[h] # None,
             alloc'[h].page # alloc[h].page
      PROVE  slotOf'[alloc[h].page] = 0
  <2> DEFINE settled == Settled(HandedOver, held \cup bound)
             p == alloc[h].page
  <2>1. Commit
    BY <1>1, CommitMoves
  <2>2. rel.stage = "landed" /\ Drain(settled, outdated)
    BY <2>1 DEF Commit
  <2>3. /\ h \in Moved(rel) /\ p \notin guards /\ slotOf[p] \in outdated
        /\ p \in PageIds
    BY <1>1, <2>1, MovedIsPlanned DEF Inv, TypeOK, Allocations
  <2>4. LiveOn(p, alloc) \subseteq Moved(rel)
    <3>1. PICK m \in rel.moves : m.handle = h
      BY <2>3 DEF Moved
    <3>2. rel.left = {}
      BY <1>1, <2>2 DEF Inv, PlanInv
    <3> QED
      BY <1>1, <3>1, <3>2 DEF Inv, PlanInv
  <2>5. LiveOn(p, settled) = {}
    <3> SUFFICES ASSUME NEW g \in Handles, settled[g] # None, settled[g].page = p PROVE FALSE
      BY DEF LiveOn
    <3>1. settled[g] = HandedOver[g]
      BY SettledIs
    <3>2. slotOf[p] # current
      BY <1>1, <2>3 DEF Inv, SlotsInv
    <3>3. g \notin Moved(rel)
      BY <1>1, <2>2, <3>1, <3>2, HandedOverIs
    <3>4. HandedOver[g] = alloc[g]
      BY <1>1, <2>2, <3>3, HandedOverIs
    <3> QED
      BY <2>4, <3>1, <3>3, <3>4 DEF LiveOn
  <2> HIDE DEF settled, p
  <2>6. p \in Released(settled, outdated)
    BY <2>3, <2>5 DEF Released, PagesOf
  <2>7. slotOf'[p] = 0
    BY <2>2, <2>3, <2>6 DEF Drain
  <2> QED
    BY <2>7 DEF p
<1>2. ASSUME Inv, [Next]_vars
      PROVE  [\A h \in Handles :
                alloc[h] # None /\ alloc'[h] # None /\ alloc'[h].page # alloc[h].page
                => slotOf'[alloc[h].page] = 0]_vars
  BY <1>1, <1>2
<1> QED
  BY ArenaInductive, <1>2, PTL DEF Spec, WholePagesMove
-----------------------------------------------------------------------------
(* No page is carved beyond its size *)

\* What is carved out of a page, finite and within the size of its pool.
HasRoom(p) ==
  /\ IsFiniteSet(Carved(p, alloc, rel.moves))
  /\ Cardinality(Carved(p, alloc, rel.moves)) <= pools[slotOf[p]]

RoomInv == \A p \in PageIds : slotOf[p] # 0 => HasRoom(p)

\* A slice takes as many units as its size.
LEMMA UnitsCount ==
  ASSUME NEW h, NEW kind, NEW size \in Nat
  PROVE  IsFiniteSet(UnitsOf(h, kind, size)) /\ Cardinality(UnitsOf(h, kind, size)) = size
<1> DEFINE f == [u \in 1 .. size |-> <<h, kind, u>>]
           T == UnitsOf(h, kind, size)
<1>1. IsFiniteSet(1 .. size) /\ Cardinality(1 .. size) = size
  BY FS_Interval
<1>2. f \in Bijection(1 .. size, T)
  <2>1. f \in [1 .. size -> T]
    BY DEF UnitsOf
  <2>2. \A u, v \in 1 .. size : f[u] = f[v] => u = v
    OBVIOUS
  <2>3. \A t \in T : \E u \in 1 .. size : f[u] = t
    BY DEF UnitsOf
  <2> QED
    BY <2>1, <2>2, <2>3 DEF Bijection, Injection, Surjection, IsInjective
<1>3. ExistsBijection(1 .. size, T)
  BY <1>2 DEF ExistsBijection
<1> QED
  BY <1>1, <1>3, FS_Bijection

LEMMA CarvedIs ==
  ASSUME NEW p, NEW as, NEW ms, NEW t
  PROVE  t \in Carved(p, as, ms) <=>
           \/ \E h \in LiveOn(p, as) : t \in UnitsOf(h, "slice", as[h].size)
           \/ \E m \in ms : m.page = p /\ t \in UnitsOf(m.handle, "target", as[m.handle].size)
BY DEF Carved

\* Fewer allocations and fewer targets take no more.
LEMMA CarvedShrinks ==
  ASSUME NEW p, NEW as, NEW bs, NEW ms, NEW ns,
         \A h \in Handles : bs[h] # None =>
           as[h] # None /\ bs[h].page = as[h].page /\ bs[h].size = as[h].size,
         \A n \in ns : \E m \in ms :
           m.handle = n.handle /\ m.page = n.page /\ bs[n.handle].size = as[n.handle].size
  PROVE  Carved(p, bs, ns) \subseteq Carved(p, as, ms)
<1> SUFFICES ASSUME NEW t \in Carved(p, bs, ns) PROVE t \in Carved(p, as, ms)
  OBVIOUS
<1>1. CASE \E h \in LiveOn(p, bs) : t \in UnitsOf(h, "slice", bs[h].size)
  <2>1. PICK h \in LiveOn(p, bs) : t \in UnitsOf(h, "slice", bs[h].size)
    BY <1>1
  <2>2. h \in LiveOn(p, as) /\ bs[h].size = as[h].size
    BY DEF LiveOn
  <2> QED
    BY <2>1, <2>2, CarvedIs
<1>2. CASE \E n \in ns : n.page = p /\ t \in UnitsOf(n.handle, "target", bs[n.handle].size)
  <2>1. PICK n \in ns : n.page = p /\ t \in UnitsOf(n.handle, "target", bs[n.handle].size)
    BY <1>2
  <2>2. PICK m \in ms : m.handle = n.handle /\ m.page = n.page /\ bs[n.handle].size = as[n.handle].size
    OBVIOUS
  <2>3. t \in UnitsOf(m.handle, "target", as[m.handle].size)
    BY <2>1, <2>2
  <2> QED
    BY <2>1, <2>2, <2>3, CarvedIs
<1> QED
  BY <1>1, <1>2, CarvedIs

\* A page the device has back has nothing on it.
LEMMA FreshEmpty ==
  ASSUME Inv, NEW p \in PageIds, slotOf[p] = 0
  PROVE  Carved(p, alloc, rel.moves) = {}
<1>1. LiveOn(p, alloc) = {}
  BY DEF Inv, LiveInv, LiveOn
<1>2. \A m \in rel.moves : m.page # p
  BY ArenaAssumption DEF Inv, PlanInv, TypeOK, Slots
<1> QED
  BY <1>1, <1>2, CarvedIs

LEMMA PoolsNat ==
  ASSUME TypeOK, NEW p \in PageIds, slotOf[p] # 0
  PROVE  slotOf[p] \in Slots /\ pools[slotOf[p]] \in Nat
BY ArenaAssumption DEF TypeOK, Slots

\* What is no more than before still fits.
LEMMA PageKept ==
  ASSUME Inv, RoomInv, NEW p \in PageIds, slotOf[p] # 0, NEW T \in SUBSET Carved(p, alloc, rel.moves)
  PROVE  IsFiniteSet(T) /\ Cardinality(T) <= pools[slotOf[p]]
<1>1. HasRoom(p)
  BY DEF RoomInv
<1>2. /\ IsFiniteSet(T) /\ Cardinality(T) <= Cardinality(Carved(p, alloc, rel.moves))
      /\ Cardinality(T) \in Nat /\ Cardinality(Carved(p, alloc, rel.moves)) \in Nat
  BY <1>1, FS_Subset, FS_CardinalityType DEF HasRoom
<1>3. pools[slotOf[p]] \in Nat
  BY PoolsNat DEF Inv
<1> QED
  BY <1>1, <1>2, <1>3 DEF HasRoom

\* Steps that carve nothing, on pages that keep their pools.
LEMMA RoomKept ==
  ASSUME Inv, Inv', RoomInv,
         \A h \in Handles : alloc'[h] # None =>
           alloc[h] # None /\ alloc'[h].page = alloc[h].page /\ alloc'[h].size = alloc[h].size,
         \A n \in rel'.moves : \E m \in rel.moves : m.handle = n.handle /\ m.page = n.page,
         \A p \in PageIds : slotOf'[p] # 0 =>
           slotOf'[p] = slotOf[p] /\ pools'[slotOf[p]] = pools[slotOf[p]]
  PROVE  RoomInv'
<1>1. \A n \in rel'.moves : n.handle \in Handles /\ alloc'[n.handle] # None
  <2>1. \A n \in rel'.moves : n.handle \in Planned(rel')
    BY PlannedIs DEF Moved
  <2> QED
    BY <2>1 DEF Inv, TypeOK, Relocations, Moves, PlanInv
<1>2. \A n \in rel'.moves : \E m \in rel.moves :
        m.handle = n.handle /\ m.page = n.page /\ alloc'[n.handle].size = alloc[n.handle].size
  BY <1>1
<1> SUFFICES ASSUME NEW p \in PageIds, slotOf'[p] # 0
             PROVE  HasRoom(p)'
  BY DEF RoomInv
<1>3. Carved(p, alloc', rel'.moves) \subseteq Carved(p, alloc, rel.moves)
  BY <1>2, CarvedShrinks
<1>4. slotOf'[p] = slotOf[p] /\ slotOf[p] # 0 /\ pools'[slotOf'[p]] = pools[slotOf[p]]
  OBVIOUS
<1> QED
  BY <1>3, <1>4, PageKept DEF HasRoom

LEMMA DrainRoom ==
  ASSUME Inv, Inv', NEW allocs, NEW from, Drain(allocs, from), NEW p \in PageIds, slotOf'[p] # 0
  PROVE  slotOf'[p] = slotOf[p] /\ pools'[slotOf[p]] = pools[slotOf[p]]
<1>1. slotOf'[p] = slotOf[p]
  BY DEF Drain
<1>2. slotOf[p] \in Slots
  BY <1>1, PoolsNat DEF Inv
<1>3. pools'[slotOf[p]] # 0
  BY <1>1 DEF Inv, LiveInv
<1>4. pools'[slotOf[p]] = 0 \/ pools'[slotOf[p]] = pools[slotOf[p]]
  BY <1>2 DEF Drain
<1> QED
  BY <1>1, <1>3, <1>4

\* A slice of `size` more on page p, nothing more on any other.
LEMMA CarveRoom ==
  ASSUME Inv, Inv', RoomInv, NEW p \in PageIds, NEW T, NEW size \in Nat,
         IsFiniteSet(T), Cardinality(T) = size,
         Carved(p, alloc', rel'.moves) \subseteq Carved(p, alloc, rel.moves) \cup T,
         IsFiniteSet(Carved(p, alloc, rel.moves)),
         Cardinality(Carved(p, alloc, rel.moves)) + size <= pools'[slotOf'[p]],
         slotOf'[p] # 0,
         \A q \in PageIds \ {p} : slotOf'[q] # 0 =>
           /\ slotOf'[q] = slotOf[q] /\ pools'[slotOf[q]] = pools[slotOf[q]]
           /\ Carved(q, alloc', rel'.moves) \subseteq Carved(q, alloc, rel.moves)
  PROVE  RoomInv'
<1>1. ASSUME NEW q \in PageIds, q # p, slotOf'[q] # 0
      PROVE  HasRoom(q)'
  BY <1>1, PageKept DEF HasRoom
<1>2. HasRoom(p)'
  <2> DEFINE C == Carved(p, alloc, rel.moves)
             D == Carved(p, alloc', rel'.moves)
  <2>1. /\ IsFiniteSet(C \cup T)
        /\ Cardinality(C \cup T) = Cardinality(C) + Cardinality(T) - Cardinality(C \cap T)
    BY FS_Union
  <2>2. IsFiniteSet(C \cap T)
    BY FS_Subset
  <2>3. IsFiniteSet(D) /\ Cardinality(D) <= Cardinality(C \cup T)
    BY <2>1, FS_Subset
  <2>4. /\ Cardinality(C) \in Nat /\ Cardinality(C \cap T) \in Nat
        /\ Cardinality(D) \in Nat /\ Cardinality(C \cup T) \in Nat
    BY <2>1, <2>2, <2>3, FS_CardinalityType
  <2>5. pools'[slotOf'[p]] \in Nat
    BY ArenaAssumption DEF Inv, TypeOK, Slots
  <2>6. Cardinality(C) + size <= pools'[slotOf'[p]]
    OBVIOUS
  <2> HIDE DEF C, D
  <2>7. Cardinality(D) <= pools'[slotOf'[p]]
    BY <2>1, <2>3, <2>4, <2>5, <2>6
  <2> QED
    BY <2>3, <2>7 DEF HasRoom, D
<1> QED
  BY <1>1, <1>2 DEF RoomInv

\* A reservation carves its slice out of what the page has left.
LEMMA PlaceRoom ==
  ASSUME Inv, Inv', RoomInv, MayReserve, NEW g \in Handles, NEW size \in Nat,
         NEW p \in PageIds, alloc[g] = None, Place(g, size, p),
         IsFiniteSet(Carved(p, alloc, rel.moves)),
         Cardinality(Carved(p, alloc, rel.moves)) + size <= pools'[slotOf'[p]],
         slotOf'[p] # 0,
         \A q \in PageIds \ {p} : slotOf'[q] # 0 =>
           slotOf'[q] = slotOf[q] /\ pools'[slotOf[q]] = pools[slotOf[q]]
  PROVE  RoomInv'
<1> DEFINE new == [page |-> p, size |-> size, bytes |-> TRUE, pending |-> 0]
<1>1. alloc'[g] = new /\ \A h \in Handles \ {g} : alloc'[h] = alloc[h]
  BY DEF Place, Inv, TypeOK
<1>2. rel'.moves = {}
  BY DEF Place, Idle
<1>3. new.page = p /\ new.size = size
  OBVIOUS
<1> HIDE DEF new
<1>4. \A q : \A t \in Carved(q, alloc', rel'.moves) :
        t \in Carved(q, alloc, rel.moves) \/ (q = p /\ t \in UnitsOf(g, "slice", size))
  <2> SUFFICES ASSUME NEW q, NEW t \in Carved(q, alloc', rel'.moves)
               PROVE  t \in Carved(q, alloc, rel.moves) \/ (q = p /\ t \in UnitsOf(g, "slice", size))
    OBVIOUS
  <2>1. PICK h \in LiveOn(q, alloc') : t \in UnitsOf(h, "slice", alloc'[h].size)
    BY <1>2, CarvedIs
  <2>2. CASE h = g
    BY <2>1, <2>2, <1>1, <1>3 DEF LiveOn
  <2>3. CASE h # g
    <3>1. h \in LiveOn(q, alloc) /\ alloc'[h].size = alloc[h].size
      BY <1>1, <2>3 DEF LiveOn
    <3> QED
      BY <2>1, <3>1, CarvedIs
  <2> QED
    BY <2>2, <2>3
<1>5. Carved(p, alloc', rel'.moves) \subseteq Carved(p, alloc, rel.moves) \cup UnitsOf(g, "slice", size)
  BY <1>4
<1>6. \A q \in PageIds \ {p} : Carved(q, alloc', rel'.moves) \subseteq Carved(q, alloc, rel.moves)
  BY <1>4
<1> QED
  BY <1>5, <1>6, UnitsCount, CarveRoom

LEMMA ReserveFitsRoom ==
  ASSUME Inv, Inv', RoomInv, NEW g \in Handles, NEW size \in SizesOf[g], ReserveFits(g, size)
  PROVE  RoomInv'
<1>1. size \in Nat /\ alloc[g] = None /\ MayReserve /\ size <= pools[current]
  BY ArenaAssumption DEF ReserveFits
<1>t. slotOf \in [PageIds -> 0 .. SlotCount] /\ current # 0
  BY ArenaAssumption DEF Inv, TypeOK, Slots
<1>2. CASE \E p \in Room(size) : Place(g, size, p) /\ UNCHANGED arena
  <2>1. PICK p \in Room(size) : Place(g, size, p) /\ UNCHANGED arena
    BY <1>2
  <2>2. p \in PageIds /\ slotOf[p] = current /\ Units(p) + size <= pools[current]
    BY DEF Room, PagesOf
  <2>3. IsFiniteSet(Carved(p, alloc, rel.moves))
    BY <1>t, <2>2 DEF RoomInv, HasRoom
  <2> QED
    BY <1>1, <1>t, <2>1, <2>2, <2>3, PlaceRoom DEF arena, Units
<1>3. CASE /\ \E p \in NewPage : Place(g, size, p) /\ slotOf' = [slotOf EXCEPT ![p] = current]
           /\ UNCHANGED <<pools, current, outdated>>
  <2>1. PICK p \in NewPage : Place(g, size, p) /\ slotOf' = [slotOf EXCEPT ![p] = current]
    BY <1>3
  <2>2. p \in PageIds /\ slotOf[p] = 0
    BY DEF NewPage
  <2>3. Carved(p, alloc, rel.moves) = {}
    BY <2>2, FreshEmpty
  <2>4. slotOf'[p] = current /\ \A q \in PageIds \ {p} : slotOf'[q] = slotOf[q]
    BY <1>t, <2>1, <2>2
  <2>5. IsFiniteSet(Carved(p, alloc, rel.moves)) /\ Cardinality(Carved(p, alloc, rel.moves)) = 0
    BY <2>3, FS_EmptySet
  <2>6. Cardinality(Carved(p, alloc, rel.moves)) + size <= pools'[slotOf'[p]] /\ slotOf'[p] # 0
    BY <1>1, <1>3, <1>t, <2>4, <2>5
  <2> QED
    BY <1>1, <1>3, <2>1, <2>2, <2>4, <2>5, <2>6, PlaceRoom
<1> QED
  BY <1>2, <1>3 DEF ReserveFits

LEMMA GrowRoom ==
  ASSUME Inv, Inv', RoomInv, NEW g \in Handles, NEW size \in SizesOf[g], Grow(g, size)
  PROVE  RoomInv'
<1>1. size \in Nat /\ alloc[g] = None /\ MayReserve /\ size <= MaxPage
  BY ArenaAssumption DEF Grow
<1>2. PICK s \in FreeSlots, p \in PageIds :
        /\ slotOf[p] = 0 /\ Place(g, size, p)
        /\ slotOf' = [slotOf EXCEPT ![p] = s]
        /\ pools' = [pools EXCEPT ![s] = GrownSize(size)]
  BY DEF Grow
<1>3. s \in Slots /\ s # 0 /\ pools[s] = 0
  BY DEF FreeSlots, Slots
<1>t. pools \in [Slots -> 0 .. MaxPage] /\ slotOf \in [PageIds -> 0 .. SlotCount]
  BY DEF Inv, TypeOK
<1>4. size <= GrownSize(size)
  BY <1>1, ArenaAssumption DEF GrownSize
<1>5. /\ slotOf'[p] = s /\ pools'[s] = GrownSize(size)
      /\ \A q \in PageIds \ {p} : slotOf'[q] = slotOf[q]
  BY <1>2, <1>3, <1>t
<1>6. \A q \in PageIds \ {p} : slotOf'[q] # 0 => pools'[slotOf[q]] = pools[slotOf[q]]
  <2> SUFFICES ASSUME NEW q \in PageIds \ {p}, slotOf[q] # 0
               PROVE  pools'[slotOf[q]] = pools[slotOf[q]]
    BY <1>5
  <2>1. slotOf[q] # s
    BY <1>3 DEF Inv, LiveInv
  <2>2. slotOf[q] \in Slots
    BY PoolsNat DEF Inv
  <2> QED
    BY <1>2, <1>t, <2>1, <2>2
<1>7. Carved(p, alloc, rel.moves) = {}
  BY <1>2, FreshEmpty
<1>8. IsFiniteSet({}) /\ Cardinality({}) = 0
  BY FS_EmptySet
<1>9. IsFiniteSet(Carved(p, alloc, rel.moves)) /\ Cardinality(Carved(p, alloc, rel.moves)) = 0
  BY <1>7, <1>8
<1>10. Cardinality(Carved(p, alloc, rel.moves)) + size <= pools'[slotOf'[p]] /\ slotOf'[p] # 0
  BY <1>1, <1>3, <1>4, <1>5, <1>9
<1>11. Place(g, size, p)
  BY <1>2
<1> QED
  BY <1>1, <1>5, <1>6, <1>9, <1>10, <1>11, PlaceRoom

\* An allocation fits the outdated page it is on, so it fits a current one.
LEMMA FitsCurrent ==
  ASSUME Inv, RoomInv, NEW g \in Planned(rel)
  PROVE  alloc[g].size \in Nat /\ alloc[g].size <= pools[current]
<1>1. g \in Handles /\ alloc[g] # None /\ slotOf[alloc[g].page] \in outdated
  BY PlannedIs DEF Inv, PlanInv, TypeOK, Relocations, Moves, Moved
<1>2. alloc[g].page \in PageIds /\ alloc[g].size \in Nat
  BY <1>1 DEF Inv, TypeOK, Allocations
<1> DEFINE p == alloc[g].page
<1>3. slotOf[p] # 0 /\ pools[slotOf[p]] < pools[current] /\ pools[slotOf[p]] \in Nat /\ pools[current] \in Nat
  BY <1>1, <1>2 DEF Inv, TypeOK, SlotsInv, LiveInv
<1>4. UnitsOf(g, "slice", alloc[g].size) \subseteq Carved(p, alloc, rel.moves)
  <2>1. g \in LiveOn(p, alloc)
    BY <1>1 DEF LiveOn
  <2> QED
    BY <2>1, CarvedIs
<1>5. Cardinality(UnitsOf(g, "slice", alloc[g].size)) <= pools[slotOf[p]]
  BY <1>2, <1>3, <1>4, PageKept
<1>6. alloc[g].size <= pools[slotOf[p]]
  BY <1>2, <1>5, UnitsCount
<1> QED
  BY <1>2, <1>3, <1>6

LEMMA PlanMoveRoom ==
  ASSUME Inv, Inv', RoomInv, NEW g \in Handles, PlanMove(g)
  PROVE  RoomInv'
<1>1. g \in Planned(rel) /\ UNCHANGED <<pools, current, alloc>>
  BY PlannedIs DEF PlanMove
<1> DEFINE size == alloc[g].size
<1>2. PICK p \in Room(size) \cup NewPage :
        /\ rel' = [rel EXCEPT !.left = rel.left \ {g},
                              !.moves = rel.moves \cup {[handle |-> g, page |-> p, bytes |-> FALSE]}]
        /\ slotOf' = [slotOf EXCEPT ![p] = current]
  BY DEF PlanMove
<1>t. /\ slotOf \in [PageIds -> 0 .. SlotCount] /\ current # 0 /\ rel \in Relocations
      /\ size \in Nat /\ size <= pools[current]
  BY <1>1, ArenaAssumption, FitsCurrent DEF Inv, TypeOK, Slots
<1>3. rel'.moves = rel.moves \cup {[handle |-> g, page |-> p, bytes |-> FALSE]}
  BY <1>2, <1>t DEF Relocations
<1>4. p \in PageIds
  BY DEF Room, PagesOf, NewPage
<1>5. slotOf'[p] = current /\ \A q \in PageIds \ {p} : slotOf'[q] = slotOf[q]
  BY <1>2, <1>4, <1>t
<1>6. /\ IsFiniteSet(Carved(p, alloc, rel.moves))
      /\ Cardinality(Carved(p, alloc, rel.moves)) + size <= pools[current]
  <2>1. CASE p \in Room(size)
    <3>1. slotOf[p] = current /\ Units(p) + size <= pools[current]
      BY <2>1 DEF Room, PagesOf
    <3> QED
      BY <1>4, <1>t, <3>1 DEF RoomInv, HasRoom, Units
  <2>2. CASE p \in NewPage
    <3>1. slotOf[p] = 0
      BY <2>2 DEF NewPage
    <3> QED
      BY <1>4, <1>t, <3>1, FreshEmpty, FS_EmptySet
  <2> QED
    BY <2>1, <2>2
<1> HIDE DEF size
<1>7. \A q : \A t \in Carved(q, alloc, rel'.moves) :
        t \in Carved(q, alloc, rel.moves) \/ (q = p /\ t \in UnitsOf(g, "target", size))
  <2> SUFFICES ASSUME NEW q, NEW t \in Carved(q, alloc, rel'.moves)
               PROVE  t \in Carved(q, alloc, rel.moves) \/ (q = p /\ t \in UnitsOf(g, "target", size))
    OBVIOUS
  <2>1. CASE \E h \in LiveOn(q, alloc) : t \in UnitsOf(h, "slice", alloc[h].size)
    BY <2>1, CarvedIs
  <2>2. CASE \E m \in rel'.moves : m.page = q /\ t \in UnitsOf(m.handle, "target", alloc[m.handle].size)
    <3>1. PICK m \in rel'.moves : m.page = q /\ t \in UnitsOf(m.handle, "target", alloc[m.handle].size)
      BY <2>2
    <3>2. CASE m \in rel.moves
      BY <3>1, <3>2, CarvedIs
    <3>3. CASE m = [handle |-> g, page |-> p, bytes |-> FALSE]
      BY <3>1, <3>3 DEF size
    <3> QED
      BY <1>3, <3>2, <3>3
  <2> QED
    BY <2>1, <2>2, CarvedIs
<1>8. Carved(p, alloc', rel'.moves) \subseteq Carved(p, alloc, rel.moves) \cup UnitsOf(g, "target", size)
  BY <1>1, <1>7
<1>9. \A q \in PageIds \ {p} : Carved(q, alloc', rel'.moves) \subseteq Carved(q, alloc, rel.moves)
  BY <1>1, <1>7
<1> QED
  BY <1>1, <1>4, <1>5, <1>6, <1>8, <1>9, <1>t, UnitsCount, CarveRoom

\* hand_over turns the target of a move into the slice of its handle.
LEMMA HandedOverCarves ==
  ASSUME Inv, NEW h \in Handles, alloc[h] # None
  PROVE  IF h \in Moved(rel)
         THEN /\ HandedOver[h].size = alloc[h].size
              /\ \E m \in rel.moves : m.handle = h /\ m.page = HandedOver[h].page
         ELSE HandedOver[h] = alloc[h]
<1>1. CASE h \in Moved(rel)
  <2>1. \E m \in rel.moves : m.handle = h
    BY <1>1 DEF Moved
  <2> DEFINE m == CHOOSE m \in rel.moves : m.handle = h
  <2>2. m \in rel.moves /\ m.handle = h
    BY <2>1
  <2>3. HandedOver[h] = [alloc[h] EXCEPT !.page = m.page, !.bytes = m.bytes]
    BY <2>1 DEF HandedOver
  <2> HIDE DEF m
  <2>4. alloc[h] \in Allocations
    BY DEF Inv, TypeOK
  <2>5. HandedOver[h].page = m.page /\ HandedOver[h].size = alloc[h].size
    BY <2>3, <2>4 DEF Allocations
  <2> QED
    BY <1>1, <2>2, <2>5
<1>2. CASE h \notin Moved(rel)
  BY <1>2 DEF HandedOver, Moved
<1> QED
  BY <1>1, <1>2

LEMMA CommitRoom ==
  ASSUME Inv, Inv', RoomInv, Commit
  PROVE  RoomInv'
<1>1. /\ alloc' = Settled(HandedOver, held \cup bound) /\ rel' = Ended(rel)
      /\ \E allocs, from : Drain(allocs, from)
  BY DEF Commit
<1>2. rel'.moves = {}
  BY <1>1, EndedIs
<1>3. \A h \in Handles : alloc'[h] # None => alloc[h] # None /\ alloc'[h] = HandedOver[h]
  <2>1. \A h \in Handles : alloc'[h] = IF h \in held \cup bound THEN HandedOver[h] ELSE None
    BY <1>1, SettledIs
  <2>2. \A h \in held \cup bound : alloc[h] # None
    BY DEF Inv, LiveInv
  <2> QED
    BY <2>1, <2>2
<1> SUFFICES ASSUME NEW p \in PageIds, slotOf'[p] # 0
             PROVE  HasRoom(p)'
  BY DEF RoomInv
<1>4. slotOf'[p] = slotOf[p] /\ slotOf[p] # 0 /\ pools'[slotOf'[p]] = pools[slotOf[p]]
  BY <1>1, DrainRoom
<1> DEFINE C == Carved(p, alloc, rel.moves)
           D == Carved(p, alloc', rel'.moves)
           f == [t \in D |-> <<t[1], IF t[1] \in Moved(rel) THEN "target" ELSE "slice", t[3]>>]
<1>5. \A t \in D : \E h \in LiveOn(p, alloc') : t \in UnitsOf(h, "slice", alloc'[h].size)
  BY <1>2, CarvedIs
<1>6. \A t \in D : t = <<t[1], "slice", t[3]>>
  BY <1>5 DEF UnitsOf
<1>7. \A t \in D : f[t] \in C
  <2> SUFFICES ASSUME NEW t \in D PROVE f[t] \in C
    OBVIOUS
  <2>1. PICK h \in LiveOn(p, alloc') : t \in UnitsOf(h, "slice", alloc'[h].size)
    BY <1>5
  <2>2. PICK u \in 1 .. alloc'[h].size : t = <<h, "slice", u>>
    BY <2>1 DEF UnitsOf
  <2>3. h \in Handles /\ alloc[h] # None /\ alloc'[h] = HandedOver[h] /\ HandedOver[h].page = p
    BY <1>3 DEF LiveOn
  <2>4. f[t] = <<h, IF h \in Moved(rel) THEN "target" ELSE "slice", u>>
    BY <2>2
  <2>5. CASE h \in Moved(rel)
    <3>1. PICK m \in rel.moves : m.handle = h /\ m.page = p
      BY <2>3, <2>5, HandedOverCarves
    <3>2. u \in 1 .. alloc[h].size
      BY <2>2, <2>3, <2>5, HandedOverCarves
    <3>3. f[t] \in UnitsOf(m.handle, "target", alloc[m.handle].size)
      BY <2>4, <2>5, <3>1, <3>2 DEF UnitsOf
    <3> QED
      BY <3>1, <3>3, CarvedIs
  <2>6. CASE h \notin Moved(rel)
    <3>1. HandedOver[h] = alloc[h]
      BY <2>3, <2>6, HandedOverCarves
    <3>2. h \in LiveOn(p, alloc) /\ u \in 1 .. alloc[h].size
      BY <2>2, <2>3, <3>1 DEF LiveOn
    <3>3. f[t] \in UnitsOf(h, "slice", alloc[h].size)
      BY <2>4, <2>6, <3>2 DEF UnitsOf
    <3> QED
      BY <3>2, <3>3, CarvedIs
  <2> QED
    BY <2>5, <2>6
<1>8. \A t, v \in D : f[t] = f[v] => t = v
  <2> SUFFICES ASSUME NEW t \in D, NEW v \in D, f[t] = f[v] PROVE t = v
    OBVIOUS
  <2>1. t[1] = v[1] /\ t[3] = v[3]
    OBVIOUS
  <2> QED
    BY <1>6, <2>1
<1>9. f \in Injection(D, C)
  <2>1. f \in [D -> C]
    BY <1>7
  <2> QED
    BY <1>8, <2>1 DEF Injection, IsInjective
<1> HIDE DEF C, D, f
<1>10. IsFiniteSet(C) /\ Cardinality(C) <= pools[slotOf[p]]
  BY <1>4 DEF RoomInv, HasRoom, C
<1>11. IsFiniteSet(D) /\ Cardinality(D) <= Cardinality(C)
  BY <1>9, <1>10, FS_Injection
<1>12. Cardinality(D) \in Nat /\ Cardinality(C) \in Nat /\ pools[slotOf[p]] \in Nat
  BY <1>4, <1>10, <1>11, FS_CardinalityType, PoolsNat DEF Inv
<1>13. Cardinality(D) <= pools[slotOf[p]]
  BY <1>10, <1>11, <1>12
<1> QED
  BY <1>4, <1>11, <1>13 DEF HasRoom, D

\* Steps that leave the pages alone, and carve nothing out of them.
LEMMA SamePagesRoom ==
  ASSUME Inv, Inv', RoomInv, UNCHANGED arena,
         \A h \in Handles : alloc'[h] # None =>
           alloc[h] # None /\ alloc'[h].page = alloc[h].page /\ alloc'[h].size = alloc[h].size,
         \A n \in rel'.moves : \E m \in rel.moves : m.handle = n.handle /\ m.page = n.page
  PROVE  RoomInv'
<1>1. slotOf' = slotOf /\ pools' = pools
  BY DEF arena
<1> QED
  BY <1>1, RoomKept

LEMMA SettledRoom ==
  ASSUME Inv, Inv', RoomInv, UNCHANGED arena, NEW owning, alloc' = Settled(alloc, owning),
         rel'.moves \subseteq rel.moves
  PROVE  RoomInv'
<1>1. \A h \in Handles : alloc'[h] # None => alloc'[h] = alloc[h]
  BY SettledIs
<1> QED
  BY <1>1, SamePagesRoom

LEMMA DrainedRoom ==
  ASSUME Inv, Inv', RoomInv, NEW from, Drain(alloc, from), UNCHANGED alloc, rel'.moves = {}
  PROVE  RoomInv'
<1>1. \A p \in PageIds : slotOf'[p] # 0 =>
        slotOf'[p] = slotOf[p] /\ pools'[slotOf[p]] = pools[slotOf[p]]
  BY DrainRoom
<1> QED
  BY <1>1, RoomKept

\* The device and its queue change what is in an allocation, not where it is.
LEMMA WorkRoom ==
  ASSUME Inv, Inv', RoomInv, NEW g \in Handles, Submit(g) \/ Execute(g)
  PROVE  RoomInv'
<1>1. UNCHANGED <<arena, rel>> /\ alloc[g] # None
  BY DEF Submit, Execute, Inv, LiveInv
<1>2. alloc[g] \in Allocations
  BY <1>1 DEF Inv, TypeOK
<1>3. /\ alloc'[g].page = alloc[g].page /\ alloc'[g].size = alloc[g].size
      /\ \A h \in Handles \ {g} : alloc'[h] = alloc[h]
  BY <1>2 DEF Submit, Execute, Inv, TypeOK, Allocations
<1> QED
  BY <1>1, <1>3, SamePagesRoom

LEMMA CopyRoom ==
  ASSUME Inv, Inv', RoomInv, Copy
  PROVE  RoomInv'
<1>1. /\ UNCHANGED <<arena, alloc>>
      /\ rel' = [rel EXCEPT !.stage = "landed",
                            !.moves = {[m EXCEPT !.bytes = alloc[m.handle].bytes] : m \in rel.moves}]
  BY DEF Copy
<1>2. rel'.moves = {[m EXCEPT !.bytes = alloc[m.handle].bytes] : m \in rel.moves}
  BY <1>1 DEF Inv, TypeOK, Relocations
<1>3. \A m \in rel.moves : m \in Moves
  BY DEF Inv, TypeOK, Relocations
<1>4. \A n \in rel'.moves : \E m \in rel.moves : m.handle = n.handle /\ m.page = n.page
  BY <1>2, <1>3 DEF Moves
<1> QED
  BY <1>1, <1>4, SamePagesRoom

\* Steps with the allocations, the pages and at most the targets there were.
LEMMA HandRoom ==
  ASSUME Inv, Inv', RoomInv, UNCHANGED <<arena, alloc>>, rel'.moves \subseteq rel.moves
  PROVE  RoomInv'
<1>1. UNCHANGED arena /\ alloc' = alloc
  OBVIOUS
<1> QED
  BY <1>1, SamePagesRoom

LEMMA PlanRoom ==
  ASSUME Inv, Inv', RoomInv,
         \/ ReserveRefused \/ NextPage \/ PlanFails \/ PlanEnds \/ CopyFails
         \/ \E reason \in Reasons : Start(reason)
  PROVE  RoomInv'
<1>t. rel \in Relocations
  BY DEF Inv, TypeOK
<1>1. CASE ReserveRefused
  BY <1>1, HandRoom DEF ReserveRefused, Idle
<1>2. CASE NextPage
  <2>1. rel'.moves = rel.moves
    BY <1>2, <1>t DEF NextPage, Relocations
  <2> QED
    BY <1>2, <2>1, HandRoom DEF NextPage
<1>3. CASE PlanFails
  <2>1. rel'.moves \subseteq rel.moves
    BY <1>3, <1>t DEF PlanFails, Truncated, Relocations
  <2> QED
    BY <1>3, <2>1, SettledRoom DEF PlanFails
<1>4. CASE PlanEnds
  <2>1. rel'.moves \subseteq rel.moves
    BY <1>4, <1>t, EndedIs DEF PlanEnds, Relocations
  <2> QED
    BY <1>4, <2>1, HandRoom DEF PlanEnds
<1>5. CASE CopyFails
  <2>1. rel'.moves = {}
    BY <1>5, EndedIs DEF CopyFails
  <2> QED
    BY <1>5, <2>1, SettledRoom DEF CopyFails
<1>6. CASE \E reason \in Reasons : Start(reason)
  <2>1. rel'.moves = {} /\ UNCHANGED <<arena, alloc>>
    BY <1>6 DEF Start, Idle
  <2> QED
    BY <2>1, HandRoom
<1> QED
  BY <1>1, <1>2, <1>3, <1>4, <1>5, <1>6

LEMMA OwnerRoom ==
  ASSUME Inv, Inv', RoomInv,
         \/ \E h \in Handles : Drop(h) \/ Resolve(h) \/ Touch(h)
         \/ \E who \in {"self", "other"} : StartRecording(who)
         \/ Seal
         \/ \E p \in PageIds : DropGuard(p)
         \/ UNCHANGED vars
  PROVE  RoomInv'
<1>1. CASE \E h \in Handles : Drop(h)
  <2>1. UNCHANGED <<arena, rel>> /\ \E owning : alloc' = Settled(alloc, owning)
    BY <1>1 DEF Drop
  <2> QED
    BY <2>1, SettledRoom
<1>2. CASE ~\E h \in Handles : Drop(h)
  <2>1. UNCHANGED <<arena, alloc, rel>>
    BY <1>2 DEF Resolve, Touch, StartRecording, Seal, DropGuard, vars
  <2> QED
    BY <2>1, HandRoom
<1> QED
  BY <1>1, <1>2

LEMMA NextRoom ==
  ASSUME Inv, Inv', RoomInv, [Next]_vars
  PROVE  RoomInv'
<1>1. CASE \E h \in Handles : \E size \in SizesOf[h] : ReserveFits(h, size) \/ Grow(h, size)
  BY <1>1, ReserveFitsRoom, GrowRoom
<1>2. CASE Tick \/ Cleanup
  <2>1. rel'.moves = {} /\ UNCHANGED alloc /\ \E from : Drain(alloc, from)
    BY <1>2 DEF Tick, Cleanup, Idle
  <2> QED
    BY <2>1, DrainedRoom
<1>3. CASE (\E h \in Handles : PlanMove(h)) \/ Copy \/ Commit
  BY <1>3, PlanMoveRoom, CopyRoom, CommitRoom
<1>4. CASE \E h \in Handles : Submit(h) \/ Execute(h)
  BY <1>4, WorkRoom
<1> QED
  BY <1>1, <1>2, <1>3, <1>4, PlanRoom, OwnerRoom DEF Next, Server

\* Every allocation is on a page of a pool that is there and every target on
\* one of the current pool, and what reservations and planned moves carve out
\* of a page never exceeds its size: neither a growth, nor a relocation that
\* plans, fails or commits, nor a drain ever leaves a page overcommitted.
THEOREM ArenaHolds == Spec => []ArenaInv
<1>1. Init => RoomInv
  BY DEF Init, RoomInv
<1>2. Inv /\ Inv' /\ RoomInv /\ [Next]_vars => RoomInv'
  BY NextRoom
<1>3. Inv /\ RoomInv => ArenaInv
  <2> SUFFICES ASSUME Inv, RoomInv PROVE ArenaInv
    OBVIOUS
  <2>1. \A p \in PageIds : slotOf[p] # 0 => pools[slotOf[p]] # 0 /\ Units(p) <= pools[slotOf[p]]
    BY DEF Inv, LiveInv, RoomInv, HasRoom, Units
  <2>2. \A h \in Planned(rel) : h \in Handles /\ alloc[h] # None /\ slotOf[alloc[h].page] \in outdated
    BY PlannedIs DEF Inv, PlanInv, TypeOK, Relocations, Moves, Moved
  <2>3. \A h \in held \cup bound \cup Planned(rel) : alloc[h] # None /\ slotOf[alloc[h].page] # 0
    BY <2>2 DEF Inv, LiveInv, TypeOK
  <2>4. \A m \in rel.moves : slotOf[m.page] = current
    BY DEF Inv, PlanInv
  <2>5. PlacedInv
    BY <2>1, <2>2, <2>3, <2>4 DEF PlacedInv
  <2> QED
    BY <2>5 DEF ArenaInv, Inv, RecordInv
<1> QED
  BY ArenaInductive, <1>1, <1>2, <1>3, PTL DEF Spec

=============================================================================
