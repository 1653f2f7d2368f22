-------------------------- MODULE MultiStreamProofs ---------------------------
(***************************************************************************)
(* Streams that share buffers, proved for any number of streams, stream     *)
(* ids, buffers and commands, and any capacity of the thread's channel:     *)
(* memory is never reused under a kernel, and work on a buffer made with    *)
(* its data finds the data there.                                           *)
(***************************************************************************)
EXTENDS MultiStream, TLAPS

USE ZenonT(3), SMTT(20)

Queues == Slots \cup {GcSlot}

\* The work that has to run before anything may use an allocation: what uses
\* an earlier allocation of the slice, and the copy that fills it.
Precedes(e, a) ==
  \/ \E u \in e.uses : u[1] = a[1] /\ u[2] < a[2]
  \/ e.kind = "copy" /\ a \in e.writes

\* One of the first k entries of a stream waits for the first j of stream o.
Waited(q, k, o, j) ==
  \E i \in 1 .. k : q[i].event[1] = o /\ q[i].event[2] >= j

\* A task is on its way that pins the allocation until stream s is past k.
PinnedUntil(a, s, k) ==
  \E task \in Tasks :
    LET wait == queue[GcSlot][task.event[2]].event
    IN  a \in task.pins /\ wait[1] = s /\ wait[2] >= k

\* What ran had waited, and the tasks of the thread wait on its own stream.
EventsInv ==
  /\ \A s \in Queues : \A k \in 1 .. done[s] : Reached(queue[s][k].event)
  /\ \A task \in Tasks : task.event[1] = GcSlot /\ task.event[2] \in 1 .. Len(queue[GcSlot])

\* Work uses allocations that were made, on slices of the slot that owns them.
UsesInv ==
  /\ \A s \in Slots : \A k \in 1 .. Len(queue[s]) :
       /\ \A a \in queue[s][k].uses \cup queue[s][k].writes : a[2] \in 1 .. gen[a[1]]
       /\ queue[s][k].kind = "copy" => \A a \in queue[s][k].writes : Home[a[1]] = s
  /\ \A b \in Buffers :
       /\ held[b] => gen[b] > 0
       /\ gen[b] > 0 => Slot(owner[b]) = Home[b]

\* On one stream work is enqueued in the order of the allocations it uses.
OrderInv ==
  \A s \in Slots : \A k \in 1 .. Len(queue[s]) : \A j \in 1 .. k - 1 :
    \A a \in queue[s][j].uses : ~Precedes(queue[s][k], a)

\* A slice that another stream still has work for is pinned until that work
\* is over, and so is not allocated again.
PinsInv ==
  \A s \in Slots : \A k \in done[s] + 1 .. Len(queue[s]) : \A a \in queue[s][k].uses :
    Home[a[1]] # s => PinnedUntil(a, s, k) /\ a[2] = gen[a[1]]

\* A stream that counts as synced with another did wait for the work that has
\* to come first.
SyncedInv ==
  \A s, o \in Slots :
    /\ synced[s][o] <= cursor[o]
    /\ s # o => \A b \in Buffers :
         Home[b] = o /\ synced[s][o] >= bound[b] =>
           \A j \in 1 .. Len(queue[o]) :
             Precedes(queue[o][j], Allocation(b)) => Waited(queue[s], Len(queue[s]), o, j)

\* Work on a slice of another stream is behind a wait for what comes first.
WaitsInv ==
  \A s \in Slots : \A k \in 1 .. Len(queue[s]) : \A a \in queue[s][k].uses :
    Home[a[1]] # s =>
      \A j \in 1 .. Len(queue[Home[a[1]]]) :
        Precedes(queue[Home[a[1]]][j], a) => Waited(queue[s], k, Home[a[1]], j)

Inv ==
  /\ TypeOK /\ EventsInv /\ UsesInv /\ OrderInv /\ PinsInv /\ SyncedInv /\ WaitsInv

-----------------------------------------------------------------------------
(* Sequences and the set of tasks *)

LEMMA Grown ==
  ASSUME NEW S, NEW q \in Seq(S), NEW w \in Seq(S), NEW e \in S
  PROVE  /\ q \o w \o <<e>> \in Seq(S)
         /\ Len(q \o w \o <<e>>) = Len(q) + Len(w) + 1
         /\ \A k \in 1 .. Len(q) : (q \o w \o <<e>>)[k] = q[k]
         /\ \A i \in 1 .. Len(w) : (q \o w \o <<e>>)[Len(q) + i] = w[i]
         /\ (q \o w \o <<e>>)[Len(q) + Len(w) + 1] = e
<1> DEFINE p == q \o w
<1>1. p \in Seq(S) /\ Len(p) = Len(q) + Len(w)
  OBVIOUS
<1>2. \A k \in 1 .. Len(q) : p[k] = q[k]
  OBVIOUS
<1>3. \A i \in 1 .. Len(w) : p[Len(q) + i] = w[i]
  OBVIOUS
<1> HIDE DEF p
<1>4. p \o <<e>> \in Seq(S) /\ Len(p \o <<e>>) = Len(p) + 1
  BY <1>1
<1>5. \A k \in 1 .. Len(p) : (p \o <<e>>)[k] = p[k]
  BY <1>1
<1>6. (p \o <<e>>)[Len(p) + 1] = e
  BY <1>1
<1>7. Len(q) \in Nat /\ Len(w) \in Nat
  OBVIOUS
<1>8. \A i \in 1 .. Len(w) : Len(q) + i \in 1 .. Len(p)
  BY <1>1, <1>7
<1>9. \A k \in 1 .. Len(q) : k \in 1 .. Len(p)
  BY <1>1, <1>7
<1> QED
  BY <1>1, <1>2, <1>3, <1>4, <1>5, <1>6, <1>8, <1>9 DEF p

LEMMA GrownByOne ==
  ASSUME NEW S, NEW q \in Seq(S), NEW e \in S
  PROVE  /\ Append(q, e) \in Seq(S)
         /\ Len(Append(q, e)) = Len(q) + 1
         /\ \A k \in 1 .. Len(q) : Append(q, e)[k] = q[k]
         /\ Append(q, e)[Len(q) + 1] = e
  OBVIOUS

LEMMA SlotsAre ==
  /\ MaxStreams \in Nat \ {0} /\ GcSlot \notin Slots /\ Slots \subseteq Nat
  /\ \A id \in StreamIds : Slot(id) \in Slots
  /\ \A b \in Buffers : Home[b] \in Slots
  BY PoolAssumption DEF Slots, GcSlot, Slot

LEMMA RangeOf ==
  ASSUME NEW S, NEW q \in Seq(S)
  PROVE  /\ Range(q) \subseteq S
         /\ \A x : x \in Range(q) <=> \E i \in 1 .. Len(q) : q[i] = x
  BY DEF Range

LEMMA RangeOne ==
  ASSUME NEW x
  PROVE  Range(<<x>>) = {x}
  BY DEF Range

LEMMA RangeNone == Range(<<>>) = {}
  BY DEF Range

LEMMA RangeJoins ==
  ASSUME NEW S, NEW q \in Seq(S), NEW p \in Seq(S)
  PROVE  q \o p \in Seq(S) /\ Len(q \o p) = Len(q) + Len(p) /\ Range(q \o p) = Range(q) \cup Range(p)
<1> DEFINE joined == q \o p
<1>1. joined \in Seq(S) /\ Len(joined) = Len(q) + Len(p) /\ Len(q) \in Nat /\ Len(p) \in Nat
  OBVIOUS
<1>2. \A i \in 1 .. Len(q) : joined[i] = q[i]
  OBVIOUS
<1>3. \A i \in 1 .. Len(p) : joined[Len(q) + i] = p[i]
  OBVIOUS
<1> HIDE DEF joined
<1>4. ASSUME NEW x \in Range(q) PROVE x \in Range(joined)
  <2>1. PICK i \in 1 .. Len(q) : q[i] = x
    BY RangeOf
  <2>2. i \in 1 .. Len(joined) /\ joined[i] = x
    BY <1>1, <1>2, <2>1
  <2> QED
    BY <1>1, <2>2, RangeOf
<1>5. ASSUME NEW x \in Range(p) PROVE x \in Range(joined)
  <2>1. PICK i \in 1 .. Len(p) : p[i] = x
    BY RangeOf
  <2>2. Len(q) + i \in 1 .. Len(joined) /\ joined[Len(q) + i] = x
    BY <1>1, <1>3, <2>1
  <2> QED
    BY <1>1, <2>2, RangeOf
<1>6. ASSUME NEW x \in Range(joined) PROVE x \in Range(q) \cup Range(p)
  <2>1. PICK i \in 1 .. Len(joined) : joined[i] = x
    BY <1>1, RangeOf
  <2>2. CASE i <= Len(q)
    BY <1>1, <1>2, <2>1, <2>2, RangeOf
  <2>3. CASE i > Len(q)
    <3>1. PICK k \in 1 .. Len(p) : i = Len(q) + k
      <4>1. i - Len(q) \in 1 .. Len(p) /\ i = Len(q) + (i - Len(q))
        BY <1>1, <2>1, <2>3
      <4> QED
        BY <4>1
    <3>2. p[k] = x
      BY <1>3, <2>1, <3>1
    <3> QED
      BY <3>2, RangeOf
  <2> QED
    BY <1>1, <2>1, <2>2, <2>3
<1> QED
  BY <1>1, <1>4, <1>5, <1>6 DEF joined

LEMMA RangeSplits ==
  ASSUME NEW S, NEW q \in Seq(S), q # <<>>
  PROVE  /\ Head(q) \in S /\ Tail(q) \in Seq(S) /\ Len(Tail(q)) = Len(q) - 1
         /\ Range(q) = {Head(q)} \cup Range(Tail(q))
<1>1. /\ Head(q) \in S /\ Tail(q) \in Seq(S) /\ Len(Tail(q)) = Len(q) - 1
      /\ Len(q) \in Nat \ {0}
  OBVIOUS
<1>2. q[1] = Head(q) /\ \A i \in 1 .. Len(q) - 1 : Tail(q)[i] = q[i + 1]
  OBVIOUS
<1>3. ASSUME NEW x \in Range(q) PROVE x \in {Head(q)} \cup Range(Tail(q))
  <2>1. PICK i \in 1 .. Len(q) : q[i] = x
    BY RangeOf
  <2>2. CASE i = 1
    BY <1>2, <2>1, <2>2
  <2>3. CASE i # 1
    <3>1. PICK k \in 1 .. Len(Tail(q)) : i = k + 1
      <4>1. i - 1 \in 1 .. Len(Tail(q)) /\ i = (i - 1) + 1
        BY <1>1, <2>1, <2>3
      <4> QED
        BY <4>1
    <3>2. Tail(q)[k] = x
      BY <1>1, <1>2, <2>1, <3>1
    <3> QED
      BY <1>1, <3>2, RangeOf, Zenon
  <2> QED
    BY <2>2, <2>3
<1>4. ASSUME NEW x \in Range(Tail(q)) PROVE x \in Range(q)
  <2>1. PICK i \in 1 .. Len(Tail(q)) : Tail(q)[i] = x
    BY <1>1, RangeOf
  <2>2. i + 1 \in 1 .. Len(q) /\ q[i + 1] = x
    BY <1>1, <1>2, <2>1
  <2> QED
    BY <2>2, RangeOf
<1>5. Head(q) \in Range(q)
  BY <1>1, <1>2, RangeOf
<1> QED
  BY <1>1, <1>3, <1>4, <1>5

-----------------------------------------------------------------------------

\* The parts of the type invariant the steps below use.
LEMMA Types ==
  ASSUME TypeOK
  PROVE  /\ cursor \in [Slots -> Nat] /\ synced \in [Slots -> [Slots -> Nat \cup {Never}]]
         /\ owner \in [Buffers -> StreamIds] /\ bound \in [Buffers -> Nat]
         /\ gen \in [Buffers -> Nat] /\ held \in [Buffers -> BOOLEAN]
         /\ queue \in [Queues -> Seq(Entries)] /\ done \in [Queues -> Nat]
         /\ \A s \in Queues : done[s] <= Len(queue[s]) /\ Len(queue[s]) \in Nat
         /\ \A s \in Queues : \A k \in 1 .. Len(queue[s]) : queue[s][k] \in Entries
<1>1. queue \in [Queues -> Seq(Entries)] /\ \A s \in Queues : queue[s] \in Seq(Entries)
  BY DEF TypeOK, Queues
<1>2. \A s \in Queues : Len(queue[s]) \in Nat
  BY <1>1
<1>3. \A s \in Queues : \A k \in 1 .. Len(queue[s]) : queue[s][k] \in Entries
  BY <1>1
<1> QED
  BY <1>1, <1>2, <1>3 DEF TypeOK, Queues

LEMMA InitOK == Init => Inv
<1> SUFFICES ASSUME Init PROVE Inv
  OBVIOUS
<1>1. /\ queue = [s \in Queues |-> <<>>] /\ done = [s \in Queues |-> 0]
      /\ \A s \in Queues : queue[s] = <<>> /\ Len(queue[s]) = 0 /\ done[s] = 0
  BY DEF Init, Queues
<1>2. Tasks = {}
  BY RangeNone DEF Init, Tasks
<1>3. TypeOK
  <2>1. (CHOOSE id \in StreamIds : TRUE) \in StreamIds
    BY PoolAssumption
  <2>2. outbox \in Seq(GcTasks) /\ channel \in Seq(GcTasks) /\ hand \in Seq(GcTasks)
        /\ Len(outbox) = 0 /\ Len(channel) = 0 /\ Len(hand) = 0
    BY DEF Init
  <2>3. queue \in [Queues -> Seq(Entries)] /\ done \in [Queues -> Nat]
    BY <1>1
  <2>4. synced \in [Slots -> [Slots -> Nat \cup {Never}]]
    BY DEF Init
  <2> QED
    BY <1>1, <2>1, <2>2, <2>3, <2>4, PoolAssumption DEF Init, TypeOK, Queues
<1>4. Slots \subseteq Queues
  BY DEF Queues
<1>5. EventsInv
  BY <1>1, <1>2 DEF EventsInv
<1>6. UsesInv
  BY <1>1, <1>4 DEF UsesInv, Init
<1>7. OrderInv /\ PinsInv /\ WaitsInv
  BY <1>1, <1>4 DEF OrderInv, PinsInv, WaitsInv
<1>8. SyncedInv
  BY <1>1, <1>4 DEF SyncedInv, Init, Never
<1> QED
  BY <1>3, <1>5, <1>6, <1>7, <1>8 DEF Inv

-----------------------------------------------------------------------------
(* Steps that enqueue *)

\* What was enqueued stays where it is.
QueuesGrow ==
  \A s \in Queues :
    /\ Len(queue'[s]) \in Nat /\ Len(queue[s]) <= Len(queue'[s])
    /\ \A k \in 1 .. Len(queue[s]) : queue'[s][k] = queue[s][k]

LEMMA WaitedStays ==
  ASSUME NEW q, NEW r, NEW k \in Nat, NEW m \in Nat, k <= m, \A i \in 1 .. k : r[i] = q[i],
         NEW o, NEW j, Waited(q, k, o, j)
  PROVE  Waited(r, m, o, j)
  BY DEF Waited

LEMMA EventsGrow ==
  ASSUME Inv, QueuesGrow, UNCHANGED done,
         \A task \in Tasks' \ Tasks :
           task.event[1] = GcSlot /\ task.event[2] \in 1 .. Len(queue'[GcSlot])
  PROVE  EventsInv'
<1>1. ASSUME NEW s \in Queues, NEW k \in 1 .. done[s]
      PROVE  done[queue'[s][k].event[1]] >= queue'[s][k].event[2]
  <2>1. k \in 1 .. Len(queue[s])
    BY Types DEF Inv
  <2>2. Reached(queue[s][k].event)
    BY DEF Inv, EventsInv
  <2>3. queue'[s][k] = queue[s][k]
    BY <2>1 DEF QueuesGrow
  <2> QED
    BY <2>2, <2>3 DEF Reached
<1>2. ASSUME NEW task \in Tasks'
      PROVE  task.event[1] = GcSlot /\ task.event[2] \in 1 .. Len(queue'[GcSlot])
  <2>1. CASE task \in Tasks
    <3>1. task.event[1] = GcSlot /\ task.event[2] \in 1 .. Len(queue[GcSlot])
      BY <2>1 DEF Inv, EventsInv
    <3>2. GcSlot \in Queues
      BY DEF Queues
    <3>3. Len(queue[GcSlot]) \in Nat /\ Len(queue'[GcSlot]) \in Nat
          /\ Len(queue[GcSlot]) <= Len(queue'[GcSlot])
      BY <3>2, Types DEF Inv, QueuesGrow
    <3> QED
      BY <3>1, <3>3
  <2> QED
    BY <2>1
<1> QED
  BY <1>1, <1>2 DEF EventsInv, Reached

LEMMA PinnedStays ==
  ASSUME Inv, QueuesGrow, Tasks \subseteq Tasks', NEW a, NEW s, NEW k, PinnedUntil(a, s, k)
  PROVE  PinnedUntil(a, s, k)'
<1>1. PICK task \in Tasks : /\ a \in task.pins
                            /\ queue[GcSlot][task.event[2]].event[1] = s
                            /\ queue[GcSlot][task.event[2]].event[2] >= k
  BY DEF PinnedUntil
<1>2. task.event[2] \in 1 .. Len(queue[GcSlot]) /\ GcSlot \in Queues
  BY DEF Inv, EventsInv, Queues
<1>3. queue'[GcSlot][task.event[2]] = queue[GcSlot][task.event[2]]
  BY <1>2 DEF QueuesGrow
<1> QED
  BY <1>1, <1>3 DEF PinnedUntil

-----------------------------------------------------------------------------

LEMMA WaitsAre ==
  ASSUME Inv, NEW origins \in SUBSET Slots, NEW order \in Orders(origins)
  PROVE  /\ Waits(order) \in Seq(Entries)
         /\ \A i \in 1 .. Len(Waits(order)) :
              /\ Waits(order)[i].uses = {} /\ Waits(order)[i].writes = {}
              /\ Waits(order)[i].kind = "wait"
         /\ \A o \in origins : \E i \in 1 .. Len(Waits(order)) :
              Waits(order)[i].event = <<o, Len(queue[o])>>
<1>1. PICK n \in 0 .. MaxStreams : order \in Bijection(1 .. n, origins)
  BY DEF Orders
<1>2. order \in [1 .. n -> origins] /\ \A o \in origins : \E i \in 1 .. n : order[i] = o
  BY <1>1 DEF Bijection, Injection, Surjection
<1>3. n \in Nat
  BY SlotsAre
<1>4. Waits(order) = [i \in 1 .. n |-> WaitFor(<<order[i], Len(queue[order[i]])>>)]
  BY <1>2 DEF Waits, Fence
<1>5. ASSUME NEW i \in 1 .. n
      PROVE  WaitFor(<<order[i], Len(queue[order[i]])>>) \in Entries
  <2>1. order[i] \in Queues
    BY <1>2 DEF Queues
  <2>2. Len(queue[order[i]]) \in Nat
    BY <2>1, Types DEF Inv
  <2> QED
    BY <2>1, <2>2 DEF WaitFor, Entries, Queues
<1>6. Waits(order) \in Seq(Entries) /\ Len(Waits(order)) = n
  BY <1>3, <1>4, <1>5
<1>7. \A i \in 1 .. n :
        /\ Waits(order)[i].uses = {} /\ Waits(order)[i].writes = {}
        /\ Waits(order)[i].kind = "wait"
        /\ Waits(order)[i].event = <<order[i], Len(queue[order[i]])>>
  BY <1>4 DEF WaitFor
<1>8. ASSUME NEW o \in origins
      PROVE  \E i \in 1 .. n : Waits(order)[i].event = <<o, Len(queue[o])>>
  BY <1>2, <1>7
<1> QED
  BY <1>6, <1>7, <1>8

\* What a command enqueues: waits for the streams it is not synced with, its
\* work, and behind it on the thread's stream the wait that ends its pins.
Launched(id, handles, writes, s, last) ==
  /\ s = Slot(id) /\ last > Len(queue[s]) /\ Len(queue'[s]) = last
  /\ ServerReady /\ \A b \in handles : held[b]
  /\ cursor' = [cursor EXCEPT ![s] = @ + 1]
  /\ synced' = [synced EXCEPT ![s] =
       [o \in Slots |-> IF o \in Origins(id, handles) THEN cursor[o] ELSE @[o]]]
  /\ commands' = commands + 1
  /\ UNCHANGED <<owner, bound, gen, held, done, channel, hand>>
  /\ queue' \in [Queues -> Seq(Entries)] /\ QueuesGrow
  /\ \A o \in Slots : o # s => queue'[o] = queue[o]
  /\ queue'[s][last].uses = {Allocation(b) : b \in handles}
  /\ queue'[s][last].writes = {Allocation(b) : b \in writes}
  /\ queue'[s][last].kind = "launch"
  /\ \A k \in Len(queue[s]) + 1 .. last - 1 :
       queue'[s][k].uses = {} /\ queue'[s][k].writes = {} /\ queue'[s][k].kind = "wait"
  /\ \A o \in Origins(id, handles) : \E k \in Len(queue[s]) + 1 .. last - 1 :
       queue'[s][k].event = <<o, Len(queue[o])>>
  /\ \/ Pinned(id, handles) = {} /\ UNCHANGED outbox
     \/ \E task \in GcTasks :
          /\ outbox' = <<task>> /\ task.pins = Pinned(id, handles)
          /\ task.event = <<GcSlot, Len(queue'[GcSlot])>> /\ Len(queue'[GcSlot]) > 0
          /\ queue'[GcSlot][Len(queue'[GcSlot])].event = <<s, last>>

LEMMA LaunchIs ==
  ASSUME Inv, NEW id \in StreamIds, NEW handles \in SUBSET Buffers, NEW writes \in SUBSET handles,
         Launch(id, handles, writes)
  PROVE  \E s \in Slots, last \in Nat : Launched(id, handles, writes, s, last)
<1> DEFINE origins == Origins(id, handles)
           pins == Pinned(id, handles)
           uses == {Allocation(b) : b \in handles}
           wrote == {Allocation(b) : b \in writes}
           work == Work("launch", uses, wrote)
<1>1. PICK s \in Slots : s = Slot(id)
  BY SlotsAre
<1>2. PICK order \in Orders(origins) :
        Enqueue(s, queue[s] \o Waits(order) \o <<work>>, pins)
  BY <1>1 DEF Launch
<1>3. /\ ServerReady /\ \A b \in handles : held[b]
      /\ cursor' = [cursor EXCEPT ![s] = @ + 1]
      /\ synced' = [synced EXCEPT ![s] =
           [o \in Slots |-> IF o \in Origins(id, handles) THEN cursor[o] ELSE @[o]]]
      /\ commands' = commands + 1
      /\ UNCHANGED <<owner, bound, gen, held, done, channel, hand>>
  BY <1>1 DEF Launch, memory
<1>4. /\ queue \in [Queues -> Seq(Entries)] /\ gen \in [Buffers -> Nat] /\ commands \in Nat
      /\ owner \in [Buffers -> StreamIds]
  <2>1. commands \in Nat
    BY PoolAssumption DEF Inv, TypeOK
  <2> QED
    BY <2>1, Types DEF Inv
<1>5. s \in Queues /\ GcSlot \in Queues /\ s # GcSlot /\ queue[s] \in Seq(Entries)
      /\ queue[GcSlot] \in Seq(Entries)
  BY <1>4, SlotsAre DEF Queues
<1>6. origins \in SUBSET Slots
  BY <1>4, SlotsAre DEF Origins, Foreign
<1>7. work \in Entries /\ work.uses = uses /\ work.writes = wrote /\ work.kind = "launch"
  <2>1. uses \subseteq Buffers \X Nat /\ wrote \subseteq Buffers \X Nat
    BY <1>4 DEF Allocation
  <2>2. NoEvent \in Queues \X Nat
    BY <1>5 DEF NoEvent
  <2> HIDE DEF uses, wrote
  <2> QED
    BY <1>4, <2>1, <2>2 DEF Work, Entries, Queues
<1>8. pins \subseteq Buffers \X Nat
  BY <1>4 DEF Pinned, Foreign, Allocation
<1> HIDE DEF work, origins, pins, uses, wrote
<1> DEFINE w == Waits(order)
           enqueued == queue[s] \o w \o <<work>>
           last == Len(queue[s]) + Len(w) + 1
<1>9. /\ w \in Seq(Entries)
      /\ \A i \in 1 .. Len(w) : w[i].uses = {} /\ w[i].writes = {} /\ w[i].kind = "wait"
      /\ \A o \in origins : \E i \in 1 .. Len(w) : w[i].event = <<o, Len(queue[o])>>
  BY <1>2, <1>6, WaitsAre
<1> HIDE DEF w
<1>10. /\ enqueued \in Seq(Entries) /\ Len(enqueued) = last
       /\ \A k \in 1 .. Len(queue[s]) : enqueued[k] = queue[s][k]
       /\ \A i \in 1 .. Len(w) : enqueued[Len(queue[s]) + i] = w[i]
       /\ enqueued[last] = work
  BY <1>5, <1>7, <1>9, Grown
<1>11. Enqueue(s, enqueued, pins)
  BY <1>2 DEF w
<1>12. Len(queue[s]) \in Nat /\ Len(w) \in Nat /\ last \in Nat /\ last > Len(queue[s])
  BY <1>5, <1>9
<1> HIDE DEF enqueued, last
<1> DEFINE behind == WaitFor(<<s, last>>)
           gcQueue == Append(queue[GcSlot], behind)
<1>13. behind \in Entries /\ behind.event = <<s, last>>
  BY <1>5, <1>12 DEF WaitFor, Entries, Queues
<1>14. \/ pins = {} /\ queue' = [queue EXCEPT ![s] = enqueued] /\ UNCHANGED outbox
       \/ /\ queue' = [queue EXCEPT ![s] = enqueued, ![GcSlot] = gcQueue]
          /\ outbox' = <<[pins |-> pins, event |-> <<GcSlot, Len(gcQueue)>>]>>
  BY <1>10, <1>11 DEF Enqueue, Fence
<1> HIDE DEF behind
<1>15. /\ gcQueue \in Seq(Entries) /\ Len(gcQueue) = Len(queue[GcSlot]) + 1
       /\ \A k \in 1 .. Len(queue[GcSlot]) : gcQueue[k] = queue[GcSlot][k]
       /\ gcQueue[Len(queue[GcSlot]) + 1] = behind
       /\ Len(queue[GcSlot]) \in Nat
  BY <1>5, <1>13, GrownByOne
<1> HIDE DEF gcQueue
<1>16. /\ queue'[s] = enqueued /\ queue' \in [Queues -> Seq(Entries)]
       /\ \A o \in Slots : o # s => queue'[o] = queue[o]
       /\ queue'[GcSlot] = queue[GcSlot] \/ queue'[GcSlot] = gcQueue
  <2>1. \A o \in Slots : o \in Queues /\ o # GcSlot
    BY SlotsAre DEF Queues
  <2> QED
    BY <1>4, <1>5, <1>10, <1>14, <1>15, <2>1
<1>17. QueuesGrow
  <2> SUFFICES ASSUME NEW o \in Queues
               PROVE  /\ Len(queue'[o]) \in Nat /\ Len(queue[o]) <= Len(queue'[o])
                      /\ \A k \in 1 .. Len(queue[o]) : queue'[o][k] = queue[o][k]
    BY DEF QueuesGrow
  <2>1. Len(queue[o]) \in Nat
    BY Types DEF Inv
  <2>2. CASE o = s
    BY <1>10, <1>12, <1>16, <2>2
  <2>3. CASE o = GcSlot
    BY <1>15, <1>16, <2>1, <2>3
  <2>4. CASE o \in Slots /\ o # s
    BY <1>16, <2>1, <2>4
  <2> QED
    BY <2>2, <2>3, <2>4 DEF Queues
<1>18. /\ Len(queue'[s]) = last
       /\ queue'[s][last].uses = uses /\ queue'[s][last].writes = wrote
       /\ queue'[s][last].kind = "launch"
  BY <1>7, <1>10, <1>16
<1>19. ASSUME NEW k \in Len(queue[s]) + 1 .. last - 1
       PROVE  queue'[s][k].uses = {} /\ queue'[s][k].writes = {} /\ queue'[s][k].kind = "wait"
  <2>1. PICK i \in 1 .. Len(w) : k = Len(queue[s]) + i
    <3>1. k - Len(queue[s]) \in 1 .. Len(w) /\ k = Len(queue[s]) + (k - Len(queue[s]))
      BY <1>12 DEF last
    <3> QED
      BY <3>1
  <2>2. queue'[s][k] = w[i]
    BY <1>10, <1>16, <2>1
  <2> QED
    BY <1>9, <2>2
<1>20. ASSUME NEW o \in origins
       PROVE  \E k \in Len(queue[s]) + 1 .. last - 1 : queue'[s][k].event = <<o, Len(queue[o])>>
  <2>1. PICK i \in 1 .. Len(w) : w[i].event = <<o, Len(queue[o])>>
    BY <1>9
  <2>2. Len(queue[s]) + i \in Len(queue[s]) + 1 .. last - 1
    BY <1>12 DEF last
  <2>3. queue'[s][Len(queue[s]) + i] = w[i]
    BY <1>10, <1>16
  <2> QED
    BY <2>1, <2>2, <2>3
<1>21. ASSUME ~(pins = {} /\ UNCHANGED outbox)
       PROVE  \E task \in GcTasks :
                /\ outbox' = <<task>> /\ task.pins = pins
                /\ task.event = <<GcSlot, Len(queue'[GcSlot])>> /\ Len(queue'[GcSlot]) > 0
                /\ queue'[GcSlot][Len(queue'[GcSlot])].event = <<s, last>>
  <2>1. /\ queue' = [queue EXCEPT ![s] = enqueued, ![GcSlot] = gcQueue]
        /\ outbox' = <<[pins |-> pins, event |-> <<GcSlot, Len(gcQueue)>>]>>
    BY <1>14, <1>21
  <2>2. queue'[GcSlot] = gcQueue
    BY <1>4, <1>5, <2>1
  <2>3. Len(gcQueue) \in Nat /\ Len(gcQueue) > 0 /\ gcQueue[Len(gcQueue)].event = <<s, last>>
    BY <1>13, <1>15
  <2>4. [pins |-> pins, event |-> <<GcSlot, Len(gcQueue)>>] \in GcTasks
    BY <1>5, <1>8, <2>3 DEF GcTasks, Queues
  <2> DEFINE task == [pins |-> pins, event |-> <<GcSlot, Len(gcQueue)>>]
  <2>5. outbox' = <<task>> /\ task.pins = pins /\ task.event = <<GcSlot, Len(gcQueue)>>
    BY <2>1
  <2> HIDE DEF task
  <2> QED
    BY <2>2, <2>3, <2>4, <2>5 DEF task
<1>22. s = Slot(id) /\ last \in Nat /\ last > Len(queue[s])
  BY <1>1, <1>12
<1> HIDE DEF last
<1> QED
  BY <1>3, <1>16, <1>17, <1>18, <1>19, <1>20, <1>21, <1>22, ZenonT(40)
  DEF origins, pins, uses, wrote, Launched

LEMMA LaunchOK ==
  ASSUME Inv, NEW id \in StreamIds, NEW handles \in SUBSET Buffers, NEW writes \in SUBSET handles,
         Launch(id, handles, writes)
  PROVE  Inv'
<1> DEFINE origins == Origins(id, handles)
           pins == Pinned(id, handles)
<1>0. PICK s \in Slots, last \in Nat : Launched(id, handles, writes, s, last)
  BY LaunchIs
<1>1. /\ s = Slot(id) /\ last > Len(queue[s]) /\ Len(queue'[s]) = last
      /\ ServerReady /\ \A b \in handles : held[b]
      /\ cursor' = [cursor EXCEPT ![s] = @ + 1]
      /\ synced' = [synced EXCEPT ![s] =
           [o \in Slots |-> IF o \in origins THEN cursor[o] ELSE @[o]]]
      /\ commands' = commands + 1
      /\ UNCHANGED <<owner, bound, gen, held, done, channel, hand>>
      /\ queue' \in [Queues -> Seq(Entries)] /\ QueuesGrow
      /\ \A o \in Slots : o # s => queue'[o] = queue[o]
      /\ queue'[s][last].uses = {Allocation(b) : b \in handles}
      /\ queue'[s][last].writes = {Allocation(b) : b \in writes}
      /\ queue'[s][last].kind = "launch"
      /\ \A k \in Len(queue[s]) + 1 .. last - 1 :
           queue'[s][k].uses = {} /\ queue'[s][k].writes = {} /\ queue'[s][k].kind = "wait"
      /\ \A o \in origins : \E k \in Len(queue[s]) + 1 .. last - 1 :
           queue'[s][k].event = <<o, Len(queue[o])>>
      /\ \/ pins = {} /\ UNCHANGED outbox
         \/ \E task \in GcTasks :
              /\ outbox' = <<task>> /\ task.pins = pins
              /\ task.event = <<GcSlot, Len(queue'[GcSlot])>> /\ Len(queue'[GcSlot]) > 0
              /\ queue'[GcSlot][Len(queue'[GcSlot])].event = <<s, last>>
  BY <1>0 DEF Launched
<1>2. \A b \in handles : held[b] /\ b \in Buffers /\ gen[b] \in Nat /\ gen[b] > 0
                         /\ Slot(owner[b]) = Home[b]
  BY <1>1, Types DEF Inv, UsesInv
<1> HIDE DEF origins, pins
<1>21. s = Slot(id) /\ UNCHANGED <<owner, gen, held>>
  BY <1>1
<1>22. /\ \A b \in Buffers : bound[b] \in Int
       /\ \A o \in Slots, p \in Slots : synced[o][p] \in Int
  BY Types DEF Inv, Never
<1>3. /\ \A o \in Slots : o \in Queues /\ Len(queue[o]) \in Nat /\ Len(queue'[o]) \in Nat
                          /\ Len(queue[o]) <= Len(queue'[o])
                          /\ \A k \in 1 .. Len(queue[o]) : queue'[o][k] = queue[o][k]
      /\ Len(queue'[GcSlot]) \in Nat
  <2>1. GcSlot \in Queues /\ \A o \in Slots : o \in Queues
    BY DEF Queues
  <2> QED
    BY <1>1, <2>1, Types DEF Inv, QueuesGrow
<1>4. \A o \in Slots : \A k \in 1 .. Len(queue'[o]) :
        \/ k \in 1 .. Len(queue[o]) /\ queue'[o][k] = queue[o][k]
        \/ o = s /\ k = last
        \/ o = s /\ k \in Len(queue[s]) + 1 .. last - 1
  BY <1>1, <1>3
<1>5. \A o \in Slots : \A k \in 1 .. Len(queue[o]) : \A a \in queue[o][k].uses \cup queue[o][k].writes :
        a \in Buffers \X Nat /\ a[2] \in 1 .. gen[a[1]]
  <2>1. \A o \in Slots : \A k \in 1 .. Len(queue[o]) : queue[o][k] \in Entries
    BY Types DEF Inv, Queues
  <2> QED
    BY <2>1 DEF Inv, UsesInv, Entries
\* What the step enqueues comes behind everything that uses what there is now.
<1>6. ASSUME NEW k \in Len(queue[s]) + 1 .. last, NEW a \in Buffers \X Nat, a[2] <= gen[a[1]]
      PROVE  ~Precedes(queue'[s][k], a)
  <2>1. CASE k = last
    <3>1. queue'[s][k].uses = {Allocation(b) : b \in handles} /\ queue'[s][k].kind = "launch"
      BY <1>1, <2>1
    <3>2. \A b \in handles : ~(Allocation(b)[1] = a[1] /\ Allocation(b)[2] < a[2])
      BY <1>2, <1>6 DEF Allocation
    <3> QED
      BY <3>1, <3>2 DEF Precedes
  <2>2. CASE k \in Len(queue[s]) + 1 .. last - 1
    BY <1>1, <2>2 DEF Precedes
  <2> QED
    BY <1>3, <2>1, <2>2
<1>7. ASSUME NEW o \in Slots, NEW k \in 1 .. Len(queue'[o]), NEW a \in Buffers \X Nat,
             a[2] <= gen[a[1]], Precedes(queue'[o][k], a)
      PROVE  k \in 1 .. Len(queue[o]) /\ queue'[o][k] = queue[o][k]
  <2>1. Len(queue[s]) \in Nat /\ last > Len(queue[s])
    BY <1>1, <1>3
  <2>2. ~(o = s /\ k \in Len(queue[s]) + 1 .. last)
    BY <1>6, <1>7
  <2> QED
    BY <1>4, <2>1, <2>2
\* The wait of the step covers everything on a stream it was not synced with.
<1>23. Len(queue'[s]) = last /\ queue'[s][last].uses = {Allocation(b) : b \in handles}
  BY <1>1
<1>8. ASSUME NEW o \in origins, NEW j \in 1 .. Len(queue[o])
      PROVE  Waited(queue'[s], last - 1, o, j)
  <2>1. PICK k \in Len(queue[s]) + 1 .. last - 1 : queue'[s][k].event = <<o, Len(queue[o])>>
    BY <1>1
  <2>2. k \in 1 .. last - 1
    BY <1>3
  <2>3. queue'[s][k].event[1] = o /\ queue'[s][k].event[2] >= j
    BY <2>1
  <2> QED
    BY <2>2, <2>3 DEF Waited
<1>9. Tasks' \ Tasks \subseteq Range(outbox') /\ Tasks \subseteq Tasks' /\ Range(outbox') \subseteq Tasks'
  BY <1>1, RangeNone DEF Tasks, ServerReady
<1>10. TypeOK'
  <2>1. commands' \in 0 .. MaxCommands
    BY <1>1, PoolAssumption DEF Inv, TypeOK, ServerReady
  <2>2. cursor \in [Slots -> Nat] /\ synced \in [Slots -> [Slots -> Nat \cup {Never}]]
    BY Types DEF Inv
  <2>3. cursor' \in [Slots -> Nat]
    BY <1>1, <2>2
  <2>4. [o \in Slots |-> IF o \in origins THEN cursor[o] ELSE synced[s][o]]
          \in [Slots -> Nat \cup {Never}]
    BY <2>2
  <2>5. synced' \in [Slots -> [Slots -> Nat \cup {Never}]]
    BY <1>1, <2>2, <2>4
  <2>6. outbox' \in Seq(GcTasks) /\ Len(outbox') <= 1
    <3>1. outbox \in Seq(GcTasks) /\ Len(outbox) <= 1
      BY DEF Inv, TypeOK
    <3>2. \A task \in GcTasks : <<task>> \in Seq(GcTasks) /\ Len(<<task>>) <= 1
      OBVIOUS
    <3>3. UNCHANGED outbox \/ \E task \in GcTasks : outbox' = <<task>>
      BY <1>1
    <3> QED
      BY <3>1, <3>2, <3>3
  <2>7. \A o \in Queues : done'[o] <= Len(queue'[o])
    BY <1>1, Types DEF Inv, QueuesGrow
  <2> QED
    BY <1>1, <2>1, <2>3, <2>5, <2>6, <2>7 DEF Inv, TypeOK, Queues
<1>11. EventsInv'
  <2>1. ASSUME NEW task \in Tasks' \ Tasks
        PROVE  task.event[1] = GcSlot /\ task.event[2] \in 1 .. Len(queue'[GcSlot])
    <3>1. task \in Range(outbox')
      BY <1>9
    <3>2. outbox' # outbox
      BY <1>1, <2>1 DEF Tasks
    <3>3. PICK t \in GcTasks : outbox' = <<t>> /\ t.event = <<GcSlot, Len(queue'[GcSlot])>>
                               /\ Len(queue'[GcSlot]) > 0
      BY <1>1, <3>2
    <3>4. task = t
      BY <3>1, <3>3, RangeOne
    <3> QED
      BY <1>3, <3>3, <3>4
  <2> QED
    BY <1>1, <2>1, EventsGrow
<1>12. UsesInv'
  <2>1. ASSUME NEW o \in Slots, NEW k \in 1 .. Len(queue'[o])
        PROVE  /\ \A a \in queue'[o][k].uses \cup queue'[o][k].writes : a[2] \in 1 .. gen[a[1]]
               /\ queue'[o][k].kind = "copy" => \A a \in queue'[o][k].writes : Home[a[1]] = o
    <3>1. CASE k \in 1 .. Len(queue[o]) /\ queue'[o][k] = queue[o][k]
      BY <3>1 DEF Inv, UsesInv
    <3>2. CASE o = s /\ k = last
      BY <1>1, <1>2, <3>2 DEF Allocation
    <3>3. CASE o = s /\ k \in Len(queue[s]) + 1 .. last - 1
      BY <1>1, <3>3
    <3> QED
      BY <1>4, <3>1, <3>2, <3>3
  <2> QED
    <3>1. (\A b \in Buffers :
             /\ held[b] => gen[b] > 0
             /\ gen[b] > 0 => Slot(owner[b]) = Home[b])'
      BY <1>21 DEF Inv, UsesInv, Slot
    <3>2. (\A o \in Slots : \A k \in 1 .. Len(queue[o]) :
             /\ \A a \in queue[o][k].uses \cup queue[o][k].writes : a[2] \in 1 .. gen[a[1]]
             /\ queue[o][k].kind = "copy" => \A a \in queue[o][k].writes : Home[a[1]] = o)'
      BY <1>21, <2>1
    <3> QED
      BY <3>1, <3>2 DEF UsesInv
<1>13. OrderInv'
  <2> SUFFICES ASSUME NEW o \in Slots, NEW k \in 1 .. Len(queue'[o]), NEW j \in 1 .. k - 1,
                      NEW a \in queue'[o][j].uses, Precedes(queue'[o][k], a)
               PROVE  FALSE
    BY DEF OrderInv, Precedes
  <2>1. j \in 1 .. Len(queue'[o])
    BY <1>3
  <2>2. a \in Buffers \X Nat /\ a[2] <= gen[a[1]]
    <3>1. CASE j \in 1 .. Len(queue[o]) /\ queue'[o][j] = queue[o][j]
      <4>1. a \in Buffers \X Nat /\ a[2] \in 1 .. gen[a[1]]
        BY <1>5, <3>1
      <4>2. gen[a[1]] \in Nat
        BY <4>1, Types DEF Inv
      <4> QED
        BY <4>1, <4>2
    <3>2. CASE o = s /\ j = last
      BY <1>1, <1>2, <3>2 DEF Allocation
    <3>3. CASE o = s /\ j \in Len(queue[s]) + 1 .. last - 1
      BY <1>1, <3>3
    <3> QED
      BY <1>4, <2>1, <3>1, <3>2, <3>3
  <2>3. k \in 1 .. Len(queue[o]) /\ queue'[o][k] = queue[o][k]
    BY <1>7, <2>2
  <2>4. j \in 1 .. Len(queue[o]) /\ queue'[o][j] = queue[o][j]
    BY <1>3, <2>3
  <2> QED
    BY <2>3, <2>4 DEF Inv, OrderInv
\* What the work uses of other streams is pinned by the task of the step.
<1>14. ASSUME NEW b \in handles, Home[b] # s
       PROVE  Allocation(b) \in pins /\ b \in Foreign(id, handles)
  <2>1. owner[b] # id
    BY <1>1, <1>2, <1>14
  <2> QED
    BY <2>1 DEF Foreign, Pinned, pins
<1>15. PinsInv'
  <2> SUFFICES ASSUME NEW o \in Slots, NEW k \in done'[o] + 1 .. Len(queue'[o]),
                      NEW a \in queue'[o][k].uses, Home[a[1]] # o
               PROVE  PinnedUntil(a, o, k)' /\ a[2] = gen'[a[1]]
    BY DEF PinsInv
  <2>1. k \in 1 .. Len(queue'[o]) /\ k \in done[o] + 1 .. Len(queue'[o])
    BY <1>1, <1>3, Types DEF Inv
  <2>2. CASE k \in 1 .. Len(queue[o]) /\ queue'[o][k] = queue[o][k]
    <3>1. k \in done[o] + 1 .. Len(queue[o])
      BY <2>1, <2>2
    <3>2. PinnedUntil(a, o, k) /\ a[2] = gen[a[1]]
      BY <2>2, <3>1 DEF Inv, PinsInv
    <3> QED
      BY <1>1, <1>9, <3>2, PinnedStays
  <2>3. CASE o = s /\ k = last
    <3>1. PICK b \in handles : a = Allocation(b) /\ Home[b] # s
      BY <1>23, <2>3 DEF Allocation
    <3>2. a \in pins
      BY <1>14, <3>1
    <3>3. PICK task \in GcTasks :
            /\ outbox' = <<task>> /\ task.pins = pins
            /\ task.event = <<GcSlot, Len(queue'[GcSlot])>>
            /\ queue'[GcSlot][Len(queue'[GcSlot])].event = <<s, last>>
      BY <1>1, <3>2
    <3>4. task \in Tasks'
      BY <1>9, <3>3, RangeOne
    <3>5. /\ queue'[GcSlot][task.event[2]].event[1] = o
          /\ queue'[GcSlot][task.event[2]].event[2] >= k
      BY <2>3, <3>3
    <3>6. PinnedUntil(a, o, k)'
      BY <3>2, <3>3, <3>4, <3>5 DEF PinnedUntil
    <3> QED
      BY <1>1, <3>1, <3>6 DEF Allocation
  <2>4. CASE o = s /\ k \in Len(queue[s]) + 1 .. last - 1
    BY <1>1, <2>4
  <2> QED
    BY <1>4, <2>1, <2>2, <2>3, <2>4
<1>16. /\ \A o \in Slots, p \in Slots : synced[o][p] \in Nat \cup {Never}
       /\ \A p \in Slots : cursor[p] \in Nat /\ cursor[p] <= cursor'[p]
       /\ \A o \in Slots, p \in Slots : o # s \/ p \notin origins => synced'[o][p] = synced[o][p]
       /\ \A p \in Slots : p \in origins => synced'[s][p] = cursor[p]
  <2>1. cursor \in [Slots -> Nat] /\ synced \in [Slots -> [Slots -> Nat \cup {Never}]]
    BY Types DEF Inv
  <2>2. \A p \in Slots : cursor[p] \in Nat /\ cursor[p] <= cursor'[p]
    BY <1>1, <2>1
  <2>3. \A o \in Slots, p \in Slots : o # s \/ p \notin origins => synced'[o][p] = synced[o][p]
    BY <1>1, <2>1
  <2>4. \A p \in Slots : p \in origins => synced'[s][p] = cursor[p]
    BY <1>1, <2>1
  <2> QED
    BY <2>1, <2>2, <2>3, <2>4
<1>17. ASSUME NEW o \in Slots, NEW p \in Slots
       PROVE  synced'[o][p] <= cursor'[p]
  <2>1. synced[o][p] <= cursor[p]
    BY DEF Inv, SyncedInv
  <2>2. synced'[o][p] = synced[o][p] \/ synced'[o][p] = cursor[p]
    BY <1>16
  <2>3. synced[o][p] \in Int /\ cursor[p] \in Int /\ cursor'[p] \in Int /\ cursor[p] <= cursor'[p]
    <3>1. cursor' \in [Slots -> Nat]
      BY <1>10, Types DEF TypeOK
    <3> QED
      BY <1>16, <3>1 DEF Never
  <2> QED
    BY <2>1, <2>2, <2>3
\* A wait stays where it is, and what the step waited for is behind it too.
<1>18. /\ \A o \in Slots, p \in Slots : \A j \in Nat :
            Waited(queue[o], Len(queue[o]), p, j) => Waited(queue'[o], Len(queue'[o]), p, j)
       /\ \A p \in origins : \A j \in 1 .. Len(queue[p]) : Waited(queue'[s], last, p, j)
  <2>1. ASSUME NEW o \in Slots, NEW p \in Slots, NEW j \in Nat, Waited(queue[o], Len(queue[o]), p, j)
        PROVE  Waited(queue'[o], Len(queue'[o]), p, j)
    <3>1. /\ Len(queue[o]) \in Nat /\ Len(queue'[o]) \in Nat /\ Len(queue[o]) <= Len(queue'[o])
          /\ \A i \in 1 .. Len(queue[o]) : queue'[o][i] = queue[o][i]
      BY <1>3
    <3> QED
      BY <2>1, <3>1, WaitedStays
  <2>2. ASSUME NEW p \in origins, NEW j \in 1 .. Len(queue[p])
        PROVE  Waited(queue'[s], last, p, j)
    <3>1. Waited(queue'[s], last - 1, p, j)
      BY <1>8
    <3>2. last - 1 \in Nat /\ last - 1 <= last /\ \A i \in 1 .. last - 1 : queue'[s][i] = queue'[s][i]
      BY <1>1, <1>3
    <3> QED
      BY <3>1, <3>2, WaitedStays
  <2> QED
    BY <2>1, <2>2
<1>19. SyncedInv'
  <2> SUFFICES ASSUME NEW o \in Slots, NEW p \in Slots, o # p, NEW b \in Buffers, Home[b] = p,
                      synced'[o][p] >= bound[b], NEW j \in 1 .. Len(queue'[p]),
                      Precedes(queue'[p][j], Allocation(b))
               PROVE  Waited(queue'[o], Len(queue'[o]), p, j)
    <3>1. \A b \in Buffers : Allocation(b)' = Allocation(b) /\ bound'[b] = bound[b]
      BY <1>1 DEF Allocation
    <3> QED
      BY <1>17, <3>1 DEF SyncedInv, Precedes
  <2>1. Allocation(b) \in Buffers \X Nat /\ Allocation(b)[2] <= gen[Allocation(b)[1]]
    BY Types DEF Inv, Allocation
  <2>2. j \in 1 .. Len(queue[p]) /\ queue'[p][j] = queue[p][j]
    BY <1>7, <2>1
  <2>3. CASE o = s /\ p \in origins
    BY <1>1, <1>18, <2>2, <2>3
  <2>4. CASE o # s \/ p \notin origins
    <3>1. synced[o][p] >= bound[b]
      BY <1>16, <2>4
    <3>2. Waited(queue[o], Len(queue[o]), p, j)
      <4>1. SyncedInv
        BY DEF Inv
      <4>2. Precedes(queue[p][j], Allocation(b))
        BY <2>2
      <4> QED
        BY <2>2, <3>1, <4>1, <4>2, Zenon DEF SyncedInv
    <3>3. j \in Nat
      BY <2>2
    <3> QED
      BY <1>18, <3>2, <3>3
  <2> QED
    BY <2>3, <2>4
<1>20. WaitsInv'
  <2> SUFFICES ASSUME NEW o \in Slots, NEW k \in 1 .. Len(queue'[o]), NEW a \in queue'[o][k].uses,
                      Home[a[1]] # o, NEW j \in 1 .. Len(queue'[Home[a[1]]]),
                      Precedes(queue'[Home[a[1]]][j], a)
               PROVE  Waited(queue'[o], k, Home[a[1]], j)
    BY DEF WaitsInv, Precedes
  <2>1. CASE k \in 1 .. Len(queue[o]) /\ queue'[o][k] = queue[o][k]
    <3>1. a \in Buffers \X Nat /\ a[2] \in 1 .. gen[a[1]] /\ Home[a[1]] \in Slots
      BY <1>5, <2>1, SlotsAre
    <3>2. a[2] <= gen[a[1]]
      BY <3>1, Types DEF Inv
    <3>3. j \in 1 .. Len(queue[Home[a[1]]]) /\ queue'[Home[a[1]]][j] = queue[Home[a[1]]][j]
      BY <1>7, <3>1, <3>2
    <3>4. Waited(queue[o], k, Home[a[1]], j)
      BY <2>1, <3>3 DEF Inv, WaitsInv
    <3>5. k \in Nat /\ k <= k /\ \A i \in 1 .. k : queue'[o][i] = queue[o][i]
      BY <1>3, <2>1
    <3>6. \A h : Waited(queue[o], k, h, j) => Waited(queue'[o], k, h, j)
      BY <3>5, WaitedStays
    <3> QED
      BY <3>4, <3>6
  <2>2. CASE o = s /\ k = last
    <3>1. PICK b \in handles : a = Allocation(b)
      BY <1>23, <2>2
    <3>2. /\ b \in Buffers /\ a \in Buffers \X Nat /\ a[2] <= gen[a[1]] /\ a[1] = b
          /\ Home[b] # s /\ Slot(owner[b]) = Home[b] /\ Home[b] \in Slots
      BY <1>2, <2>2, <3>1, SlotsAre DEF Allocation
    <3>3. PICK p \in Slots : p = Home[b]
      BY <3>2
    <3>4. j \in 1 .. Len(queue[p]) /\ queue'[p][j] = queue[p][j]
      BY <1>7, <3>2, <3>3
    <3>5. CASE NotSynced(id, b)
      <4>1. p \in origins
        BY <1>14, <3>2, <3>3, <3>5 DEF Origins, origins
      <4> QED
        BY <1>18, <2>2, <3>2, <3>3, <3>4, <4>1
    <3>6. CASE ~NotSynced(id, b)
      <4>1. synced[s][p] >= bound[b]
        <5>1. ~(synced[s][p] < bound[b])
          BY <1>21, <3>2, <3>3, <3>6 DEF NotSynced
        <5>2. bound[b] \in Int /\ synced[s][p] \in Int
          BY <1>22, <3>2
        <5> QED
          BY <5>1, <5>2
      <4>2. Precedes(queue[p][j], Allocation(b))
        BY <3>1, <3>2, <3>3, <3>4
      <4>3. Waited(queue[s], Len(queue[s]), p, j)
        <5>1. SyncedInv /\ s # p /\ Home[b] = p /\ b \in Buffers /\ j \in 1 .. Len(queue[p])
          BY <3>2, <3>3, <3>4 DEF Inv
        <5> QED
          BY <4>1, <4>2, <5>1, Zenon DEF SyncedInv
      <4>4. j \in Nat /\ Len(queue'[s]) = last
        BY <1>23, <3>4
      <4>5. Waited(queue'[s], last, p, j)
        BY <1>18, <4>3, <4>4
      <4> QED
        BY <2>2, <3>2, <3>3, <4>5
    <3> QED
      BY <3>5, <3>6
  <2>3. CASE o = s /\ k \in Len(queue[s]) + 1 .. last - 1
    BY <1>1, <2>3
  <2> QED
    BY <1>4, <2>1, <2>2, <2>3
<1> QED
  BY <1>10, <1>11, <1>12, <1>13, <1>15, <1>19, <1>20 DEF Inv

-----------------------------------------------------------------------------
(* Steps that enqueue nothing *)

LEMMA QueueUntouched ==
  ASSUME Inv, UNCHANGED queue
  PROVE  /\ OrderInv' /\ WaitsInv'
         /\ UNCHANGED <<synced, cursor, bound, gen>> => SyncedInv'
         /\ UNCHANGED <<gen, owner>> /\ (\A b \in Buffers : held'[b] => held[b]) => UsesInv'
<1>1. OrderInv'
  BY DEF Inv, OrderInv, Precedes
<1>2. WaitsInv'
  <2> SUFFICES ASSUME NEW s \in Slots, NEW k \in 1 .. Len(queue'[s]), NEW a \in queue'[s][k].uses,
                      Home[a[1]] # s, NEW j \in 1 .. Len(queue'[Home[a[1]]]),
                      Precedes(queue'[Home[a[1]]][j], a)
               PROVE  Waited(queue'[s], k, Home[a[1]], j)
    BY DEF WaitsInv, Precedes
  <2> QED
    BY DEF Inv, WaitsInv
<1>3. ASSUME UNCHANGED <<synced, cursor, bound, gen>> PROVE SyncedInv'
  BY <1>3 DEF Inv, SyncedInv, Precedes, Waited, Allocation
<1>4. ASSUME UNCHANGED <<gen, owner>>, \A b \in Buffers : held'[b] => held[b] PROVE UsesInv'
  BY <1>4 DEF Inv, UsesInv, Slot
<1> QED
  BY <1>1, <1>2, <1>3, <1>4

LEMMA TasksUntouched ==
  ASSUME Inv, UNCHANGED <<queue, done>>, Tasks' = Tasks
  PROVE  EventsInv' /\ (UNCHANGED gen => PinsInv')
<1>1. EventsInv'
  BY DEF Inv, EventsInv, Reached
<1>2. ASSUME UNCHANGED gen PROVE PinsInv'
  BY <1>2 DEF Inv, PinsInv, PinnedUntil
<1> QED
  BY <1>1, <1>2

LEMMA DropHandleOK ==
  ASSUME Inv, NEW b \in Buffers, DropHandle(b)
  PROVE  Inv'
<1>1. /\ held' = [held EXCEPT ![b] = FALSE]
      /\ UNCHANGED <<cursor, synced, owner, bound, gen, queue, done, outbox, channel, hand, commands>>
  BY DEF DropHandle, device, gc
<1>2. TypeOK'
  BY <1>1 DEF Inv, TypeOK
<1>3. \A c \in Buffers : held'[c] => held[c]
  BY <1>1 DEF Inv, TypeOK
<1>4. Tasks' = Tasks
  BY <1>1 DEF Tasks
<1> QED
  BY <1>1, <1>2, <1>3, <1>4, QueueUntouched, TasksUntouched DEF Inv

LEMMA RegisterOK ==
  ASSUME Inv, Register
  PROVE  Inv'
<1>1. /\ outbox # <<>> /\ Len(channel) < GcCapacity /\ channel' = channel \o outbox
      /\ outbox' = <<>>
      /\ UNCHANGED <<cursor, synced, owner, bound, gen, held, queue, done, hand, commands>>
  BY DEF Register, memory, device
<1>2. /\ outbox \in Seq(GcTasks) /\ channel \in Seq(GcTasks) /\ Len(outbox) <= 1
      /\ Len(outbox) \in Nat /\ Len(channel) \in Nat /\ GcCapacity \in Nat
  BY PoolAssumption DEF Inv, TypeOK
<1>3. /\ channel' \in Seq(GcTasks) /\ Len(channel') = Len(channel) + Len(outbox)
      /\ Range(channel') = Range(channel) \cup Range(outbox)
  BY <1>1, <1>2, RangeJoins
<1>4. outbox' \in Seq(GcTasks) /\ Len(outbox') = 0
  BY <1>1
<1>5. Len(channel') <= GcCapacity
  BY <1>1, <1>2, <1>3
<1>6. TypeOK'
  BY <1>1, <1>3, <1>4, <1>5 DEF Inv, TypeOK
<1>7. Tasks' = Tasks
  BY <1>1, <1>3, RangeNone DEF Tasks
<1> QED
  BY <1>1, <1>6, <1>7, QueueUntouched, TasksUntouched DEF Inv

LEMMA GcReceiveOK ==
  ASSUME Inv, GcReceive
  PROVE  Inv'
<1>1. /\ hand = <<>> /\ channel # <<>> /\ hand' = <<Head(channel)>> /\ channel' = Tail(channel)
      /\ UNCHANGED <<cursor, synced, owner, bound, gen, held, queue, done, outbox, commands>>
  BY DEF GcReceive, memory, device
<1>2. channel \in Seq(GcTasks) /\ Len(channel) <= GcCapacity /\ Len(channel) \in Nat /\ GcCapacity \in Nat
  BY PoolAssumption DEF Inv, TypeOK
<1>3. /\ Head(channel) \in GcTasks /\ channel' \in Seq(GcTasks) /\ Len(channel') = Len(channel) - 1
      /\ Range(channel) = {Head(channel)} \cup Range(channel')
  BY <1>1, <1>2, RangeSplits
<1>4. hand' \in Seq(GcTasks) /\ Len(hand') = 1
  BY <1>1, <1>3
<1>5. Len(channel') <= GcCapacity
  BY <1>2, <1>3
<1>6. TypeOK'
  BY <1>1, <1>3, <1>4, <1>5 DEF Inv, TypeOK
<1>7. Tasks' = Tasks
  BY <1>1, <1>3, RangeNone, RangeOne DEF Tasks
<1> QED
  BY <1>1, <1>6, <1>7, QueueUntouched, TasksUntouched DEF Inv

\* A task is dropped once the thread's stream is past its wait, that is, once
\* the work the task pins for has run.
LEMMA GcDropOK ==
  ASSUME Inv, GcDrop
  PROVE  Inv'
<1>1. /\ hand # <<>> /\ Reached(hand[1].event) /\ hand' = <<>>
      /\ UNCHANGED <<cursor, synced, owner, bound, gen, held, queue, done, outbox, channel, commands>>
  BY DEF GcDrop, memory, device
<1>2. hand \in Seq(GcTasks) /\ Len(hand) <= 1
  BY DEF Inv, TypeOK
<1>3. Range(hand) = {hand[1]}
  <2>1. Len(hand) \in Nat /\ Len(hand) # 0
    BY <1>1, <1>2
  <2>2. 1 .. Len(hand) = {1}
    BY <1>2, <2>1
  <2>3. \A x : x \in Range(hand) <=> x \in {hand[1]}
    BY <1>2, <2>2, RangeOf
  <2> QED
    BY <2>3, Zenon
<1>4. Tasks' \subseteq Tasks /\ Tasks \subseteq Tasks' \cup {hand[1]} /\ hand[1] \in Tasks
  BY <1>1, <1>3, RangeNone DEF Tasks
<1>5. TypeOK'
  <2>1. hand' \in Seq(GcTasks) /\ Len(hand') = 0
    BY <1>1
  <2> QED
    BY <1>1, <2>1 DEF Inv, TypeOK
<1>6. EventsInv'
  BY <1>1, <1>4 DEF Inv, EventsInv, Reached
<1>7. PinsInv'
  <2> SUFFICES ASSUME NEW s \in Slots, NEW k \in done[s] + 1 .. Len(queue[s]),
                      NEW a \in queue[s][k].uses, Home[a[1]] # s
               PROVE  PinnedUntil(a, s, k)' /\ a[2] = gen[a[1]]
    BY <1>1 DEF PinsInv
  <2>1. PinnedUntil(a, s, k) /\ a[2] = gen[a[1]]
    BY DEF Inv, PinsInv
  <2>2. PICK task \in Tasks : /\ a \in task.pins
                              /\ queue[GcSlot][task.event[2]].event[1] = s
                              /\ queue[GcSlot][task.event[2]].event[2] >= k
    BY <2>1 DEF PinnedUntil
  <2>3. task # hand[1]
    <3> SUFFICES ASSUME task = hand[1] PROVE FALSE
      OBVIOUS
    <3>1. task.event[1] = GcSlot /\ task.event[2] \in 1 .. Len(queue[GcSlot])
      BY DEF Inv, EventsInv
    <3>2. done[GcSlot] >= task.event[2]
      BY <1>1, <3>1 DEF Reached
    <3>3. GcSlot \in Queues /\ s \in Queues
      BY DEF Queues
    <3>4. /\ done[GcSlot] \in Nat /\ done[s] \in Nat
          /\ queue[GcSlot][task.event[2]] \in Entries
      BY <3>1, <3>3, Types DEF Inv
    <3>5. Reached(queue[GcSlot][task.event[2]].event)
      BY <3>1, <3>2, <3>3, <3>4 DEF Inv, EventsInv
    <3>6. queue[GcSlot][task.event[2]].event[2] \in Nat
      BY <3>4 DEF Entries
    <3>7. k \in Nat /\ k > done[s]
      BY <3>3, <3>4, Types DEF Inv
    <3>8. done[s] >= queue[GcSlot][task.event[2]].event[2]
      BY <2>2, <3>5 DEF Reached
    <3>9. queue[GcSlot][task.event[2]].event[2] >= k /\ done[s] \in Nat
      BY <2>2, <3>4
    <3> QED
      BY <3>6, <3>7, <3>8, <3>9
  <2>4. task \in Tasks'
    BY <1>4, <2>3
  <2> QED
    BY <1>1, <2>1, <2>2, <2>4 DEF PinnedUntil
<1> QED
  BY <1>1, <1>5, <1>6, <1>7, QueueUntouched DEF Inv

\* An entry runs once what it waits for is reached, which stays reached.
LEMMA ExecuteOK ==
  ASSUME Inv, NEW s \in Queues, Execute(s)
  PROVE  Inv'
<1>1. /\ done[s] < Len(queue[s]) /\ Reached(queue[s][done[s] + 1].event)
      /\ done' = [done EXCEPT ![s] = @ + 1]
      /\ UNCHANGED <<cursor, synced, owner, bound, gen, held, queue, outbox, channel, hand, commands>>
  BY DEF Execute, memory, gc
<1>2. /\ done \in [Queues -> Nat] /\ queue \in [Queues -> Seq(Entries)]
      /\ \A o \in Queues : done[o] <= Len(queue[o]) /\ Len(queue[o]) \in Nat
      /\ \A o \in Queues : \A k \in 1 .. Len(queue[o]) : queue[o][k] \in Entries
  BY Types DEF Inv
<1>3. /\ done' \in [Queues -> Nat] /\ \A o \in Queues : done'[o] >= done[o]
      /\ \A o \in Queues : o # s => done'[o] = done[o]
      /\ done'[s] = done[s] + 1
  BY <1>1, <1>2
<1>4. Tasks' = Tasks
  BY <1>1 DEF Tasks
<1>5. TypeOK'
  <2>1. \A o \in Queues : done'[o] <= Len(queue[o])
    BY <1>1, <1>2, <1>3
  <2> QED
    BY <1>1, <1>3, <2>1 DEF Inv, TypeOK, Queues
<1>6. EventsInv'
  <2>1. ASSUME NEW o \in Queues, NEW k \in 1 .. done'[o] PROVE Reached(queue[o][k].event)
    <3>1. CASE k \in 1 .. done[o]
      BY <3>1 DEF Inv, EventsInv
    <3>2. CASE k \notin 1 .. done[o]
      <4>1. o = s /\ k = done[s] + 1
        BY <1>2, <1>3, <3>2
      <4> QED
        BY <1>1, <4>1
    <3> QED
      BY <3>1, <3>2
  <2>2. ASSUME NEW o \in Queues, NEW k \in 1 .. done'[o] PROVE Reached(queue[o][k].event)'
    <3>1. k \in 1 .. Len(queue[o])
      BY <1>1, <1>2, <1>3
    <3>2. queue[o][k].event \in Queues \X Nat
      BY <1>2, <3>1 DEF Entries, Queues
    <3>3. done[queue[o][k].event[1]] >= queue[o][k].event[2]
      BY <2>1 DEF Reached
    <3>4. done'[queue[o][k].event[1]] >= queue[o][k].event[2]
      BY <1>2, <1>3, <3>2, <3>3
    <3> QED
      BY <1>1, <3>4 DEF Reached
  <2> QED
    BY <1>1, <1>4, <2>2 DEF Inv, EventsInv
<1>7. PinsInv'
  <2> SUFFICES ASSUME NEW o \in Slots, NEW k \in done'[o] + 1 .. Len(queue[o]),
                      NEW a \in queue[o][k].uses, Home[a[1]] # o
               PROVE  PinnedUntil(a, o, k)' /\ a[2] = gen[a[1]]
    BY <1>1 DEF PinsInv
  <2>1. k \in done[o] + 1 .. Len(queue[o])
    BY <1>2, <1>3 DEF Queues
  <2>2. PinnedUntil(a, o, k) /\ a[2] = gen[a[1]]
    BY <2>1 DEF Inv, PinsInv
  <2> QED
    BY <1>1, <1>4, <2>2 DEF PinnedUntil
<1> QED
  BY <1>1, <1>5, <1>6, <1>7, QueueUntouched DEF Inv

-----------------------------------------------------------------------------
(* Allocation *)

\* A slice is allocated again only when no other stream has work for it.
LEMMA BindIs ==
  ASSUME Inv, Dedicated = {}, NEW id \in StreamIds, NEW b \in Buffers,
         Bind(id, b, cursor[Slot(id)] + 1)
  PROVE  /\ Home[b] = Slot(id) /\ Slot(id) \in Slots
         /\ owner' \in [Buffers -> StreamIds] /\ owner'[b] = id
         /\ bound' \in [Buffers -> Nat] /\ bound'[b] = cursor[Slot(id)] + 1
         /\ gen' \in [Buffers -> Nat] /\ gen'[b] = gen[b] + 1
         /\ held' \in [Buffers -> BOOLEAN]
         /\ \A c \in Buffers \ {b} : /\ owner'[c] = owner[c] /\ bound'[c] = bound[c]
                                     /\ gen'[c] = gen[c] /\ held'[c] = held[c]
         /\ \A s \in Slots : \A k \in done[s] + 1 .. Len(queue[s]) :
              \A a \in queue[s][k].uses : Home[a[1]] # s => a[1] # b
<1>1. /\ Home[b] = Slot(id) /\ Free(b) /\ Slot(id) \in Slots
      /\ owner' = [owner EXCEPT ![b] = id]
      /\ bound' = [bound EXCEPT ![b] = cursor[Slot(id)] + 1]
      /\ gen' = [gen EXCEPT ![b] = @ + 1]
      /\ held' = [held EXCEPT ![b] = TRUE]
  BY SlotsAre DEF Bind
<1>2. /\ owner \in [Buffers -> StreamIds] /\ bound \in [Buffers -> Nat]
      /\ gen \in [Buffers -> Nat] /\ held \in [Buffers -> BOOLEAN] /\ cursor[Slot(id)] \in Nat
  BY <1>1, Types DEF Inv
<1>3. ASSUME NEW s \in Slots, NEW k \in done[s] + 1 .. Len(queue[s]),
             NEW a \in queue[s][k].uses, Home[a[1]] # s, a[1] = b
      PROVE  FALSE
  <2>1. PinnedUntil(a, s, k) /\ a[2] = gen[a[1]]
    BY <1>3 DEF Inv, PinsInv
  <2>2. k \in 1 .. Len(queue[s])
    BY Types DEF Inv, Queues
  <2>3. queue[s][k] \in Entries
    BY <2>2, Types DEF Inv, Queues
  <2>4. a \in Buffers \X Nat
    BY <2>3 DEF Entries
  <2>5. a = Allocation(b)
    BY <1>3, <2>1, <2>4 DEF Allocation
  <2>6. a \in Pins
    BY <2>1 DEF PinnedUntil, Pins
  <2> QED
    BY <1>1, <2>5, <2>6 DEF Free
<1>4. owner' \in [Buffers -> StreamIds] /\ gen' \in [Buffers -> Nat]
  BY <1>1, <1>2
<1>5. bound' \in [Buffers -> Nat] /\ held' \in [Buffers -> BOOLEAN]
  BY <1>1, <1>2
<1> QED
  BY <1>1, <1>2, <1>3, <1>4, <1>5

LEMMA GensGrow ==
  ASSUME Inv, Dedicated = {}, NEW id \in StreamIds, NEW b \in Buffers,
         Bind(id, b, cursor[Slot(id)] + 1), NEW c \in Buffers
  PROVE  gen[c] \in Nat /\ gen'[c] \in Nat /\ gen'[c] >= gen[c]
<1>1. gen[c] \in Nat /\ gen[b] \in Nat
  BY Types DEF Inv
<1>2. gen'[b] = gen[b] + 1 /\ (c # b => gen'[c] = gen[c])
  BY BindIs
<1> QED
  BY <1>1, <1>2

\* The invariants that speak of the slices, after an allocation.
LEMMA BindOK ==
  ASSUME Inv, Dedicated = {}, NEW id \in StreamIds, NEW b \in Buffers,
         Bind(id, b, cursor[Slot(id)] + 1), UNCHANGED <<synced, done, outbox, channel, hand>>,
         NEW n \in Nat, n >= 1, cursor' = [cursor EXCEPT ![Slot(id)] = @ + n]
  PROVE  /\ \A s, o \in Slots : synced'[s][o] <= cursor'[o]
         /\ \A s \in Slots : synced'[s][Home[b]] < bound'[b]
         /\ cursor' \in [Slots -> Nat] /\ Tasks' = Tasks
<1>1. /\ cursor \in [Slots -> Nat] /\ synced \in [Slots -> [Slots -> Nat \cup {Never}]]
      /\ \A s, o \in Slots : synced[s][o] <= cursor[o]
  BY Types DEF Inv, SyncedInv
<1>2. Home[b] = Slot(id) /\ Slot(id) \in Slots /\ bound'[b] = cursor[Slot(id)] + 1
  BY BindIs
<1>3. cursor' \in [Slots -> Nat] /\ \A o \in Slots : cursor'[o] >= cursor[o]
  BY <1>1, <1>2
<1>4. \A s, o \in Slots : synced[s][o] \in Nat \cup {Never}
  BY <1>1
<1>5. \A s, o \in Slots : synced[s][o] <= cursor'[o]
  BY <1>1, <1>3, <1>4 DEF Never
<1>6. \A s \in Slots : synced[s][Home[b]] < bound'[b]
  BY <1>1, <1>2, <1>4 DEF Never
<1>7. Tasks' = Tasks
  BY DEF Tasks
<1> QED
  BY <1>3, <1>5, <1>6, <1>7

LEMMA BindUses ==
  ASSUME Inv, Dedicated = {}, NEW id \in StreamIds, NEW b \in Buffers,
         Bind(id, b, cursor[Slot(id)] + 1)
  PROVE  /\ \A s \in Slots : \A k \in 1 .. Len(queue[s]) :
              \A a \in queue[s][k].uses \cup queue[s][k].writes : a[2] \in 1 .. gen'[a[1]]
         /\ \A c \in Buffers :
              (held'[c] => gen'[c] > 0) /\ (gen'[c] > 0 => Slot(owner'[c]) = Home[c])
         /\ \A s \in Slots : \A k \in done[s] + 1 .. Len(queue[s]) : \A a \in queue[s][k].uses :
              Home[a[1]] # s => PinnedUntil(a, s, k) /\ a[2] = gen'[a[1]]
<1>1. \A s \in Slots : \A k \in 1 .. Len(queue[s]) :
        \A a \in queue[s][k].uses \cup queue[s][k].writes : a \in Buffers \X Nat
  BY Types DEF Inv, Queues, Entries
<1>2. ASSUME NEW s \in Slots, NEW k \in 1 .. Len(queue[s]),
             NEW a \in queue[s][k].uses \cup queue[s][k].writes
      PROVE  a[2] \in 1 .. gen'[a[1]]
  <2>1. a[1] \in Buffers
    BY <1>1
  <2>2. a[2] \in 1 .. gen[a[1]]
    BY DEF Inv, UsesInv
  <2> QED
    BY <2>1, <2>2, GensGrow
<1>3. ASSUME NEW c \in Buffers
      PROVE  (held'[c] => gen'[c] > 0) /\ (gen'[c] > 0 => Slot(owner'[c]) = Home[c])
  <2>1. CASE c = b
    BY <2>1, BindIs, GensGrow
  <2>2. CASE c # b
    <3>1. held'[c] = held[c] /\ gen'[c] = gen[c] /\ owner'[c] = owner[c]
      BY <2>2, BindIs
    <3>2. (held[c] => gen[c] > 0) /\ (gen[c] > 0 => Slot(owner[c]) = Home[c])
      BY DEF Inv, UsesInv
    <3> QED
      BY <3>1, <3>2
  <2> QED
    BY <2>1, <2>2
<1>4. ASSUME NEW s \in Slots, NEW k \in done[s] + 1 .. Len(queue[s]),
             NEW a \in queue[s][k].uses, Home[a[1]] # s
      PROVE  PinnedUntil(a, s, k) /\ a[2] = gen'[a[1]]
  <2>1. PinnedUntil(a, s, k) /\ a[2] = gen[a[1]]
    BY <1>4 DEF Inv, PinsInv
  <2>2. k \in 1 .. Len(queue[s])
    BY Types DEF Inv, Queues
  <2>3. a[1] \in Buffers \ {b}
    BY <1>1, <1>4, <2>2, BindIs
  <2>4. gen'[a[1]] = gen[a[1]]
    BY <2>3, BindIs
  <2> QED
    BY <2>1, <2>4
<1> QED
  BY <1>2, <1>3, <1>4

LEMMA EmptyOK ==
  ASSUME Inv, Dedicated = {}, NEW id \in StreamIds, NEW b \in Buffers, Empty(id, b)
  PROVE  Inv'
<1>1. /\ ServerReady /\ Bind(id, b, cursor[Slot(id)] + 1)
      /\ cursor' = [cursor EXCEPT ![Slot(id)] = @ + 1] /\ commands' = commands + 1
      /\ UNCHANGED <<synced, queue, done, outbox, channel, hand>>
  BY DEF Empty, device, gc
<1>2. /\ \A s, o \in Slots : synced'[s][o] <= cursor'[o]
      /\ \A s \in Slots : synced'[s][Home[b]] < bound'[b]
      /\ cursor' \in [Slots -> Nat] /\ Tasks' = Tasks
  <2>1. 1 \in Nat /\ 1 >= 1
    OBVIOUS
  <2> QED
    BY <1>1, <2>1, BindOK
<1>7. /\ owner' \in [Buffers -> StreamIds] /\ bound' \in [Buffers -> Nat]
      /\ gen' \in [Buffers -> Nat] /\ held' \in [Buffers -> BOOLEAN]
      /\ \A c \in Buffers \ {b} : bound'[c] = bound[c] /\ gen'[c] = gen[c]
  BY <1>1, BindIs
<1>8. (\A c \in Buffers :
         /\ held[c] => gen[c] > 0
         /\ gen[c] > 0 => Slot(owner[c]) = Home[c])'
  BY <1>1, BindUses DEF Slot
<1>9. /\ \A o \in Slots, p \in Slots : synced[o][p] \in Nat \cup {Never} /\ synced'[o][p] = synced[o][p]
      /\ \A o \in Slots : synced[o][Home[b]] < bound'[b]
  BY <1>1, <1>2, Types DEF Inv
<1>3. TypeOK'
  <2>1. commands' \in 0 .. MaxCommands
    BY <1>1, PoolAssumption DEF Inv, TypeOK, ServerReady
  <2> QED
    BY <1>1, <1>2, <1>7, <2>1 DEF Inv, TypeOK
<1>4. UsesInv'
  <2>1. \A s \in Slots : \A k \in 1 .. Len(queue[s]) :
          \A a \in queue[s][k].uses \cup queue[s][k].writes : a[2] \in 1 .. gen'[a[1]]
    BY <1>1, BindUses
  <2>2. \A s \in Slots : \A k \in 1 .. Len(queue[s]) :
          queue[s][k].kind = "copy" => \A a \in queue[s][k].writes : Home[a[1]] = s
    BY DEF Inv, UsesInv
  <2>3. queue' = queue
    BY <1>1
  <2> QED
    BY <1>8, <2>1, <2>2, <2>3 DEF UsesInv
<1>5. PinsInv'
  <2>1. \A s \in Slots : \A k \in done[s] + 1 .. Len(queue[s]) : \A a \in queue[s][k].uses :
          Home[a[1]] # s => PinnedUntil(a, s, k) /\ a[2] = gen'[a[1]]
    BY <1>1, BindUses
  <2>2. queue' = queue /\ done' = done /\ Tasks' = Tasks
    BY <1>1, <1>2
  <2>3. \A a, s, k : PinnedUntil(a, s, k) => PinnedUntil(a, s, k)'
    BY <2>2 DEF PinnedUntil
  <2> SUFFICES ASSUME NEW s \in Slots, NEW k \in done'[s] + 1 .. Len(queue'[s]),
                      NEW a \in queue'[s][k].uses, Home[a[1]] # s
               PROVE  PinnedUntil(a, s, k)' /\ a[2] = gen'[a[1]]
    BY DEF PinsInv
  <2> QED
    BY <2>1, <2>2, <2>3
<1>6. SyncedInv'
  <2> SUFFICES ASSUME NEW s \in Slots, NEW o \in Slots, s # o, NEW c \in Buffers, Home[c] = o,
                      synced[s][o] >= bound'[c], NEW j \in 1 .. Len(queue[o]),
                      Precedes(queue[o][j], Allocation(c)')
               PROVE  Waited(queue[s], Len(queue[s]), o, j)
    BY <1>1, <1>2 DEF SyncedInv
  <2>1. synced[s][o] \in Nat \cup {Never} /\ bound'[c] \in Nat
    BY <1>7, <1>9
  <2>2. c # b
    BY <1>9, <2>1 DEF Never
  <2>3. bound'[c] = bound[c] /\ Allocation(c)' = Allocation(c)
    BY <1>7, <2>2 DEF Allocation
  <2> QED
    BY <2>3 DEF Inv, SyncedInv
<1> QED
  BY <1>1, <1>2, <1>3, <1>4, <1>5, <1>6, QueueUntouched, TasksUntouched DEF Inv

-----------------------------------------------------------------------------

\* The entry that fills a buffer is the first that uses the new allocation.
LEMMA CreateIs ==
  ASSUME Inv, Dedicated = {}, NEW id \in StreamIds, NEW b \in Buffers, Create(id, b)
  PROVE  /\ ServerReady /\ Bind(id, b, cursor[Slot(id)] + 1)
         /\ cursor' = [cursor EXCEPT ![Slot(id)] = @ + 2] /\ commands' = commands + 1
         /\ UNCHANGED <<synced, done, outbox, channel, hand>>
         /\ queue' \in [Queues -> Seq(Entries)] /\ QueuesGrow
         /\ \A s \in Queues : s # Slot(id) => queue'[s] = queue[s]
         /\ Len(queue'[Slot(id)]) = Len(queue[Slot(id)]) + 1
         /\ LET e == queue'[Slot(id)][Len(queue[Slot(id)]) + 1]
            IN  /\ e.uses = {<<b, gen[b] + 1>>} /\ e.writes = {<<b, gen[b] + 1>>}
                /\ e.kind = "copy"
<1> DEFINE s == Slot(id)
           new == {<<b, gen[b] + 1>>}
           e == Work("copy", new, new)
<1>1. /\ ServerReady /\ Bind(id, b, cursor[s] + 1)
      /\ cursor' = [cursor EXCEPT ![s] = @ + 2] /\ commands' = commands + 1
      /\ queue' = [queue EXCEPT ![s] = Append(@, e)]
      /\ UNCHANGED <<synced, done, outbox, channel, hand>>
  BY DEF Create, gc
<1>2. s \in Slots /\ s \in Queues /\ GcSlot \in Queues
  BY SlotsAre DEF Queues
<1>3. queue \in [Queues -> Seq(Entries)] /\ gen[b] \in Nat /\ commands \in Nat
  BY Types, PoolAssumption DEF Inv, TypeOK
<1>4. e.uses = new /\ e.writes = new /\ e.kind = "copy"
  BY DEF Work
<1>5. e \in Entries
  <2>1. new \subseteq Buffers \X Nat
    BY <1>3
  <2>2. NoEvent \in Queues \X Nat
    BY <1>2 DEF NoEvent
  <2> HIDE DEF new
  <2> QED
    BY <1>3, <2>1, <2>2 DEF Work, Entries, Queues
<1> HIDE DEF e, s
<1>6. /\ Append(queue[s], e) \in Seq(Entries)
      /\ Len(Append(queue[s], e)) = Len(queue[s]) + 1
      /\ \A k \in 1 .. Len(queue[s]) : Append(queue[s], e)[k] = queue[s][k]
      /\ Append(queue[s], e)[Len(queue[s]) + 1] = e
  BY <1>2, <1>3, <1>5, GrownByOne
<1>7. /\ queue'[s] = Append(queue[s], e)
      /\ \A o \in Queues : o # s => queue'[o] = queue[o]
  BY <1>1, <1>2, <1>3
<1>8. queue' \in [Queues -> Seq(Entries)]
  BY <1>1, <1>2, <1>3, <1>6
<1>9. QueuesGrow
  <2> SUFFICES ASSUME NEW o \in Queues
               PROVE  /\ Len(queue'[o]) \in Nat /\ Len(queue[o]) <= Len(queue'[o])
                      /\ \A k \in 1 .. Len(queue[o]) : queue'[o][k] = queue[o][k]
    BY DEF QueuesGrow
  <2>1. Len(queue[o]) \in Nat
    BY Types DEF Inv
  <2>2. CASE o = s
    BY <1>6, <1>7, <2>1, <2>2
  <2>3. CASE o # s
    BY <1>7, <2>1, <2>3
  <2> QED
    BY <2>2, <2>3
<1> QED
  BY <1>1, <1>4, <1>6, <1>7, <1>8, <1>9 DEF s

\* What Create leaves behind: the new entry is the last one of stream s.
Created(b, s, last) ==
  /\ ServerReady /\ commands' = commands + 1 /\ UNCHANGED <<synced, done, outbox, channel, hand>>
  /\ cursor' \in [Slots -> Nat] /\ Tasks' = Tasks
  /\ queue' \in [Queues -> Seq(Entries)] /\ QueuesGrow
  /\ last = Len(queue[s]) + 1 /\ Len(queue'[s]) = last
  /\ queue'[s][last].uses = {<<b, gen[b] + 1>>} /\ queue'[s][last].writes = {<<b, gen[b] + 1>>}
  /\ queue'[s][last].kind = "copy"
  /\ \A o \in Slots : \A k \in 1 .. Len(queue'[o]) :
       \/ k \in 1 .. Len(queue[o]) /\ queue'[o][k] = queue[o][k]
       \/ o = s /\ k = last
  /\ Home[b] = s /\ gen'[b] = gen[b] + 1
  /\ owner' \in [Buffers -> StreamIds] /\ bound' \in [Buffers -> Nat]
  /\ gen' \in [Buffers -> Nat] /\ held' \in [Buffers -> BOOLEAN]
  /\ \A c \in Buffers \ {b} : bound'[c] = bound[c] /\ gen'[c] = gen[c]
  /\ \A o \in Slots, p \in Slots : synced[o][p] <= cursor'[p]
  /\ \A o \in Slots : synced[o][s] < bound'[b]

LEMMA CreatedIs ==
  ASSUME Inv, Dedicated = {}, NEW id \in StreamIds, NEW b \in Buffers, Create(id, b)
  PROVE  /\ Bind(id, b, cursor[Slot(id)] + 1)
         /\ \E s \in Slots, last \in Nat : Created(b, s, last)
<1>1. PICK s \in Slots : s = Slot(id)
  BY SlotsAre
<1>2. PICK last \in Nat : last = Len(queue[s]) + 1
  <2>1. Len(queue[s]) + 1 \in Nat
    BY Types DEF Inv, Queues
  <2> QED
    BY <2>1
<1>3. /\ ServerReady /\ Bind(id, b, cursor[Slot(id)] + 1)
      /\ cursor' = [cursor EXCEPT ![Slot(id)] = @ + 2] /\ commands' = commands + 1
      /\ UNCHANGED <<synced, done, outbox, channel, hand>>
      /\ queue' \in [Queues -> Seq(Entries)] /\ QueuesGrow
      /\ \A o \in Queues : o # s => queue'[o] = queue[o]
  BY <1>1, CreateIs
<1>4. /\ Len(queue'[s]) = last
      /\ queue'[s][last].uses = {<<b, gen[b] + 1>>}
      /\ queue'[s][last].writes = {<<b, gen[b] + 1>>}
      /\ queue'[s][last].kind = "copy"
  BY <1>1, <1>2, CreateIs
<1>5. /\ Home[b] = s /\ gen'[b] = gen[b] + 1
      /\ owner' \in [Buffers -> StreamIds] /\ bound' \in [Buffers -> Nat]
      /\ gen' \in [Buffers -> Nat] /\ held' \in [Buffers -> BOOLEAN]
      /\ \A c \in Buffers \ {b} : bound'[c] = bound[c] /\ gen'[c] = gen[c]
  BY <1>1, <1>3, BindIs
<1>6. /\ \A o \in Slots, p \in Slots : synced'[o][p] <= cursor'[p]
      /\ \A o \in Slots : synced'[o][Home[b]] < bound'[b]
      /\ cursor' \in [Slots -> Nat] /\ Tasks' = Tasks
  <2>1. 2 \in Nat /\ 2 >= 1
    OBVIOUS
  <2> QED
    BY <1>3, <2>1, BindOK
<1>7. \A o \in Slots : \A k \in 1 .. Len(queue'[o]) :
        \/ k \in 1 .. Len(queue[o]) /\ queue'[o][k] = queue[o][k]
        \/ o = s /\ k = last
  <2>1. \A o \in Slots : o \in Queues /\ Len(queue[o]) \in Nat
    BY Types DEF Inv, Queues
  <2>2. ASSUME NEW o \in Slots, NEW k \in 1 .. Len(queue'[o]), ~(o = s /\ k = last)
        PROVE  k \in 1 .. Len(queue[o])
    BY <1>2, <1>3, <1>4, <2>1, <2>2
  <2> QED
    BY <1>3, <2>1, <2>2 DEF QueuesGrow
<1>8. Created(b, s, last)
  BY <1>2, <1>3, <1>4, <1>5, <1>6, <1>7 DEF Created
<1> QED
  BY <1>3, <1>8

LEMMA CreateTypes ==
  ASSUME Inv, NEW b \in Buffers, NEW s \in Slots, NEW last \in Nat, Created(b, s, last)
  PROVE  TypeOK' /\ EventsInv'
<1>1. commands' \in 0 .. MaxCommands
  <2>1. ServerReady /\ commands' = commands + 1
    BY DEF Created
  <2> QED
    BY <2>1, PoolAssumption DEF Inv, TypeOK, ServerReady
<1>2. \A o \in Queues : done'[o] <= Len(queue'[o])
  <2>1. QueuesGrow /\ UNCHANGED done
    BY DEF Created
  <2> QED
    BY <2>1, Types DEF Inv, QueuesGrow
<1>3. TypeOK'
  BY <1>1, <1>2 DEF Created, Inv, TypeOK, Queues
<1> QED
  BY <1>3, EventsGrow DEF Created

\* Nothing that was enqueued uses the allocation the new entry fills.
LEMMA CreatedLast ==
  ASSUME Inv, NEW b \in Buffers, NEW s \in Slots, NEW last \in Nat, Created(b, s, last)
  PROVE  /\ \A o \in Slots : \A k \in 1 .. Len(queue[o]) :
              \A a \in queue[o][k].uses \cup queue[o][k].writes :
                a \in Buffers \X Nat /\ a[2] \in 1 .. gen[a[1]] /\ a[2] <= gen[a[1]]
         /\ \A a \in Buffers \X Nat : a[2] <= gen[a[1]] => ~Precedes(queue'[s][last], a)
<1>1. \A o \in Slots : \A k \in 1 .. Len(queue[o]) : queue[o][k] \in Entries
  BY Types DEF Inv, Queues
<1>2. \A o \in Slots : \A k \in 1 .. Len(queue[o]) : \A a \in queue[o][k].uses \cup queue[o][k].writes :
        a \in Buffers \X Nat /\ a[2] \in 1 .. gen[a[1]]
  BY <1>1 DEF Inv, UsesInv, Entries
<1>3. gen \in [Buffers -> Nat]
  BY Types DEF Inv
<1>4. ASSUME NEW a \in Buffers \X Nat, a[2] <= gen[a[1]]
      PROVE  ~Precedes(queue'[s][last], a)
  <2>1. /\ queue'[s][last].uses = {<<b, gen[b] + 1>>}
        /\ queue'[s][last].writes = {<<b, gen[b] + 1>>}
    BY DEF Created
  <2>2. a # <<b, gen[b] + 1>> /\ ~(b = a[1] /\ gen[b] + 1 < a[2])
    BY <1>3, <1>4
  <2>3. \A u \in queue'[s][last].uses : ~(u[1] = a[1] /\ u[2] < a[2])
    BY <2>1, <2>2
  <2>4. a \notin queue'[s][last].writes
    BY <2>1, <2>2
  <2> QED
    BY <2>3, <2>4 DEF Precedes
<1> QED
  BY <1>2, <1>3, <1>4

LEMMA CreateUses ==
  ASSUME Inv, Dedicated = {}, NEW id \in StreamIds, NEW b \in Buffers, Create(id, b),
         NEW s \in Slots, NEW last \in Nat, Created(b, s, last)
  PROVE  UsesInv'
<1>1. Bind(id, b, cursor[Slot(id)] + 1)
  BY CreatedIs
<1>2. (\A c \in Buffers :
         /\ held[c] => gen[c] > 0
         /\ gen[c] > 0 => Slot(owner[c]) = Home[c])'
  BY <1>1, BindUses DEF Slot
<1>3. ASSUME NEW o \in Slots, NEW k \in 1 .. Len(queue'[o])
      PROVE  /\ \A a \in queue'[o][k].uses \cup queue'[o][k].writes : a[2] \in 1 .. gen'[a[1]]
             /\ queue'[o][k].kind = "copy" => \A a \in queue'[o][k].writes : Home[a[1]] = o
  <2>1. CASE k \in 1 .. Len(queue[o]) /\ queue'[o][k] = queue[o][k]
    <3>1. \A a \in queue[o][k].uses \cup queue[o][k].writes : a[2] \in 1 .. gen'[a[1]]
      BY <1>1, <2>1, BindUses
    <3>2. queue[o][k].kind = "copy" => \A a \in queue[o][k].writes : Home[a[1]] = o
      BY <2>1 DEF Inv, UsesInv
    <3> QED
      BY <2>1, <3>1, <3>2
  <2>2. CASE o = s /\ k = last
    <3>1. gen[b] \in Nat
      BY Types DEF Inv
    <3>2. /\ queue'[o][k].uses = {<<b, gen[b] + 1>>} /\ queue'[o][k].writes = {<<b, gen[b] + 1>>}
          /\ Home[b] = o /\ gen'[b] = gen[b] + 1
      BY <2>2 DEF Created
    <3> QED
      BY <3>1, <3>2
  <2> QED
    BY <2>1, <2>2 DEF Created
<1> QED
  BY <1>2, <1>3 DEF UsesInv

LEMMA CreateOrder ==
  ASSUME Inv, NEW b \in Buffers, NEW s \in Slots, NEW last \in Nat, Created(b, s, last)
  PROVE  OrderInv'
<1>0. /\ \A o \in Slots : \A k \in 1 .. Len(queue'[o]) :
           \/ k \in 1 .. Len(queue[o]) /\ queue'[o][k] = queue[o][k]
           \/ o = s /\ k = last
      /\ Home[b] = s /\ queue'[s][last].uses = {<<b, gen[b] + 1>>}
      /\ QueuesGrow /\ last = Len(queue[s]) + 1 /\ Len(queue'[s]) = last
  BY DEF Created
<1> SUFFICES ASSUME NEW o \in Slots, NEW k \in 1 .. Len(queue'[o]), NEW j \in 1 .. k - 1,
                    NEW a \in queue'[o][j].uses
             PROVE  ~Precedes(queue'[o][k], a)
  BY DEF OrderInv, Precedes
<1>1. o \in Queues /\ Len(queue[o]) \in Nat
  BY Types DEF Inv, Queues
<1>2. j \in 1 .. Len(queue[o]) /\ queue'[o][j] = queue[o][j]
  <2>1. \A i \in 1 .. Len(queue[o]) : queue'[o][i] = queue[o][i]
    BY <1>0, <1>1 DEF QueuesGrow
  <2>2. k \in 1 .. Len(queue[o]) \/ (o = s /\ k = last)
    BY <1>0
  <2>3. last = Len(queue[s]) + 1
    BY <1>0
  <2>4. j \in 1 .. Len(queue[o])
    BY <1>1, <2>2, <2>3
  <2> QED
    BY <2>1, <2>4
<1>3. CASE k \in 1 .. Len(queue[o]) /\ queue'[o][k] = queue[o][k]
  BY <1>2, <1>3 DEF Inv, OrderInv
<1>4. CASE o = s /\ k = last
  BY <1>2, <1>4, CreatedLast
<1> QED
  BY <1>0, <1>3, <1>4

LEMMA CreatePins ==
  ASSUME Inv, Dedicated = {}, NEW id \in StreamIds, NEW b \in Buffers, Create(id, b),
         NEW s \in Slots, NEW last \in Nat, Created(b, s, last)
  PROVE  PinsInv'
<1>0. /\ \A o \in Slots : \A k \in 1 .. Len(queue'[o]) :
           \/ k \in 1 .. Len(queue[o]) /\ queue'[o][k] = queue[o][k]
           \/ o = s /\ k = last
      /\ Home[b] = s /\ queue'[s][last].uses = {<<b, gen[b] + 1>>}
      /\ QueuesGrow /\ last = Len(queue[s]) + 1 /\ Len(queue'[s]) = last
  BY DEF Created
<1> SUFFICES ASSUME NEW o \in Slots, NEW k \in done'[o] + 1 .. Len(queue'[o]),
                    NEW a \in queue'[o][k].uses, Home[a[1]] # o
             PROVE  PinnedUntil(a, o, k)' /\ a[2] = gen'[a[1]]
  BY DEF PinsInv
<1>1. o \in Queues /\ done[o] \in Nat /\ done'[o] = done[o]
  BY Types DEF Inv, Queues, Created
<1>2. ~(o = s /\ k = last)
  BY <1>0
<1>3. k \in done[o] + 1 .. Len(queue[o]) /\ queue'[o][k] = queue[o][k]
  BY <1>0, <1>1, <1>2
<1>4. PinnedUntil(a, o, k) /\ a[2] = gen'[a[1]]
  <2>1. a \in queue[o][k].uses
    BY <1>3
  <2>2. k \in done[o] + 1 .. Len(queue[o])
    BY <1>3
  <2>3. \A r \in Slots : \A i \in done[r] + 1 .. Len(queue[r]) : \A u \in queue[r][i].uses :
          Home[u[1]] # r => PinnedUntil(u, r, i) /\ u[2] = gen'[u[1]]
    BY BindUses, CreatedIs
  <2> QED
    BY <2>1, <2>2, <2>3
<1>5. Tasks \subseteq Tasks'
  BY DEF Created
<1> QED
  BY <1>0, <1>4, <1>5, PinnedStays

LEMMA CreateSynced ==
  ASSUME Inv, NEW b \in Buffers, NEW s \in Slots, NEW last \in Nat, Created(b, s, last)
  PROVE  SyncedInv'
<1>0. /\ \A o \in Slots : \A k \in 1 .. Len(queue'[o]) :
           \/ k \in 1 .. Len(queue[o]) /\ queue'[o][k] = queue[o][k]
           \/ o = s /\ k = last
      /\ Home[b] = s /\ queue'[s][last].uses = {<<b, gen[b] + 1>>}
      /\ QueuesGrow /\ last = Len(queue[s]) + 1 /\ Len(queue'[s]) = last
  BY DEF Created
<1>1. \A o \in Slots, p \in Slots : /\ synced[o][p] \in Nat \cup {Never}
                                    /\ synced'[o][p] = synced[o][p] /\ synced[o][p] <= cursor'[p]
  BY Types DEF Inv, Created
<1> SUFFICES ASSUME NEW o \in Slots, NEW p \in Slots, o # p, NEW c \in Buffers, Home[c] = p,
                    synced[o][p] >= bound'[c], NEW j \in 1 .. Len(queue'[p]),
                    Precedes(queue'[p][j], Allocation(c)')
             PROVE  Waited(queue'[o], Len(queue'[o]), p, j)
  BY <1>1 DEF SyncedInv, Precedes
<1>2. bound'[c] \in Nat /\ synced[o][s] < bound'[b] /\ Home[b] = s
  BY DEF Created
<1>3. c # b
  <2>1. synced[o][p] \in Int /\ bound'[c] \in Nat
    BY <1>1, <1>2 DEF Never
  <2>2. c = b => p = s /\ synced[o][p] < bound'[c]
    BY <1>2
  <2> QED
    BY <2>1, <2>2
<1>4. bound'[c] = bound[c] /\ Allocation(c)' = Allocation(c)
  BY <1>3 DEF Allocation, Created
<1>5. Allocation(c) \in Buffers \X Nat /\ Allocation(c)[2] <= gen[Allocation(c)[1]]
  BY Types DEF Allocation, Inv
<1>6. ~(p = s /\ j = last)
  BY <1>4, <1>5, CreatedLast
<1>7. j \in 1 .. Len(queue[p]) /\ queue'[p][j] = queue[p][j]
  BY <1>0, <1>6
<1>8. SyncedInv /\ Precedes(queue[p][j], Allocation(c)) /\ synced[o][p] >= bound[c]
  BY <1>4, <1>7 DEF Inv
<1>9. Waited(queue[o], Len(queue[o]), p, j)
  BY <1>7, <1>8, Zenon DEF SyncedInv
<1>10. /\ Len(queue[o]) \in Nat /\ Len(queue'[o]) \in Nat /\ Len(queue[o]) <= Len(queue'[o])
       /\ \A i \in 1 .. Len(queue[o]) : queue'[o][i] = queue[o][i]
  BY <1>0, Types DEF QueuesGrow, Queues, Inv
<1> QED
  BY <1>9, <1>10, WaitedStays

LEMMA CreateWaits ==
  ASSUME Inv, NEW b \in Buffers, NEW s \in Slots, NEW last \in Nat, Created(b, s, last)
  PROVE  WaitsInv'
<1>0. /\ \A o \in Slots : \A k \in 1 .. Len(queue'[o]) :
           \/ k \in 1 .. Len(queue[o]) /\ queue'[o][k] = queue[o][k]
           \/ o = s /\ k = last
      /\ Home[b] = s /\ queue'[s][last].uses = {<<b, gen[b] + 1>>}
      /\ QueuesGrow /\ last = Len(queue[s]) + 1 /\ Len(queue'[s]) = last
  BY DEF Created
<1> SUFFICES ASSUME NEW o \in Slots, NEW k \in 1 .. Len(queue'[o]), NEW a \in queue'[o][k].uses,
                    Home[a[1]] # o, NEW j \in 1 .. Len(queue'[Home[a[1]]]),
                    Precedes(queue'[Home[a[1]]][j], a)
             PROVE  Waited(queue'[o], k, Home[a[1]], j)
  BY DEF WaitsInv, Precedes
<1>1. k \in 1 .. Len(queue[o]) /\ queue'[o][k] = queue[o][k]
  BY <1>0
<1>2. a \in Buffers \X Nat /\ a[2] <= gen[a[1]] /\ Home[a[1]] \in Slots
  BY <1>1, CreatedLast, SlotsAre
<1>3. PICK p \in Slots : p = Home[a[1]]
  BY <1>2
<1>4. ~(p = s /\ j = last)
  BY <1>2, <1>3, CreatedLast
<1>5. j \in 1 .. Len(queue[p]) /\ queue'[p][j] = queue[p][j]
  BY <1>0, <1>3, <1>4
<1>6. WaitsInv /\ Precedes(queue[p][j], a) /\ a \in queue[o][k].uses /\ Home[a[1]] # o
  BY <1>1, <1>3, <1>5 DEF Inv
<1>7. Waited(queue[o], k, p, j)
  BY <1>1, <1>3, <1>5, <1>6, Zenon DEF WaitsInv
<1>8. k \in Nat /\ k <= k /\ \A i \in 1 .. k : queue'[o][i] = queue[o][i]
  <2>1. o \in Queues /\ Len(queue[o]) \in Nat
    BY Types DEF Inv, Queues
  <2>2. \A i \in 1 .. Len(queue[o]) : queue'[o][i] = queue[o][i]
    BY <1>0, <2>1 DEF QueuesGrow
  <2>3. k \in 1 .. Len(queue[o])
    BY <1>1
  <2> QED
    BY <2>1, <2>2, <2>3
<1>9. Waited(queue'[o], k, p, j)
  BY <1>7, <1>8, WaitedStays
<1> QED
  BY <1>3, <1>9

LEMMA CreateOK ==
  ASSUME Inv, Dedicated = {}, NEW id \in StreamIds, NEW b \in Buffers, Create(id, b)
  PROVE  Inv'
<1>1. PICK s \in Slots, last \in Nat : Created(b, s, last)
  BY CreatedIs
<1>2. TypeOK' /\ EventsInv' /\ OrderInv' /\ SyncedInv' /\ WaitsInv'
  BY <1>1, CreateTypes, CreateOrder, CreateSynced, CreateWaits
<1>3. UsesInv' /\ PinsInv'
  BY <1>1, CreateUses, CreatePins
<1> QED
  BY <1>2, <1>3 DEF Inv

-----------------------------------------------------------------------------
LEMMA NextOK ==
  ASSUME Dedicated = {}, Inv, [Next]_vars
  PROVE  Inv'
<1>1. CASE Next
  BY <1>1, EmptyOK, CreateOK, LaunchOK, RegisterOK, DropHandleOK, GcReceiveOK, GcDropOK, ExecuteOK
  DEF Next, ServerNext, Queues
<1>2. CASE UNCHANGED vars
  <2>1. UNCHANGED <<cursor, synced, owner, bound, gen, held, queue, done, outbox, channel, hand,
                    commands>>
    BY <1>2 DEF vars, memory, device, gc
  <2>2. Tasks' = Tasks
    BY <2>1 DEF Tasks
  <2>3. TypeOK'
    BY <2>1 DEF Inv, TypeOK
  <2> QED
    BY <2>1, <2>2, <2>3, QueueUntouched, TasksUntouched DEF Inv
<1> QED
  BY <1>1, <1>2

-----------------------------------------------------------------------------

\* The order the waits and the streams keep: nothing runs on a slice before
\* the work of the slice's own stream that has to come first.
LEMMA NothingOvertakes ==
  ASSUME Inv, NEW s \in Slots, NEW k \in done[s] + 1 .. Len(queue[s]),
         NEW o \in Slots, NEW i \in 1 .. done[o], NEW a \in queue[o][i].uses, Home[a[1]] = s
  PROVE  ~Precedes(queue[s][k], a)
<1>1. /\ s \in Queues /\ o \in Queues /\ done[s] \in Nat /\ done[o] \in Nat
      /\ Len(queue[s]) \in Nat /\ Len(queue[o]) \in Nat /\ done[o] <= Len(queue[o])
  BY Types DEF Inv, Queues
<1>2. k \in 1 .. Len(queue[s]) /\ i \in 1 .. Len(queue[o])
  BY <1>1
<1>3. CASE o = s
  <2>1. i \in 1 .. k - 1
    BY <1>1, <1>3
  <2> QED
    BY <1>2, <1>3, <2>1 DEF Inv, OrderInv
<1>4. CASE o # s
  <2> SUFFICES ASSUME Precedes(queue[s][k], a)
               PROVE  FALSE
    OBVIOUS
  <2>1. Waited(queue[o], i, s, k)
    BY <1>2, <1>4 DEF Inv, WaitsInv
  <2>2. PICK w \in 1 .. i : queue[o][w].event[1] = s /\ queue[o][w].event[2] >= k
    BY <2>1 DEF Waited
  <2>3. w \in 1 .. done[o] /\ w \in 1 .. Len(queue[o])
    BY <1>1
  <2>4. Reached(queue[o][w].event)
    BY <1>1, <2>3 DEF Inv, EventsInv
  <2>5. queue[o][w].event[2] \in Nat
    BY <1>1, <2>3, Types DEF Inv, Entries
  <2> QED
    BY <1>1, <2>2, <2>4, <2>5 DEF Reached
<1> QED
  BY <1>3, <1>4

LEMMA NoReuse == Inv => NoReuseInFlight
<1> SUFFICES ASSUME Inv, NEW s \in Slots, NEW o \in Slots,
                    NEW k \in done[s] + 1 .. Len(queue[s]), NEW i \in 1 .. done[o],
                    NEW p \in queue[s][k].uses, NEW e \in queue[o][i].uses, p[1] = e[1]
             PROVE  e[2] <= p[2]
  BY DEF NoReuseInFlight, Pending, Executed
<1>1. /\ s \in Queues /\ o \in Queues /\ k \in 1 .. Len(queue[s]) /\ i \in 1 .. Len(queue[o])
  BY Types DEF Inv, Queues
<1>2. p \in Buffers \X Nat /\ e \in Buffers \X Nat /\ e[2] \in 1 .. gen[e[1]] /\ gen[e[1]] \in Nat
  <2>1. queue[s][k] \in Entries /\ queue[o][i] \in Entries
    BY <1>1, Types DEF Inv
  <2>2. p \in Buffers \X Nat /\ e \in Buffers \X Nat
    BY <2>1 DEF Entries
  <2> QED
    BY <1>1, <2>2, Types DEF Inv, UsesInv
<1>3. CASE Home[p[1]] # s
  <2>1. p[2] = gen[p[1]]
    BY <1>3 DEF Inv, PinsInv
  <2> QED
    BY <1>2, <2>1
<1>4. CASE Home[p[1]] = s
  <2>1. ~Precedes(queue[s][k], e)
    BY <1>4, NothingOvertakes
  <2> QED
    BY <1>2, <2>1 DEF Precedes
<1> QED
  BY <1>3, <1>4

LEMMA DataSeen == Inv => CreatedDataSeen
<1> SUFFICES ASSUME Inv, NEW s \in Slots, NEW o \in Slots,
                    NEW i \in 1 .. done[s], NEW k \in done[o] + 1 .. Len(queue[o]),
                    queue[o][k].kind = "copy",
                    NEW a \in queue[s][i].uses, a \in queue[o][k].writes
             PROVE  FALSE
  BY DEF CreatedDataSeen, Pending, Executed
<1>1. k \in 1 .. Len(queue[o])
  BY Types DEF Inv, Queues
<1>2. Home[a[1]] = o
  BY <1>1 DEF Inv, UsesInv
<1> QED
  BY <1>2, NothingOvertakes DEF Precedes

\* Inv is an inductive invariant of the server, the streams and the thread
\* that drops the bindings, for every pool of streams.
LEMMA StreamsInductive ==
  ASSUME Dedicated = {}
  PROVE  Spec => []Inv
<1>1. Inv /\ [Next]_vars => Inv'
  BY NextOK
<1> QED
  BY <1>1, InitOK, PTL DEF Spec

\* A kernel that is still to run never finds that a slice it uses was handed
\* out again and overwritten: the bindings of other streams' buffers stay with
\* the event thread until the stream is past the kernel (event.rs), whatever
\* the streams, the ids that share them and the order the device runs them in.
THEOREM MemoryNotReusedInFlight ==
  ASSUME Dedicated = {}
  PROVE  Spec => []StreamsInv
<1>1. Inv => StreamsInv
  BY NoReuse DEF StreamsInv, Inv
<1> QED
  BY <1>1, StreamsInductive, PTL

\* No kernel runs on a buffer before the copy that creates it with its data:
\* a stream waits for the owner's stream once per allocation (the cursor of the
\* allocation against last_synced), and later kernels are behind that wait.
THEOREM CreatedDataIsSeen ==
  ASSUME Dedicated = {}
  PROVE  Spec => []CreatedDataSeen
  BY DataSeen, StreamsInductive, PTL
=============================================================================
