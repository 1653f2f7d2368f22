----------------------------- MODULE MultiStream -----------------------------
(***************************************************************************)
(* Streams of one device that share buffers, as cubecl-server keeps them in *)
(* order (stream/event.rs, stream/base.rs): cursors decide when a stream    *)
(* waits for the stream that owns a buffer, and a garbage-collecting thread *)
(* holds a shared buffer until the work that uses it is over.               *)
(*                                                                         *)
(* The server thread enqueues; the device executes every stream in its own  *)
(* order and at its own pace; the thread drops what it holds once an event  *)
(* is reached. A command of the server is one step, except that its last    *)
(* call, the send to the bounded channel of the thread, may block.          *)
(***************************************************************************)
EXTENDS Integers, Sequences, Functions

CONSTANTS
  StreamIds,    \* values of StreamId
  MaxStreams,   \* slots of the pool
  Buffers,      \* slices of device memory, each reused for many allocations
  Home,         \* the slot whose memory manager holds a slice
  Dedicated,    \* the slices of the pool that keeps no cursor
  GcCapacity,   \* bound of the channel to the thread
  MaxCommands   \* bound: commands in a behaviour

ASSUME PoolAssumption ==
  /\ MaxStreams \in Nat \ {0} /\ GcCapacity \in Nat \ {0} /\ MaxCommands \in Nat
  /\ StreamIds \subseteq Nat /\ StreamIds # {}
  /\ Home \in [Buffers -> 0 .. MaxStreams - 1]
  /\ Dedicated \subseteq Buffers

VARIABLES
  cursor,       \* StreamWrapper::cursor
  synced,       \* StreamWrapper::last_synced, Never when absent
  owner,        \* the stream a slice's handles name
  bound,        \* Slice::cursor
  gen,          \* which allocation a slice holds, 0 before the first
  held,         \* whether the program still has a handle of it
  queue,        \* what was ever enqueued on each stream
  done,         \* how much of it was executed
  outbox,       \* the task the server thread is sending, if it is
  channel,      \* tasks the thread has not received
  hand,         \* the task whose event it waits for
  commands      \* commands so far

memory == <<owner, bound, gen, held>>
device == <<queue, done>>
gc == <<outbox, channel, hand>>
vars == <<cursor, synced, memory, device, gc, commands>>

Slots == 0 .. MaxStreams - 1
GcSlot == MaxStreams
Never == -1

Slot(id) == id % MaxStreams

\* An event is a position in a stream: it is reached when the stream executed
\* that much.
Fence(s, q) == <<s, Len(q)>>
Reached(event) == done[event[1]] >= event[2]
NoEvent == <<GcSlot, 0>>

WaitFor(event) ==
  [kind |-> "wait", event |-> event, uses |-> {}, writes |-> {}, seq |-> 0]

Work(kind, uses, writes) ==
  [kind |-> kind, event |-> NoEvent, uses |-> uses, writes |-> writes,
   seq |-> commands + 1]

Allocation(b) == <<b, gen[b]>>

\* What the tasks keep, wherever they are.
Tasks == Range(outbox) \cup Range(channel) \cup Range(hand)
Pins == UNION {task.pins : task \in Tasks}

\* ManagedMemoryHandle::is_free: no handle of the program and no pin.
Free(b) == ~held[b] /\ Allocation(b) \notin Pins

-----------------------------------------------------------------------------

\* The handles of a command that belong to another stream.
Foreign(id, handles) == {b \in handles : owner[b] # id}

MutantSyncedToo(id, b) == synced[Slot(id)][Slot(owner[b])] + 1 < bound[b]

NotSynced(id, b) == synced[Slot(id)][Slot(owner[b])] < bound[b]

\* The streams the command's stream has to wait for.
Origins(id, handles) ==
  {Slot(owner[b]) : b \in {b \in Foreign(id, handles) : NotSynced(id, b)}}

MutantPinUnsynced(id, handles) ==
  {Allocation(b) : b \in {b \in Foreign(id, handles) : NotSynced(id, b)}}

Pinned(id, handles) == {Allocation(b) : b \in Foreign(id, handles)}

\* The origins are keys of a HashMap: gone through in any order.
Orders(origins) == UNION {Bijection(1 .. n, origins) : n \in 0 .. MaxStreams}

Waits(order) == [i \in DOMAIN order |-> WaitFor(Fence(order[i], queue[order[i]]))]

\* MultiStream::resolve, then the work, then ResolvedStreams::drop.
MutantGcWaitsAhead(s, enqueued, pins) ==
  LET gcQueue == Append(queue[GcSlot], WaitFor(<<s, Len(enqueued) + 1>>))
  IN  IF pins = {}
      THEN queue' = [queue EXCEPT ![s] = enqueued] /\ UNCHANGED outbox
      ELSE /\ queue' = [queue EXCEPT ![s] = enqueued, ![GcSlot] = gcQueue]
           /\ outbox' = <<[pins |-> pins, event |-> Fence(GcSlot, gcQueue)]>>

Enqueue(s, enqueued, pins) ==
  LET gcQueue == Append(queue[GcSlot], WaitFor(Fence(s, enqueued)))
  IN  IF pins = {}
      THEN queue' = [queue EXCEPT ![s] = enqueued] /\ UNCHANGED outbox
      ELSE /\ queue' = [queue EXCEPT ![s] = enqueued, ![GcSlot] = gcQueue]
           /\ outbox' = <<[pins |-> pins, event |-> Fence(GcSlot, gcQueue)]>>

ServerReady == outbox = <<>> /\ commands < MaxCommands

\* A command on a stream: a launch, a copy, or one that names no buffer.
Launch(id, handles, writes) ==
  LET s == Slot(id)
      origins == Origins(id, handles)
      work == Work("launch", {Allocation(b) : b \in handles}, {Allocation(b) : b \in writes})
  IN  /\ ServerReady
      /\ \A b \in handles : held[b]
      /\ cursor' = [cursor EXCEPT ![s] = @ + 1]
      /\ synced' = [synced EXCEPT ![s] =
           [o \in Slots |-> IF o \in origins THEN cursor[o] ELSE @[o]]]
      /\ \E order \in Orders(origins) :
           Enqueue(s, queue[s] \o Waits(order) \o <<work>>, Pinned(id, handles))
      /\ commands' = commands + 1
      /\ UNCHANGED <<memory, done, channel, hand>>

\* MemoryPool::bind at the cursor of the command: DirectPool ignores it.
Bind(id, b, at) ==
  /\ Home[b] = Slot(id) /\ Free(b)
  /\ owner' = [owner EXCEPT ![b] = id]
  /\ bound' = [bound EXCEPT ![b] = IF b \in Dedicated THEN 0 ELSE at]
  /\ gen' = [gen EXCEPT ![b] = @ + 1]
  /\ held' = [held EXCEPT ![b] = TRUE]

\* initialize_memory.
Empty(id, b) ==
  /\ ServerReady
  /\ Bind(id, b, cursor[Slot(id)] + 1)
  /\ cursor' = [cursor EXCEPT ![Slot(id)] = @ + 1]
  /\ commands' = commands + 1
  /\ UNCHANGED <<synced, device, gc>>

\* A buffer made with its data: initialize_memory and write, one closure.
Create(id, b) ==
  LET s == Slot(id)
      new == {<<b, gen[b] + 1>>}
  IN  /\ ServerReady
      /\ Bind(id, b, cursor[s] + 1)
      /\ cursor' = [cursor EXCEPT ![s] = @ + 2]
      /\ queue' = [queue EXCEPT ![s] = Append(@, Work("copy", new, new))]
      /\ commands' = commands + 1
      /\ UNCHANGED <<synced, done, gc>>

\* The program drops its last handle.
DropHandle(b) ==
  /\ held[b]
  /\ held' = [held EXCEPT ![b] = FALSE]
  /\ UNCHANGED <<cursor, synced, owner, bound, gen, device, gc, commands>>

\* The bounded send returns.
Register ==
  /\ outbox # <<>> /\ Len(channel) < GcCapacity
  /\ channel' = channel \o outbox
  /\ outbox' = <<>>
  /\ UNCHANGED <<cursor, synced, memory, device, hand, commands>>

GcReceive ==
  /\ hand = <<>> /\ channel # <<>>
  /\ hand' = <<Head(channel)>>
  /\ channel' = Tail(channel)
  /\ UNCHANGED <<cursor, synced, memory, device, outbox, commands>>

\* wait_event_sync, then the drop of what the task holds.
GcDrop ==
  /\ hand # <<>> /\ Reached(hand[1].event)
  /\ hand' = <<>>
  /\ UNCHANGED <<cursor, synced, memory, device, outbox, channel, commands>>

\* The device executes the next entry of a stream.
Execute(s) ==
  /\ done[s] < Len(queue[s])
  /\ Reached(queue[s][done[s] + 1].event)
  /\ done' = [done EXCEPT ![s] = @ + 1]
  /\ UNCHANGED <<cursor, synced, memory, queue, gc, commands>>

Init ==
  /\ cursor = [s \in Slots |-> 0]
  /\ synced = [s \in Slots |-> [o \in Slots |-> Never]]
  /\ owner = [b \in Buffers |-> CHOOSE id \in StreamIds : TRUE]
  /\ bound = [b \in Buffers |-> 0]
  /\ gen = [b \in Buffers |-> 0]
  /\ held = [b \in Buffers |-> FALSE]
  /\ queue = [s \in Slots \cup {GcSlot} |-> <<>>]
  /\ done = [s \in Slots \cup {GcSlot} |-> 0]
  /\ outbox = <<>> /\ channel = <<>> /\ hand = <<>>
  /\ commands = 0

ServerNext ==
  \/ \E id \in StreamIds :
       \/ \E b \in Buffers : Empty(id, b) \/ Create(id, b)
       \/ \E handles \in SUBSET Buffers :
            \E writes \in SUBSET handles : Launch(id, handles, writes)
  \/ Register

Next ==
  \/ ServerNext
  \/ \E b \in Buffers : DropHandle(b)
  \/ GcReceive \/ GcDrop
  \/ \E s \in Slots \cup {GcSlot} : Execute(s)

Spec == Init /\ [][Next]_vars

\* The device runs whatever can run, and both threads are scheduled.
Fairness ==
  /\ \A s \in Slots \cup {GcSlot} : WF_vars(Execute(s))
  /\ WF_vars(Register) /\ WF_vars(GcReceive) /\ WF_vars(GcDrop)

FairSpec == Spec /\ Fairness

-----------------------------------------------------------------------------

Entries == [kind : {"wait", "launch", "copy"}, event : (Slots \cup {GcSlot}) \X Nat,
            uses : SUBSET (Buffers \X Nat), writes : SUBSET (Buffers \X Nat), seq : Nat]
GcTasks == [pins : SUBSET (Buffers \X Nat), event : (Slots \cup {GcSlot}) \X Nat]

TypeOK ==
  /\ cursor \in [Slots -> Nat]
  /\ synced \in [Slots -> [Slots -> Nat \cup {Never}]]
  /\ owner \in [Buffers -> StreamIds] /\ bound \in [Buffers -> Nat]
  /\ gen \in [Buffers -> Nat] /\ held \in [Buffers -> BOOLEAN]
  /\ queue \in [Slots \cup {GcSlot} -> Seq(Entries)]
  /\ done \in [Slots \cup {GcSlot} -> Nat]
  /\ \A s \in Slots \cup {GcSlot} : done[s] <= Len(queue[s])
  /\ outbox \in Seq(GcTasks) /\ Len(outbox) <= 1
  /\ channel \in Seq(GcTasks) /\ Len(channel) <= GcCapacity
  /\ hand \in Seq(GcTasks) /\ Len(hand) <= 1
  /\ commands \in 0 .. MaxCommands

Executed(s) == {queue[s][k] : k \in 1 .. done[s]}
Pending(s) == {queue[s][k] : k \in done[s] + 1 .. Len(queue[s])}

\* No kernel of any stream runs on memory that was already given to a later
\* allocation and used by it (SharedBindingAnalysis::pinned).
NoReuseInFlight ==
  \A s, o \in Slots :
    \A pending \in Pending(s), executed \in Executed(o) :
      \A p \in pending.uses, e \in executed.uses :
        p[1] = e[1] => e[2] <= p[2]

\* The bookkeeping is within its bounds, the channel of the thread included,
\* and no memory is reused under a kernel.
StreamsInv == TypeOK /\ NoReuseInFlight

\* Work on any stream finds the data a buffer was made with: by the time it
\* runs, the copy that fills the buffer ran, whichever stream that is on.
CreatedDataSeen ==
  \A s, o \in Slots :
    \A executed \in Executed(s), pending \in Pending(o) :
      pending.kind = "copy" => executed.uses \cap pending.writes = {}

\* What nobody holds is returned to its pool: events are reached, the thread
\* is never stuck and the server thread is not stuck on it (GcThread).
MemoryReturns == \A b \in Buffers : ~held[b] ~> Free(b)

\* A stream that uses a shared buffer is synchronized with the stream of the
\* buffer: what that stream was asked to write to it before, has run.
ResolvedIsSynced ==
  \A s \in Slots :
    \A executed \in Executed(s), b \in Buffers :
      \A pending \in Pending(Home[b]) :
        pending.seq < executed.seq =>
          Allocation(b) \notin executed.uses \cap pending.writes
=============================================================================
