---------------------------- MODULE DeviceChannel ----------------------------
(***************************************************************************)
(* The lock-free, double-buffered task channel between the threads that    *)
(* hold a device handle (the clients) and the runner thread of the device  *)
(* (the server): `custom_channel` in                                       *)
(* cubecl-common/src/device/handle/channel.rs.                             *)
(*                                                                         *)
(* Every atomic load, store and fetch_add of the code is a step of its     *)
(* own.  Each of them is sequentially consistent here: the Acquire and     *)
(* Release orderings of the code order every pair of accesses that the     *)
(* protocol relies on (a client that reads index 0 from the server's last  *)
(* store of a swap sees the three stores before it; a server that reads    *)
(* the 32nd increment of enqueued_count sees the 32 closures).             *)
(*                                                                         *)
(* A task is <<c, n>>, the n-th closure client c sends.  A closure that    *)
(* panics is caught where it runs (Task::init), so a panic is no different *)
(* from a return for the channel.                                          *)
(***************************************************************************)
EXTENDS Integers, FiniteSets

CONSTANTS
  Clients,      \* threads that may hold a DeviceClient
  Server,       \* the runner thread
  MaxTask,      \* CHANNEL_MAX_TASK, 32 in the code
  IndexSpan,    \* 2^32: available_index is an AtomicU32
  Wrapping,     \* TRUE: available_index wraps; FALSE: no stall is that long
  SpinBudget,   \* SPIN_BUDGET_SERVER
  MaxIssue,     \* bound: tasks one client sends
  MaxFlush,     \* bound: explicit flushes of one client
  Noop,         \* the padding closure
  Empty         \* a slot whose closure was moved out, or never written

Tasks == Clients \X (1..MaxIssue)

ASSUME ChannelAssumption ==
  /\ Server \notin Clients
  /\ MaxTask \in Nat \ {0}
  /\ IndexSpan \in Nat /\ IndexSpan > 2 * MaxTask
  /\ Wrapping \in BOOLEAN
  /\ SpinBudget \in Nat
  /\ MaxIssue \in Nat
  /\ MaxFlush \in Nat
  /\ Noop \notin Tasks /\ Empty \notin Tasks /\ Noop # Empty

Actors == Clients \cup {Server}
Slots  == 0..(MaxTask - 1)

VARIABLES
  queue_ptr,        \* which of the two buffers clients write to
  available_index,  \* next index to claim in that buffer
  enqueued_count,   \* closures written to that buffer
  shutdown,         \* set by request_shutdown
  slots,            \* the closures of the two buffers
  handles,          \* clients that hold a reference to the state
  clones,           \* queued tasks that captured a reference to the state
  pc, index, start, target,   \* locals of enqueue and pad_with_noops
  blocking,         \* clients inside run_scoped
  ready, run, idle_count, is_last_ref,   \* locals of the server
  issued, flushes,  \* calls made so far, per client
  ran               \* number of the last task run, per client

shared     == <<queue_ptr, available_index, enqueued_count, shutdown, slots>>
refs       == <<handles, clones>>
locals     == <<pc, index, start, target, blocking>>
serverVars == <<ready, run, idle_count, is_last_ref>>
calls      == <<issued, flushes, ran>>
vars       == <<shared, refs, locals, serverVars, calls>>

Init ==
  /\ queue_ptr = 0
  /\ available_index = 0
  /\ enqueued_count = 0
  /\ shutdown = FALSE
  /\ slots = [b \in {0, 1} |-> [i \in Slots |-> Empty]]
  /\ \E c \in Clients : handles = {c}
  /\ clones = {}
  /\ pc = [a \in Actors |-> IF a = Server THEN "loop" ELSE "idle"]
  /\ index = [a \in Actors |-> 0]
  /\ start = [a \in Actors |-> 0]
  /\ target = [a \in Actors |-> 0]
  /\ blocking = {}
  /\ ready = FALSE
  /\ run = 0
  /\ idle_count = 0
  /\ is_last_ref = FALSE
  /\ issued = [c \in Clients |-> 0]
  /\ flushes = [c \in Clients |-> 0]
  /\ ran = [c \in Clients |-> 0]

Goto(a, label) == pc' = [pc EXCEPT ![a] = label]

\* The locals of enqueue and pad_with_noops go out of scope.
OutOfScope(a) ==
  /\ index' = [index EXCEPT ![a] = 0]
  /\ start' = [start EXCEPT ![a] = 0]
  /\ target' = [target EXCEPT ![a] = 0]

(***************************************************************************)
(* available_index.fetch_add(n).  Every load of the index only asks        *)
(* whether it is below MaxTask, so as long as one stall adds less than     *)
(* 2^32 to it the values from MaxTask up are the same value.               *)
(***************************************************************************)
FetchAdd(i, n) ==
  IF Wrapping THEN (i + n) % IndexSpan
  ELSE IF i + n < MaxTask THEN i + n ELSE MaxTask

\* Arc::strong_count == 1: the server holds the only reference.
LastRef == handles = {} /\ clones = {}

-----------------------------------------------------------------------------
(* Clients.                                                                *)

\* DeviceClient::clone, from a thread that holds a client to one that does not.
Clone(c, d) ==
  /\ c \in handles /\ d \notin handles
  /\ pc[c] = "idle" /\ pc[d] = "idle"
  /\ handles' = handles \cup {d}
  /\ UNCHANGED <<shared, clones, locals, serverVars, calls>>

DropHandle(c) ==
  /\ c \in handles /\ pc[c] = "idle"
  /\ handles' = handles \ {c}
  /\ UNCHANGED <<shared, clones, locals, serverVars, calls>>

RequestShutdown(c) ==
  /\ c \in handles /\ pc[c] = "idle"
  /\ shutdown' = TRUE
  /\ UNCHANGED <<queue_ptr, available_index, enqueued_count, slots,
                 refs, locals, serverVars, calls>>

(***************************************************************************)
(* ChannelDeviceHandle::send from a thread that is not the runner.         *)
(* `wait` is run_scoped, which flushes and waits for the closure to run;   *)
(* otherwise `holds` says whether the closure captured a clone of the      *)
(* client.                                                                 *)
(***************************************************************************)
Send(c, wait, holds) ==
  /\ c \in handles /\ pc[c] = "idle"
  /\ issued[c] < MaxIssue
  /\ issued' = [issued EXCEPT ![c] = @ + 1]
  /\ blocking' = IF wait THEN blocking \cup {c} ELSE blocking
  /\ clones' = IF holds THEN clones \cup {<<c, issued[c] + 1>>} ELSE clones
  /\ Goto(c, "claim")
  /\ UNCHANGED <<shared, handles, index, start, target, serverVars, flushes, ran>>

\* One round of the loop in DeviceClient::enqueue: claim a slot or back off.
Claim(c) ==
  /\ pc[c] = "claim"
  /\ available_index' = FetchAdd(available_index, 1)
  /\ IF available_index >= MaxTask
     THEN UNCHANGED <<pc, index>>
     ELSE index' = [index EXCEPT ![c] = available_index] /\ Goto(c, "load")
  /\ UNCHANGED <<queue_ptr, enqueued_count, shutdown, slots, refs, start, target,
                 blocking, serverVars, calls>>

\* State::init_task_at loads queue_ptr ...
LoadPtr(a, from, to) ==
  /\ pc[a] = from
  /\ target' = [target EXCEPT ![a] = queue_ptr]
  /\ Goto(a, to)
  /\ UNCHANGED <<shared, refs, index, start, blocking, serverVars, calls>>

\* ... and writes the closure behind it.
WriteTask(c) ==
  /\ pc[c] = "write"
  /\ slots' = [slots EXCEPT ![target[c]][index[c]] = <<c, issued[c]>>]
  /\ Goto(c, "count")
  /\ UNCHANGED <<queue_ptr, available_index, enqueued_count, shutdown, refs,
                 index, start, target, blocking, serverVars, calls>>

\* The end of enqueue; run_scoped goes on to flush.
CountTask(c) ==
  /\ pc[c] = "count"
  /\ enqueued_count' = enqueued_count + 1
  /\ Goto(c, IF c \in blocking THEN "pad" ELSE "idle")
  /\ OutOfScope(c)
  /\ UNCHANGED <<queue_ptr, available_index, shutdown, slots, refs, blocking,
                 serverVars, calls>>

\* ChannelDeviceHandle::flush_queue
Flush(c) ==
  /\ c \in handles /\ pc[c] = "idle"
  /\ flushes[c] < MaxFlush
  /\ flushes' = [flushes EXCEPT ![c] = @ + 1]
  /\ Goto(c, "pad")
  /\ UNCHANGED <<shared, refs, index, start, target, blocking, serverVars,
                 issued, ran>>

\* recv.recv() in run_scoped returns once the closure ran.
Return(c) ==
  /\ pc[c] = "wait"
  /\ ran[c] >= issued[c]
  /\ blocking' = blocking \ {c}
  /\ Goto(c, "idle")
  /\ UNCHANGED <<shared, refs, index, start, target, serverVars, calls>>

-----------------------------------------------------------------------------
(* State::pad_with_noops, run by a flushing client and by try_shutdown.    *)

\* index_start >= CHANNEL_MAX_TASK: "the queue is already flushed".
AlreadyFlushedEarly(i) == i >= MaxTask - 1
AlreadyFlushed(i) == i >= MaxTask

\* actual_added, the no-ops up to the end of the buffer.
PadAddedShort(a) == MaxTask - start[a] - 1
PadAdded(a) == MaxTask - start[a]

AfterPad(a) ==
  IF a = Server THEN "loop" ELSE IF a \in blocking THEN "wait" ELSE "idle"

PadClaim(a) ==
  /\ pc[a] = "pad"
  /\ available_index' = FetchAdd(available_index, MaxTask)
  /\ IF AlreadyFlushed(available_index)
     THEN Goto(a, AfterPad(a)) /\ UNCHANGED <<index, start>>
     ELSE /\ index' = [index EXCEPT ![a] = available_index]
          /\ start' = [start EXCEPT ![a] = available_index]
          /\ Goto(a, "padload")
  /\ UNCHANGED <<queue_ptr, enqueued_count, shutdown, slots, refs, target,
                 blocking, serverVars, calls>>

PadWrite(a) ==
  /\ pc[a] = "padwrite"
  /\ slots' = [slots EXCEPT ![target[a]][index[a]] = Noop]
  /\ index' = [index EXCEPT ![a] = @ + 1]
  /\ Goto(a, IF index[a] + 1 < MaxTask THEN "padload" ELSE "padcount")
  /\ UNCHANGED <<queue_ptr, available_index, enqueued_count, shutdown, refs,
                 start, target, blocking, serverVars, calls>>

PadCount(a) ==
  /\ pc[a] = "padcount"
  /\ enqueued_count' = enqueued_count + PadAdded(a)
  /\ Goto(a, AfterPad(a))
  /\ OutOfScope(a)
  /\ UNCHANGED <<queue_ptr, available_index, shutdown, slots, refs, blocking,
                 serverVars, calls>>

-----------------------------------------------------------------------------
(* The server: Server::start.                                              *)

\* Server::execute_tasks begins, on the buffer clients do not write to.
ExecuteTasks ==
  /\ pc[Server] = "loop" /\ ready
  /\ Goto(Server, "exec")
  /\ UNCHANGED <<shared, refs, index, start, target, blocking, serverVars, calls>>

(***************************************************************************)
(* Task::run of one slot moves the closure out and calls it.  A reference  *)
(* the closure captured is dropped, or moved on to a thread without one.   *)
(***************************************************************************)
RunTask ==
  /\ pc[Server] = "exec" /\ run < MaxTask
  /\ LET task == slots[1 - queue_ptr][run] IN
     /\ slots' = [slots EXCEPT ![1 - queue_ptr][run] = Empty]
     /\ ran' = IF task \in Tasks THEN [ran EXCEPT ![task[1]] = task[2]] ELSE ran
     /\ clones' = clones \ {task}
     /\ \/ UNCHANGED handles
        \/ /\ task \in clones
           /\ \E d \in Clients \ handles : pc[d] = "idle" /\ handles' = handles \cup {d}
  /\ run' = run + 1
  /\ UNCHANGED <<queue_ptr, available_index, enqueued_count, shutdown, locals,
                 ready, idle_count, is_last_ref, issued, flushes>>

ExecuteDone ==
  /\ pc[Server] = "exec" /\ run = MaxTask
  /\ ready' = FALSE
  /\ run' = 0
  /\ idle_count' = 0
  /\ Goto(Server, "size")
  /\ UNCHANGED <<shared, refs, index, start, target, blocking, is_last_ref, calls>>

\* The top of the loop with nothing to execute goes straight on.
SkipExecute ==
  /\ pc[Server] = "loop" /\ ~ready
  /\ Goto(Server, "size")
  /\ UNCHANGED <<shared, refs, index, start, target, blocking, serverVars, calls>>

\* queue_size >= CHANNEL_MAX_TASK
QueueClaimed == available_index >= MaxTask
QueueFull == enqueued_count >= MaxTask

(***************************************************************************)
(* The load of enqueued_count, and the branch it decides.  The two loads   *)
(* of `shutdown || strong_count == 1` are one step: neither can go from    *)
(* true back to false.                                                     *)
(***************************************************************************)
LoadQueueSize ==
  /\ pc[Server] = "size"
  /\ \/ /\ QueueFull
        /\ idle_count' = 0
        /\ Goto(Server, "swap")
     \/ /\ ~QueueFull
        /\ idle_count < SpinBudget
        /\ idle_count' = idle_count + 1
        /\ Goto(Server, "loop")
     \/ /\ ~QueueFull
        /\ idle_count = SpinBudget
        /\ Goto(Server, IF shutdown \/ LastRef THEN "refs" ELSE "loop")
        /\ UNCHANGED idle_count
  /\ UNCHANGED <<shared, refs, index, start, target, blocking, ready, run,
                 is_last_ref, calls>>

\* Server::fetch, one store at a time.
FetchSwapResetsIndex ==
  /\ pc[Server] = "swap"
  /\ queue_ptr' = 1 - queue_ptr
  /\ available_index' = 0
  /\ ready' = TRUE
  /\ Goto(Server, "zerocount")
  /\ UNCHANGED <<enqueued_count, shutdown, slots, refs, index, start, target,
                 blocking, run, idle_count, is_last_ref, calls>>

FetchSwap ==
  /\ pc[Server] = "swap"
  /\ queue_ptr' = 1 - queue_ptr
  /\ ready' = TRUE
  /\ Goto(Server, "zerocount")
  /\ UNCHANGED <<available_index, enqueued_count, shutdown, slots, refs, index,
                 start, target, blocking, run, idle_count, is_last_ref, calls>>

FetchZeroCount ==
  /\ pc[Server] = "zerocount"
  /\ enqueued_count' = 0
  /\ Goto(Server, "zeroindex")
  /\ UNCHANGED <<queue_ptr, available_index, shutdown, slots, refs, index,
                 start, target, blocking, serverVars, calls>>

FetchZeroIndex ==
  /\ pc[Server] = "zeroindex"
  /\ available_index' = 0
  /\ Goto(Server, "loop")
  /\ UNCHANGED <<queue_ptr, enqueued_count, shutdown, slots, refs, index,
                 start, target, blocking, serverVars, calls>>

\* Server::try_shutdown reads the strong count first ...
LoadRefs ==
  /\ pc[Server] = "refs"
  /\ is_last_ref' = LastRef
  /\ Goto(Server, "drain")
  /\ UNCHANGED <<shared, refs, index, start, target, blocking, ready, run,
                 idle_count, calls>>

\* ... and the queue second: it pads what is queued, or stops.
AfterDrainRefsLate ==
  IF LastRef THEN "stopped" ELSE IF enqueued_count > 0 THEN "pad" ELSE "loop"
AfterDrainUnpadded == IF enqueued_count = 0 /\ is_last_ref THEN "stopped" ELSE "loop"
AfterDrain ==
  IF enqueued_count > 0 THEN "pad" ELSE IF is_last_ref THEN "stopped" ELSE "loop"

LoadDrain ==
  /\ pc[Server] = "drain"
  /\ Goto(Server, AfterDrain)
  /\ is_last_ref' = FALSE
  /\ UNCHANGED <<shared, refs, index, start, target, blocking, ready, run,
                 idle_count, calls>>

-----------------------------------------------------------------------------
ClientCall(c) ==
  \/ \E d \in Clients : Clone(c, d)
  \/ DropHandle(c)
  \/ RequestShutdown(c)
  \/ \E w, h \in BOOLEAN : ~(w /\ h) /\ Send(c, w, h)
  \/ Flush(c)

\* The steps a thread takes on its own once it is inside a call.
ClientStep(c) ==
  \/ Claim(c)
  \/ LoadPtr(c, "load", "write")
  \/ WriteTask(c)
  \/ CountTask(c)
  \/ Return(c)

PadStep(a) ==
  \/ PadClaim(a)
  \/ LoadPtr(a, "padload", "padwrite")
  \/ PadWrite(a)
  \/ PadCount(a)

ServerStep ==
  \/ ExecuteTasks \/ RunTask \/ ExecuteDone \/ SkipExecute
  \/ LoadQueueSize
  \/ FetchSwap \/ FetchZeroCount \/ FetchZeroIndex
  \/ LoadRefs \/ LoadDrain
  \/ PadStep(Server)

\* Every thread is gone: the system may rest.
Stopped ==
  /\ pc[Server] = "stopped"
  /\ UNCHANGED vars

Next ==
  \/ \E c \in Clients : ClientCall(c) \/ ClientStep(c) \/ PadStep(c)
  \/ ServerStep
  \/ Stopped

Spec == Init /\ [][Next]_vars

(***************************************************************************)
(* The operating system runs every thread; whether a client makes another  *)
(* call, and when it drops its handle, is up to the program.               *)
(***************************************************************************)
FairSpec ==
  /\ Spec
  /\ WF_vars(ServerStep)
  /\ \A c \in Clients : WF_vars(ClientStep(c) \/ PadStep(c))

-----------------------------------------------------------------------------
EnqueueLabels == {"load", "write", "count"}
PadLabels     == {"padload", "padwrite", "padcount"}
ClientLabels  == {"idle", "claim", "pad", "wait"} \cup EnqueueLabels \cup PadLabels
ServerLabels  == {"loop", "exec", "size", "swap", "zerocount", "zeroindex", "refs",
                  "drain", "pad", "stopped"} \cup PadLabels

TypeOK ==
  /\ queue_ptr \in {0, 1}
  /\ available_index \in 0..(IndexSpan - 1)
  /\ enqueued_count \in 0..MaxTask
  /\ shutdown \in BOOLEAN
  /\ slots \in [{0, 1} -> [Slots -> Tasks \cup {Noop, Empty}]]
  /\ handles \subseteq Clients
  /\ clones \subseteq Tasks
  /\ pc \in [Actors -> ClientLabels \cup ServerLabels]
  /\ pc[Server] \in ServerLabels
  /\ \A c \in Clients : pc[c] \in ClientLabels
  /\ index \in [Actors -> 0..MaxTask]
  /\ start \in [Actors -> Slots]
  /\ target \in [Actors -> {0, 1}]
  /\ blocking \subseteq Clients
  /\ ready \in BOOLEAN
  /\ run \in 0..MaxTask
  /\ idle_count \in 0..SpinBudget
  /\ is_last_ref \in BOOLEAN
  /\ issued \in [Clients -> 0..MaxIssue]
  /\ flushes \in [Clients -> 0..MaxFlush]
  /\ ran \in [Clients -> 0..MaxIssue]

(***************************************************************************)
(* "Exclusive access per slot is guaranteed by available_index.fetch_add"  *)
(* (init_task_at): no two threads are about to write the same slot, and a  *)
(* writer only ever writes to the buffer the server is not executing.      *)
(***************************************************************************)
Writing(a) == pc[a] \in {"write", "padwrite"}

SlotExclusive ==
  /\ \A a, b \in Actors :
       Writing(a) /\ Writing(b) /\ target[a] = target[b] /\ index[a] = index[b] => a = b
  /\ \A a \in Actors : Writing(a) => target[a] = queue_ptr

(***************************************************************************)
(* "The task must be initialized and run only once per initialization"     *)
(* (Task::run): a closure is never overwritten before it ran, which would  *)
(* leak it, and the server never runs a slot whose closure was moved out.  *)
(***************************************************************************)
RunOncePerInit ==
  /\ \A a \in Actors : Writing(a) => slots[target[a]][index[a]] = Empty
  /\ pc[Server] = "exec" /\ run < MaxTask => slots[1 - queue_ptr][run] # Empty

\* What the unsafe code of init_task_at and Task::run asks of its callers.
SlotsSafe == SlotExclusive /\ RunOncePerInit

(***************************************************************************)
(* Why the two hold.  Thread a owns slot i of the client buffer from the   *)
(* fetch_add that claimed it to the fetch_add that counts it, and has      *)
(* written it from the write on; the slots that are claimed and owned by   *)
(* nobody are exactly the ones enqueued_count counts.  So a count of       *)
(* MaxTask means that nobody owns a slot, and the server may swap.         *)
(***************************************************************************)
Owns(a, i) ==
  \/ pc[a] \in EnqueueLabels /\ i = index[a]
  \/ pc[a] \in PadLabels /\ start[a] <= i

Wrote(a, i) ==
  \/ pc[a] = "count" /\ i = index[a]
  \/ pc[a] \in PadLabels /\ start[a] <= i /\ i < index[a]

Counted == {i \in Slots : i < available_index /\ \A a \in Actors : ~Owns(a, i)}

Swapped == pc[Server] \in {"zerocount", "zeroindex"}

\* The locals of a thread inside enqueue or pad_with_noops.
LocalsInv ==
  \A a \in Actors :
    /\ pc[a] \in EnqueueLabels => index[a] \in Slots
    /\ pc[a] \in {"padload", "padwrite"} => start[a] <= index[a] /\ index[a] < MaxTask
    /\ pc[a] = "padcount" => index[a] = MaxTask
    /\ Writing(a) => target[a] = queue_ptr
    /\ a \in Clients /\ pc[a] \in {"claim"} \cup EnqueueLabels => issued[a] > 0

\* A slot has at most one owner, and only claimed slots have one.
OwnersInv ==
  /\ available_index <= MaxTask
  /\ \A a \in Actors, i \in Slots : Owns(a, i) => i < available_index
  /\ \A a, b \in Actors, i \in Slots : Owns(a, i) /\ Owns(b, i) => a = b

\* enqueued_count counts the slots nobody owns any more.
CountInv ==
  /\ enqueued_count = IF pc[Server] = "zeroindex" THEN 0 ELSE Cardinality(Counted)
  /\ pc[Server] = "swap" \/ Swapped =>
       available_index = MaxTask /\ Counted = Slots

\* What the two buffers hold.
BuffersInv ==
  /\ \A i \in Slots : slots[queue_ptr][i] # Empty <=>
       ~Swapped /\ (i \in Counted \/ \E a \in Actors : Wrote(a, i))
  /\ \A i \in Slots : slots[1 - queue_ptr][i] # Empty <=> ready /\ run <= i
  /\ pc[Server] = "exec" \/ Swapped => ready
  /\ pc[Server] \notin {"exec", "loop"} /\ ~Swapped => ~ready
  /\ pc[Server] # "exec" => run = 0

(***************************************************************************)
(* The inductive invariant behind SlotsSafe: besides the types, the        *)
(* accounting of slots by available_index, enqueued_count and the threads  *)
(* inside enqueue and pad_with_noops agrees with what the buffers hold.    *)
(***************************************************************************)
SlotInv == LocalsInv /\ OwnersInv /\ CountInv /\ BuffersInv

ChannelInv == TypeOK /\ SlotInv

(***************************************************************************)
(* The channel as its callers see it: a FIFO per client, every closure run *)
(* exactly once and in order, nothing sent or run after the runner exits.  *)
(***************************************************************************)
Abstract == INSTANCE TaskChannel WITH stopped <- (pc[Server] = "stopped")

ImplementsTaskChannel == Abstract!Spec

(***************************************************************************)
(* Every call returns: enqueue does not spin forever on a full buffer,     *)
(* and run_scoped gets its result however the swap, the padding of other   *)
(* clients and the server's shutdown check interleave.                     *)
(***************************************************************************)
CallReturns == \A c \in Clients : pc[c] # "idle" ~> pc[c] = "idle"

(***************************************************************************)
(* What a client sent before it flushes runs, with no further call by      *)
(* anybody: padding always completes the buffer the closures are in.       *)
(***************************************************************************)
FlushedTasksRun ==
  \A c \in Clients : \A n \in 1..MaxIssue :
    pc[c] = "pad" /\ issued[c] >= n ~> ran[c] >= n

(***************************************************************************)
(* After request_shutdown and the drop of the last handle the runner exits *)
(* even though queued closures that hold clients sit in a partly filled    *)
(* buffer, unless one of them gives its client to another thread.          *)
(***************************************************************************)
ShutdownCompletes ==
  shutdown /\ handles = {} ~> pc[Server] = "stopped" \/ handles # {}

=============================================================================
