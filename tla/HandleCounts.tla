----------------------------- MODULE HandleCounts -----------------------------
(***************************************************************************)
(* The reference counts of one allocation (cubecl-runtime,                  *)
(* memory_management/handle.rs), at the grain of their atomic operations:   *)
(* program threads clone and drop handles and bindings of it while the      *)
(* device thread, whose pool has a handle of its own, asks is_free and      *)
(* is_bound, and a program thread asks can_mut.                             *)
(*                                                                         *)
(* A handle is cloned and dropped field by field, the descriptor first. A   *)
(* resolved binding is one that the device thread turned into a resource:   *)
(* somebody holds the address.                                              *)
(***************************************************************************)
EXTENDS Integers, FiniteSets

CONSTANTS
  Threads,      \* program threads
  MaxOwned      \* bound: handles and bindings of one thread

ASSUME CountsAssumption == MaxOwned \in Nat \ {0} /\ IsFiniteSet(Threads)

VARIABLES
  descriptor,   \* strong count of the descriptor
  handleCount,  \* strong count of handle_count
  handles, bindings,  \* [Threads -> Nat], those a thread can use
  resolved,     \* a resource made from a binding is out
  pc,           \* where a thread is in a clone, drop or binding() of a handle
  load,         \* the device thread in is_bound: "idle" or the first count read
  bound,        \* the last answer of is_bound
  steady        \* history: a resource was out for the whole of that is_bound

vars == <<descriptor, handleCount, handles, bindings, resolved, pc, load, bound, steady>>

device == <<resolved, load, bound, steady>>

NotLoaded == -1

Init ==
  /\ descriptor = 2 /\ handleCount = 2
  /\ \E t \in Threads : handles = [u \in Threads |-> IF u = t THEN 1 ELSE 0]
  /\ bindings = [t \in Threads |-> 0]
  /\ resolved = FALSE
  /\ pc = [t \in Threads |-> "idle"]
  /\ load = NotLoaded /\ bound = FALSE /\ steady = FALSE

Owned(t) == handles[t] + bindings[t]

\* Clone for ManagedMemoryHandle: two increments.
CloneDescriptor(t) ==
  /\ pc[t] = "idle" /\ handles[t] > 0 /\ Owned(t) < MaxOwned
  /\ descriptor' = descriptor + 1
  /\ pc' = [pc EXCEPT ![t] = "cloning"]
  /\ UNCHANGED <<handleCount, handles, bindings, device>>

CloneCount(t) ==
  /\ pc[t] = "cloning"
  /\ handleCount' = handleCount + 1
  /\ handles' = [handles EXCEPT ![t] = @ + 1]
  /\ pc' = [pc EXCEPT ![t] = "idle"]
  /\ UNCHANGED <<descriptor, bindings, device>>

\* The drop of a handle: the fields in their order.
DropDescriptor(t) ==
  /\ pc[t] = "idle" /\ handles[t] > 0
  /\ handles' = [handles EXCEPT ![t] = @ - 1]
  /\ descriptor' = descriptor - 1
  /\ pc' = [pc EXCEPT ![t] = "dropping"]
  /\ UNCHANGED <<handleCount, bindings, device>>

DropCount(t) ==
  /\ pc[t] = "dropping"
  /\ handleCount' = handleCount - 1
  /\ pc' = [pc EXCEPT ![t] = "idle"]
  /\ UNCHANGED <<descriptor, handles, bindings, device>>

MutantBindingUncounted(t) ==
  /\ pc[t] = "idle" /\ handles[t] > 0
  /\ handles' = [handles EXCEPT ![t] = @ - 1]
  /\ bindings' = [bindings EXCEPT ![t] = @ + 1]
  /\ pc' = [pc EXCEPT ![t] = "bound"]
  /\ UNCHANGED <<descriptor, handleCount, device>>

\* ManagedMemoryHandle::binding consumes the handle: the clone of its
\* descriptor, then its drop.
Binding(t) ==
  /\ pc[t] = "idle" /\ handles[t] > 0
  /\ descriptor' = descriptor + 1
  /\ handles' = [handles EXCEPT ![t] = @ - 1]
  /\ bindings' = [bindings EXCEPT ![t] = @ + 1]
  /\ pc' = [pc EXCEPT ![t] = "bound"]
  /\ UNCHANGED <<handleCount, device>>

BindingDrops(t) ==
  /\ pc[t] = "bound"
  /\ descriptor' = descriptor - 1
  /\ pc' = [pc EXCEPT ![t] = "dropping"]
  /\ UNCHANGED <<handleCount, handles, bindings, device>>

CloneBinding(t) ==
  /\ pc[t] = "idle" /\ bindings[t] > 0 /\ Owned(t) < MaxOwned
  /\ descriptor' = descriptor + 1
  /\ bindings' = [bindings EXCEPT ![t] = @ + 1]
  /\ UNCHANGED <<handleCount, handles, pc, device>>

DropBinding(t) ==
  /\ pc[t] = "idle" /\ bindings[t] > 0
  /\ descriptor' = descriptor - 1
  /\ bindings' = [bindings EXCEPT ![t] = @ - 1]
  /\ UNCHANGED <<handleCount, handles, pc, device>>

\* A handle is sent to another thread.
Send(t, u) ==
  /\ pc[t] = "idle" /\ pc[u] = "idle" /\ t # u
  /\ handles[t] > 0 /\ Owned(u) < MaxOwned
  /\ handles' = [handles EXCEPT ![t] = @ - 1, ![u] = @ + 1]
  /\ UNCHANGED <<descriptor, handleCount, bindings, pc, device>>

\* A thread submits a binding, the device thread makes a resource of it that
\* keeps the binding, and somebody drops the resource.
Resolve(t) ==
  /\ pc[t] = "idle" /\ bindings[t] > 0 /\ load = NotLoaded /\ ~resolved
  /\ bindings' = [bindings EXCEPT ![t] = @ - 1]
  /\ resolved' = TRUE
  /\ UNCHANGED <<descriptor, handleCount, handles, pc, load, bound, steady>>

DropResource ==
  /\ resolved /\ resolved' = FALSE /\ steady' = FALSE
  /\ descriptor' = descriptor - 1
  /\ UNCHANGED <<handleCount, handles, bindings, pc, load, bound>>

\* is_bound: two loads.
LoadDescriptor ==
  /\ load = NotLoaded
  /\ load' = descriptor
  /\ steady' = resolved
  /\ bound' = TRUE
  /\ UNCHANGED <<descriptor, handleCount, handles, bindings, resolved, pc>>

LoadCount ==
  /\ load # NotLoaded
  /\ bound' = (load > handleCount)
  /\ load' = NotLoaded
  /\ UNCHANGED <<descriptor, handleCount, handles, bindings, resolved, pc, steady>>

Thread(t) ==
  \/ CloneDescriptor(t) \/ CloneCount(t) \/ DropDescriptor(t) \/ DropCount(t)
  \/ Binding(t) \/ BindingDrops(t) \/ CloneBinding(t) \/ DropBinding(t)
  \/ Resolve(t) \/ \E u \in Threads : Send(t, u)

Next ==
  \/ \E t \in Threads : Thread(t)
  \/ DropResource \/ LoadDescriptor \/ LoadCount

Spec == Init /\ [][Next]_vars

-----------------------------------------------------------------------------
(* Answers from one load *)

IsFreeNow == descriptor <= 1

MutantMutableEarly == handleCount <= 3

CanMut == handleCount <= 2

\* How many the threads have together: one token for each.
Tokens(f) == {token \in Threads \X (1 .. MaxOwned) : token[2] <= f[token[1]]}
Total(f) == Cardinality(Tokens(f))

At(label) == {t \in Threads : pc[t] = label}
In(label) == Cardinality(At(label))

\* The counts are those of the owners, give or take the handles in the middle
\* of a clone or a drop.
TypeOK ==
  /\ descriptor = 1 + Total(handles) + Total(bindings) + (IF resolved THEN 1 ELSE 0)
                    + In("cloning") + In("bound")
  /\ handleCount = 1 + Total(handles) + In("dropping") + In("bound")
  /\ handles \in [Threads -> 0 .. MaxOwned] /\ bindings \in [Threads -> 0 .. MaxOwned]
  /\ pc \in [Threads -> {"idle", "cloning", "dropping", "bound"}]
  /\ resolved \in BOOLEAN

\* When is_free answers true nobody outside the pool has a handle, a binding or
\* the address, nor is about to: the slice can be handed to another allocation.
FreeIsUnowned ==
  IsFreeNow => /\ ~resolved
               /\ \A t \in Threads : Owned(t) = 0 /\ pc[t] \in {"idle", "dropping"}

\* The counts balance, so is_free is never early.
CountsInv == TypeOK /\ FreeIsUnowned

\* When can_mut answers true for a handle of t, no other thread has a handle or
\* is making one, so what t writes in place nobody else can come to read by it.
CanMutExclusive ==
  \A t, u \in Threads : CanMut /\ handles[t] > 0 /\ t # u => handles[u] = 0 /\ pc[u] # "cloning"

\* is_bound: "Handles and bindings share the descriptor, and only handles count
\* in `handle_count`, so the difference is the bindings." A resource that was
\* out from the first load to the second is seen.
BoundSeen == load = NotLoaded /\ steady => bound
=============================================================================
