------------------------ MODULE DeviceChannelProofs ------------------------
(***************************************************************************)
(* The slots of DeviceChannel, for any number of clients and calls and any *)
(* buffer size, as long as no stall of the server wraps available_index:   *)
(* TypeOK /\ SlotInv is inductive. First the accounting of slots, the calls,*)
(* and what enqueue and pad_with_noops do with slots (the fetch_add that   *)
(* claims them, the load of queue_ptr, the writes and the counts), then the*)
(* server's steps and the theorems. Last, the order: closures of one client*)
(* run once each, in the order it sent them, and the runner exits only when*)
(* all of them ran, so the channel implements TaskChannel.                 *)
(***************************************************************************)
EXTENDS DeviceChannel, FiniteSetTheorems, TLAPS

USE ZenonT(3), SMTT(20)

Inv == TypeOK /\ SlotInv

Busy == EnqueueLabels \cup PadLabels

LEMMA LabelFacts ==
  /\ \A l \in {"idle", "claim", "pad", "wait", "loop", "exec", "size", "swap",
               "zerocount", "zeroindex", "refs", "drain", "stopped"} : l \notin Busy
  /\ "load" \in EnqueueLabels /\ "write" \in EnqueueLabels /\ "count" \in EnqueueLabels
  /\ "padload" \in PadLabels /\ "padwrite" \in PadLabels /\ "padcount" \in PadLabels
  /\ EnqueueLabels \cap PadLabels = {}
BY DEF Busy, EnqueueLabels, PadLabels

LEMMA SlotsFinite ==
  /\ IsFiniteSet(Slots)
  /\ Cardinality(Slots) = MaxTask
<1>1. MaxTask - 1 \in Int /\ 0 \in Int
  BY ChannelAssumption
<1>2. QED
  BY <1>1, FS_Interval, ChannelAssumption DEF Slots

LEMMA SubsetOfSlots ==
  ASSUME NEW S \in SUBSET Slots
  PROVE  /\ IsFiniteSet(S)
         /\ Cardinality(S) \in 0..MaxTask
         /\ Cardinality(S) = MaxTask => S = Slots
<1>1. /\ IsFiniteSet(S) /\ Cardinality(S) <= Cardinality(Slots)
      /\ Cardinality(S) = Cardinality(Slots) => S = Slots
  BY SlotsFinite, FS_Subset
<1>2. Cardinality(S) \in Nat
  BY <1>1, FS_CardinalityType
<1>3. QED
  BY <1>1, <1>2, SlotsFinite, ChannelAssumption

LEMMA CountedFinite ==
  /\ IsFiniteSet(Counted)
  /\ Cardinality(Counted) \in 0..MaxTask
  /\ Cardinality(Counted) = MaxTask => Counted = Slots
<1>1. Counted \subseteq Slots
  BY DEF Counted
<1>2. QED
  BY <1>1, SubsetOfSlots

(***************************************************************************)
(* A step in which no thread enters or leaves enqueue or pad_with_noops,   *)
(* and which touches neither the buffers nor the counters, keeps the       *)
(* accounting of the slots, unless the server begins to swap or execute.   *)
(***************************************************************************)
LEMMA Quiet ==
  ASSUME Inv, TypeOK',
         UNCHANGED <<queue_ptr, available_index, enqueued_count, slots,
                     index, start, target, ready, run>>,
         \A c \in Clients : pc'[c] \in {"claim"} \cup EnqueueLabels => issued'[c] > 0,
         \A a \in Actors : pc'[a] = pc[a] \/ (pc[a] \notin Busy /\ pc'[a] \notin Busy),
         \/ pc'[Server] = pc[Server]
         \/ /\ pc[Server] \notin {"exec", "swap", "zerocount", "zeroindex"}
            /\ pc'[Server] \notin {"exec", "swap", "zerocount", "zeroindex"}
            /\ pc'[Server] # "loop" => ~ready
  PROVE  SlotInv'
<1> USE DEF Inv
<1>1. \A a \in Actors : \A i : Owns(a, i)' <=> Owns(a, i)
  BY DEF Owns, Busy
<1>2. \A a \in Actors : \A i : Wrote(a, i)' <=> Wrote(a, i)
  BY DEF Wrote, Busy, EnqueueLabels
<1>3. Counted' = Counted
  BY <1>1 DEF Counted
<1>4. Swapped' <=> Swapped
  BY DEF Swapped
<1>5. LocalsInv'
  BY DEF LocalsInv, SlotInv, Writing, Busy, EnqueueLabels, PadLabels
<1>6. OwnersInv'
  BY <1>1 DEF OwnersInv, SlotInv
<1>7. CountInv'
  BY <1>3, <1>4 DEF CountInv, SlotInv
<1>8. BuffersInv'
  BY <1>2, <1>3, <1>4 DEF BuffersInv, SlotInv
<1>9. QED
  BY <1>5, <1>6, <1>7, <1>8 DEF SlotInv

(***************************************************************************)
(* One lemma per group of actions: calls and returns of clients.           *)
(***************************************************************************)
LEMMA CallStep ==
  ASSUME Inv, NEW c \in Clients, ClientCall(c) \/ Return(c)
  PROVE  Inv'
<1> USE ChannelAssumption DEF Inv, Actors, vars, shared, refs, locals, serverVars, calls
<1>1. CASE (\E d \in Clients : Clone(c, d)) \/ DropHandle(c) \/ RequestShutdown(c)
  <2>1. /\ UNCHANGED <<queue_ptr, available_index, enqueued_count, slots, locals, serverVars,
                       calls, clones>>
        /\ handles' \subseteq Clients /\ shutdown' \in BOOLEAN
    BY <1>1, Zenon DEF Clone, DropHandle, RequestShutdown, TypeOK
  <2>2. TypeOK'
    BY <2>1, SMTT(30) DEF TypeOK
  <2>3. SlotInv'
    BY <2>1, <2>2, Quiet DEF SlotInv, LocalsInv
  <2>4. QED
    BY <2>2, <2>3
<1>2. CASE (\E w, h \in BOOLEAN : Send(c, w, h)) \/ Flush(c) \/ Return(c)
  <2>1. PICK l \in {"claim", "pad", "idle"} :
          /\ pc' = [pc EXCEPT ![c] = l]
          /\ l = "claim" => issued' = [issued EXCEPT ![c] = @ + 1]
          /\ l # "claim" => issued' = issued
    BY <1>2 DEF Send, Flush, Return, Goto
  <2>2. /\ UNCHANGED <<queue_ptr, available_index, enqueued_count, slots, shutdown,
                       index, start, target, ready, run, idle_count, is_last_ref, handles, ran>>
        /\ pc[c] \in {"idle", "wait"}
        /\ blocking' \subseteq Clients
        /\ issued' \in [Clients -> 0..MaxIssue] /\ flushes' \in [Clients -> 0..MaxFlush]
    BY <1>2 DEF Send, Flush, Return, TypeOK
  <2>3. clones' \subseteq Tasks
    <3>1. issued[c] < MaxIssue => <<c, issued[c] + 1>> \in Tasks
      BY DEF TypeOK, Tasks
    <3>2. QED
      BY <1>2, <3>1 DEF Send, Flush, Return, TypeOK
  <2>4. TypeOK'
    BY <2>1, <2>2, <2>3, SMTT(30) DEF TypeOK, ClientLabels
  <2>5. /\ \A a \in Actors : a # c => pc'[a] = pc[a]
        /\ pc[c] \notin Busy /\ pc'[c] \notin Busy
    BY <2>1, <2>2, LabelFacts DEF TypeOK
  <2>6. \A d \in Clients : pc'[d] \in {"claim"} \cup EnqueueLabels => issued'[d] > 0
    BY <2>1 DEF TypeOK, SlotInv, LocalsInv, EnqueueLabels
  <2>7. SlotInv'
    BY <2>2, <2>4, <2>5, <2>6, Quiet
  <2>8. QED
    BY <2>4, <2>7
<1>3. QED
  BY <1>1, <1>2 DEF ClientCall

(***************************************************************************)
(* A fetch_add on available_index gives its slots to the thread that did   *)
(* it, and nobody's count changes.                                         *)
(***************************************************************************)
LEMMA FetchAddFacts ==
  ASSUME ~Wrapping, Inv, NEW n \in 1..MaxTask
  PROVE  /\ FetchAdd(available_index, n) \in 0..(IndexSpan - 1)
         /\ FetchAdd(available_index, n) <= MaxTask
         /\ available_index >= MaxTask => FetchAdd(available_index, n) = available_index
         /\ available_index < MaxTask => FetchAdd(available_index, 1) = available_index + 1
         /\ FetchAdd(available_index, MaxTask) = MaxTask
BY ChannelAssumption DEF FetchAdd, Inv, TypeOK, SlotInv, OwnersInv

LEMMA ClaimStep ==
  ASSUME ~Wrapping, Inv, NEW c \in Clients, Claim(c)
  PROVE  Inv'
<1> USE ChannelAssumption DEF Actors, shared, refs, locals, serverVars, calls
<1>1. /\ available_index' \in 0..(IndexSpan - 1)
      /\ available_index \in Nat
      /\ available_index' <= MaxTask
      /\ available_index >= MaxTask => available_index' = available_index
      /\ available_index < MaxTask => available_index' = available_index + 1
  BY FetchAddFacts DEF Claim, Inv, TypeOK
<1>2. TypeOK'
  BY <1>1, SMTT(30) DEF Claim, Goto, Inv, TypeOK, ClientLabels, EnqueueLabels
<1>3. CASE available_index >= MaxTask
  <2>1. SlotInv'
    BY <1>1, <1>2, <1>3, Quiet DEF Claim, Inv, TypeOK, SlotInv, LocalsInv
  <2>2. QED
    BY <1>2, <2>1 DEF Inv
<1>4. CASE available_index < MaxTask
  <2>1. /\ \A a \in Actors : a # c => pc'[a] = pc[a] /\ index'[a] = index[a]
        /\ pc[c] = "claim" /\ pc'[c] = "load" /\ index'[c] = available_index
        /\ UNCHANGED <<start, target, queue_ptr, slots, enqueued_count, ready, run, issued>>
        /\ pc'[Server] = pc[Server]
    BY <1>1, <1>4, SMTT(30) DEF Claim, Goto, Inv, TypeOK
  <2>2. \A a \in Actors, i \in Slots :
          /\ a # c => (Owns(a, i)' <=> Owns(a, i))
          /\ Owns(c, i)' <=> i = available_index
          /\ ~Owns(c, i)
    BY <2>1 DEF Owns, EnqueueLabels, PadLabels
  <2>3. \A a \in Actors, i \in Slots : Wrote(a, i)' <=> Wrote(a, i)
    BY <2>1 DEF Wrote, EnqueueLabels, PadLabels
  <2>4. Counted' = Counted
    BY <1>1, <1>4, <2>2 DEF Counted, Slots
  <2>5. LocalsInv'
    BY <1>1, <1>4, <2>1 DEF Inv, SlotInv, LocalsInv, Writing, EnqueueLabels, Slots
  <2>6. OwnersInv'
    BY <1>1, <1>4, <2>2 DEF Inv, SlotInv, OwnersInv, Slots
  <2>7. CountInv'
    BY <1>1, <1>4, <2>1, <2>4 DEF Inv, SlotInv, CountInv, Swapped
  <2>8. BuffersInv'
    BY <2>1, <2>3, <2>4 DEF Inv, SlotInv, BuffersInv, Swapped
  <2>9. QED
    BY <1>2, <2>5, <2>6, <2>7, <2>8 DEF Inv, SlotInv
<1>5. QED
  BY <1>1, <1>3, <1>4

LEMMA PadClaimStep ==
  ASSUME ~Wrapping, Inv, NEW a \in Actors, PadClaim(a)
  PROVE  Inv'
<1> USE ChannelAssumption DEF Actors, shared, refs, locals, serverVars, calls, AlreadyFlushed
<1>1. /\ available_index' = MaxTask
      /\ available_index \in Nat
      /\ available_index >= MaxTask => available_index' = available_index
  BY FetchAddFacts DEF PadClaim, Inv, TypeOK
<1>2. TypeOK'
  <2>1. available_index' \in 0..(IndexSpan - 1)
    BY <1>1
  <2>2. /\ index' \in [Actors -> 0..MaxTask]
        /\ start' \in [Actors -> Slots]
    <3>1. CASE available_index >= MaxTask
      BY <3>1 DEF PadClaim, Inv, TypeOK
    <3>2. CASE available_index < MaxTask
      <4>1. available_index \in Slots /\ available_index \in 0..MaxTask
        BY <1>1, <3>2 DEF Slots
      <4>2. /\ index' = [index EXCEPT ![a] = available_index]
            /\ start' = [start EXCEPT ![a] = available_index]
        BY <1>1, <3>2 DEF PadClaim
      <4>3. QED
        BY <4>1, <4>2 DEF Inv, TypeOK
    <3>3. QED
      BY <1>1, <3>1, <3>2
  <2>3. \E l \in {AfterPad(a), "padload"} : pc' = [pc EXCEPT ![a] = l]
    BY DEF PadClaim, Goto
  <2>4. /\ pc' \in [Actors -> ClientLabels \cup ServerLabels]
        /\ pc'[Server] \in ServerLabels
        /\ \A c \in Clients : pc'[c] \in ClientLabels
    BY <2>3 DEF AfterPad, Inv, TypeOK, ClientLabels, ServerLabels, PadLabels
  <2>5. QED
    BY <2>1, <2>2, <2>4 DEF PadClaim, Inv, TypeOK
<1>3. CASE available_index >= MaxTask
  <2>1. /\ \A b \in Actors : b # a => pc'[b] = pc[b]
        /\ pc[a] \notin Busy /\ pc'[a] \notin Busy
        /\ a = Server => pc[Server] = "pad" /\ pc'[Server] = "loop"
        /\ pc'[a] # "claim"
        /\ UNCHANGED <<start, index, issued>>
    BY <1>3, LabelFacts DEF PadClaim, Goto, AfterPad, Inv, TypeOK
  <2>2. \A d \in Clients : pc'[d] \in {"claim"} \cup EnqueueLabels => issued'[d] > 0
    BY <2>1 DEF Inv, SlotInv, LocalsInv, Busy
  <2>3. SlotInv'
    BY <1>1, <1>2, <1>3, <2>1, <2>2, Quiet DEF PadClaim
  <2>4. QED
    BY <1>2, <2>3 DEF Inv
<1>4. CASE available_index < MaxTask
  <2>1. /\ \A b \in Actors : b # a => /\ pc'[b] = pc[b] /\ index'[b] = index[b]
                                      /\ start'[b] = start[b]
        /\ pc[a] = "pad" /\ pc'[a] = "padload"
        /\ index'[a] = available_index /\ start'[a] = available_index
        /\ UNCHANGED <<target, queue_ptr, slots, enqueued_count, ready, run, issued>>
    BY <1>1, <1>4 DEF PadClaim, Goto, Inv, TypeOK
  <2>2. \A b \in Actors, i \in Slots :
          /\ b # a => (Owns(b, i)' <=> Owns(b, i))
          /\ Owns(a, i)' <=> available_index <= i
          /\ ~Owns(a, i)
    BY <2>1 DEF Owns, EnqueueLabels, PadLabels
  <2>3. \A b \in Actors, i \in Slots : Wrote(b, i)' <=> Wrote(b, i)
    BY <1>1, <2>1 DEF Wrote, EnqueueLabels, PadLabels, Slots
  <2>4. Counted' = Counted
    BY <1>1, <1>4, <2>2 DEF Counted, Slots
  <2>5. LocalsInv'
    BY <1>1, <1>4, <2>1 DEF Inv, SlotInv, LocalsInv, Writing, EnqueueLabels, Slots
  <2>6. OwnersInv'
    BY <1>1, <1>4, <2>2 DEF Inv, SlotInv, OwnersInv, Slots
  <2>7. CountInv'
    BY <1>1, <1>4, <2>1, <2>4 DEF Inv, SlotInv, CountInv, Swapped
  <2>8. BuffersInv'
    BY <2>1, <2>3, <2>4 DEF Inv, SlotInv, BuffersInv, Swapped
  <2>9. QED
    BY <1>2, <2>5, <2>6, <2>7, <2>8 DEF Inv, SlotInv
<1>5. QED
  BY <1>1, <1>3, <1>4

(***************************************************************************)
(* Loading queue_ptr.  While a thread owns a slot, the server is in no     *)
(* phase of a swap.                                                        *)
(***************************************************************************)
LEMMA OwnerBlocksSwap ==
  ASSUME Inv, NEW a \in Actors, NEW i \in Slots, Owns(a, i)
  PROVE  /\ i \notin Counted
         /\ pc[Server] # "swap" /\ ~Swapped
BY DEF Inv, SlotInv, CountInv, Counted

LEMMA LoadPtrStep ==
  ASSUME Inv, NEW a \in Actors,
         \/ a \in Clients /\ LoadPtr(a, "load", "write")
         \/ LoadPtr(a, "padload", "padwrite")
  PROVE  Inv'
<1> USE ChannelAssumption DEF Actors, shared, refs, locals, serverVars, calls
<1>1. TypeOK'
  BY SMTT(30) DEF LoadPtr, Goto, Inv, TypeOK, ClientLabels, ServerLabels, EnqueueLabels, PadLabels
<1>2. /\ \A b \in Actors : b # a => pc'[b] = pc[b] /\ target'[b] = target[b]
      /\ target'[a] = queue_ptr
      /\ \/ pc[a] = "load" /\ pc'[a] = "write"
         \/ pc[a] = "padload" /\ pc'[a] = "padwrite"
      /\ UNCHANGED <<index, start, available_index, queue_ptr, slots, enqueued_count,
                     ready, run, issued>>
      /\ a = Server => pc[Server] = "padload" /\ pc'[Server] = "padwrite"
  BY DEF LoadPtr, Goto, Inv, TypeOK
<1>3. \A b \in Actors, i \in Slots : Owns(b, i)' <=> Owns(b, i)
  BY <1>2 DEF Owns, EnqueueLabels, PadLabels
<1>4. \A b \in Actors, i \in Slots : Wrote(b, i)' <=> Wrote(b, i)
  BY <1>2 DEF Wrote, EnqueueLabels, PadLabels
<1>5. Counted' = Counted
  BY <1>2, <1>3 DEF Counted
<1>6. LocalsInv'
  BY <1>2 DEF Inv, SlotInv, LocalsInv, Writing, EnqueueLabels, PadLabels
<1>7. OwnersInv'
  BY <1>2, <1>3 DEF Inv, SlotInv, OwnersInv
<1>8. CountInv'
  BY <1>2, <1>5 DEF Inv, SlotInv, CountInv, Swapped
<1>9. BuffersInv'
  BY <1>2, <1>4, <1>5 DEF Inv, SlotInv, BuffersInv, Swapped
<1>10. QED
  BY <1>1, <1>6, <1>7, <1>8, <1>9 DEF Inv, SlotInv

-----------------------------------------------------------------------------
(* The writes, and the counts that end them *)

LEMMA WriteTaskStep ==
  ASSUME Inv, NEW c \in Clients, WriteTask(c)
  PROVE  Inv'
<1> USE ChannelAssumption DEF Actors, shared, refs, locals, serverVars, calls
<1>1. /\ index[c] \in Slots /\ target[c] = queue_ptr /\ queue_ptr \in {0, 1}
      /\ <<c, issued[c]>> \in Tasks /\ <<c, issued[c]>> # Empty
  <2>1. issued[c] \in 1..MaxIssue
    BY DEF WriteTask, Inv, TypeOK, SlotInv, LocalsInv, EnqueueLabels
  <2>2. <<c, issued[c]>> \in Tasks
    BY <2>1 DEF Tasks
  <2>3. QED
    BY <2>2 DEF WriteTask, Inv, TypeOK, SlotInv, LocalsInv, EnqueueLabels, Writing
<1>2. TypeOK'
  BY <1>1, SMTT(30) DEF WriteTask, Goto, Inv, TypeOK, ClientLabels, EnqueueLabels
<1>3. /\ \A b \in Actors : b # c => pc'[b] = pc[b]
      /\ pc[c] = "write" /\ pc'[c] = "count"
      /\ UNCHANGED <<index, start, target, available_index, queue_ptr, enqueued_count,
                     ready, run, issued>>
      /\ pc'[Server] = pc[Server]
  BY DEF WriteTask, Goto, Inv, TypeOK
<1>4. /\ \A i \in Slots : slots'[queue_ptr][i] =
              IF i = index[c] THEN <<c, issued[c]>> ELSE slots[queue_ptr][i]
      /\ slots'[1 - queue_ptr] = slots[1 - queue_ptr]
  BY <1>1 DEF WriteTask, Inv, TypeOK
<1>5. Owns(c, index[c])
  BY <1>3 DEF Owns, EnqueueLabels
<1>6. \A b \in Actors, i \in Slots : Owns(b, i)' <=> Owns(b, i)
  BY <1>3 DEF Owns, EnqueueLabels, PadLabels
<1>7. \A b \in Actors, i \in Slots :
        Wrote(b, i)' <=> Wrote(b, i) \/ (b = c /\ i = index[c])
  BY <1>3 DEF Wrote, EnqueueLabels, PadLabels
<1>8. Counted' = Counted
  BY <1>3, <1>6 DEF Counted
<1>9. ~Swapped
  BY <1>1, <1>5, OwnerBlocksSwap
<1>10. LocalsInv'
  BY <1>3 DEF Inv, SlotInv, LocalsInv, Writing, EnqueueLabels, PadLabels
<1>11. OwnersInv'
  BY <1>3, <1>6 DEF Inv, SlotInv, OwnersInv
<1>12. CountInv'
  BY <1>3, <1>8 DEF Inv, SlotInv, CountInv, Swapped
<1>13. BuffersInv'
  BY <1>1, <1>3, <1>4, <1>7, <1>8, <1>9 DEF Inv, SlotInv, BuffersInv, Swapped
<1>14. QED
  BY <1>2, <1>10, <1>11, <1>12, <1>13 DEF Inv, SlotInv

LEMMA PadWriteStep ==
  ASSUME Inv, NEW a \in Actors, PadWrite(a)
  PROVE  Inv'
<1> USE ChannelAssumption DEF Actors, shared, refs, locals, serverVars, calls
<1>1. /\ index[a] \in Slots /\ target[a] = queue_ptr /\ queue_ptr \in {0, 1}
      /\ start[a] \in Slots /\ start[a] <= index[a]
  BY DEF PadWrite, Inv, TypeOK, SlotInv, LocalsInv, Writing, Slots
<1>2. TypeOK'
  <2>1. slots' \in [{0, 1} -> [Slots -> Tasks \cup {Noop, Empty}]]
    BY <1>1 DEF PadWrite, Inv, TypeOK
  <2>2. index' \in [Actors -> 0..MaxTask]
    BY <1>1 DEF PadWrite, Inv, TypeOK, Slots
  <2>3. \E l \in PadLabels : pc' = [pc EXCEPT ![a] = l]
    BY Zenon DEF PadWrite, Goto, PadLabels
  <2>4. /\ pc' \in [Actors -> ClientLabels \cup ServerLabels]
        /\ pc'[Server] \in ServerLabels
        /\ \A c \in Clients : pc'[c] \in ClientLabels
    BY <2>3 DEF Inv, TypeOK, ClientLabels, ServerLabels
  <2>5. QED
    BY <2>1, <2>2, <2>4, SMTT(30) DEF PadWrite, Inv, TypeOK
<1>3. /\ \A b \in Actors : b # a => pc'[b] = pc[b] /\ index'[b] = index[b]
      /\ pc[a] = "padwrite" /\ index'[a] = index[a] + 1
      /\ pc'[a] = IF index[a] + 1 < MaxTask THEN "padload" ELSE "padcount"
      /\ UNCHANGED <<start, target, available_index, queue_ptr, enqueued_count,
                     ready, run, issued>>
  BY DEF PadWrite, Goto, Inv, TypeOK
<1>4. /\ \A i \in Slots : slots'[queue_ptr][i] =
              IF i = index[a] THEN Noop ELSE slots[queue_ptr][i]
      /\ slots'[1 - queue_ptr] = slots[1 - queue_ptr]
  BY <1>1 DEF PadWrite, Inv, TypeOK
<1>5. Owns(a, index[a])
  BY <1>1, <1>3 DEF Owns, PadLabels
<1>6. \A b \in Actors, i \in Slots : Owns(b, i)' <=> Owns(b, i)
  BY <1>3 DEF Owns, EnqueueLabels, PadLabels
<1>7. \A b \in Actors, i \in Slots :
        Wrote(b, i)' <=> Wrote(b, i) \/ (b = a /\ i = index[a])
  BY <1>1, <1>3 DEF Wrote, EnqueueLabels, PadLabels, Slots
<1>8. Counted' = Counted
  BY <1>3, <1>6 DEF Counted
<1>9. ~Swapped /\ pc[Server] # "swap"
  BY <1>1, <1>5, OwnerBlocksSwap
<1>10. LocalsInv'
  BY <1>1, <1>3 DEF Inv, SlotInv, LocalsInv, Writing, EnqueueLabels, PadLabels, Slots
<1>11. OwnersInv'
  BY <1>3, <1>6 DEF Inv, SlotInv, OwnersInv
<1>12. /\ Swapped' <=> Swapped
       /\ pc'[Server] = "exec" <=> pc[Server] = "exec"
       /\ pc'[Server] = "loop" <=> pc[Server] = "loop"
       /\ pc'[Server] = "swap" <=> pc[Server] = "swap"
       /\ pc'[Server] = "zeroindex" <=> pc[Server] = "zeroindex"
  BY <1>3 DEF Swapped
<1>13. CountInv'
  BY <1>3, <1>8, <1>12 DEF Inv, SlotInv, CountInv
<1>14. BuffersInv'
  <2>1. \A i \in Slots : slots'[queue_ptr][i] # Empty <=>
          i \in Counted \/ i = index[a] \/ \E b \in Actors : Wrote(b, i)
    BY <1>1, <1>4, <1>9 DEF Inv, SlotInv, BuffersInv
  <2>2. \A i \in Slots : slots'[queue_ptr][i] # Empty <=>
          i \in Counted' \/ \E b \in Actors : Wrote(b, i)'
    BY <1>7, <1>8, <2>1
  <2>3. QED
    BY <1>3, <1>4, <1>9, <1>12, <2>2 DEF Inv, SlotInv, BuffersInv
<1>15. QED
  BY <1>2, <1>10, <1>11, <1>13, <1>14 DEF Inv, SlotInv

(***************************************************************************)
(* Counting: the slots a thread owned become counted, all at once.         *)
(***************************************************************************)
LEMMA CountTaskStep ==
  ASSUME Inv, NEW c \in Clients, CountTask(c)
  PROVE  Inv'
<1> USE ChannelAssumption DEF Actors, shared, refs, locals, serverVars, calls
<1>1. /\ index[c] \in Slots /\ queue_ptr \in {0, 1}
      /\ available_index \in Nat /\ pc[c] = "count"
  BY DEF CountTask, Inv, TypeOK, SlotInv, LocalsInv, EnqueueLabels
<1>2. /\ \A b \in Actors : b # c => /\ pc'[b] = pc[b] /\ index'[b] = index[b]
                                    /\ start'[b] = start[b] /\ target'[b] = target[b]
      /\ pc'[c] \in {"pad", "idle"}
      /\ enqueued_count' = enqueued_count + 1
      /\ UNCHANGED <<available_index, queue_ptr, slots, ready, run, issued>>
      /\ pc'[Server] = pc[Server]
  BY DEF CountTask, Goto, OutOfScope, Inv, TypeOK
<1>3. Owns(c, index[c])
  BY <1>1 DEF Owns, EnqueueLabels
<1>4. index[c] \notin Counted /\ ~Swapped /\ pc[Server] # "swap" /\ index[c] < available_index
  BY <1>1, <1>3, OwnerBlocksSwap DEF Inv, SlotInv, OwnersInv
<1>5. \A b \in Actors, i \in Slots :
        Owns(b, i)' <=> Owns(b, i) /\ ~(b = c /\ i = index[c])
  BY <1>1, <1>2 DEF Owns, EnqueueLabels, PadLabels
<1>6. \A b \in Actors, i \in Slots :
        Wrote(b, i)' <=> Wrote(b, i) /\ ~(b = c /\ i = index[c])
  BY <1>1, <1>2 DEF Wrote, EnqueueLabels, PadLabels
<1>7. Counted' = Counted \cup {index[c]}
  <2>1. \A i \in Slots : i \in Counted' <=> i \in Counted \/ i = index[c]
    BY <1>1, <1>2, <1>3, <1>4, <1>5 DEF Counted, Inv, SlotInv, OwnersInv
  <2>2. QED
    BY <1>1, <2>1 DEF Counted
<1>8. /\ Cardinality(Counted') = Cardinality(Counted) + 1
      /\ Cardinality(Counted') \in 0..MaxTask
  <2>1. Counted' \subseteq Slots
    BY DEF Counted
  <2>2. Cardinality(Counted') = Cardinality(Counted) + 1
    BY <1>4, <1>7, CountedFinite, FS_AddElement, Zenon
  <2>3. Cardinality(Counted') \in 0..MaxTask
    BY <2>1, SubsetOfSlots
  <2>4. QED
    BY <2>2, <2>3
<1>9. CountInv'
  BY <1>2, <1>4, <1>8 DEF Inv, SlotInv, CountInv, Swapped
<1>10. TypeOK'
  <2>1. enqueued_count' \in 0..MaxTask
    BY <1>8, <1>9 DEF CountInv
  <2>2. \E l \in {"pad", "idle"} : pc' = [pc EXCEPT ![c] = l]
    BY Zenon DEF CountTask, Goto
  <2>3. /\ pc' \in [Actors -> ClientLabels \cup ServerLabels]
        /\ pc'[Server] \in ServerLabels
        /\ \A d \in Clients : pc'[d] \in ClientLabels
    BY <2>2 DEF Inv, TypeOK, ClientLabels
  <2>4. /\ index' \in [Actors -> 0..MaxTask] /\ start' \in [Actors -> Slots]
        /\ target' \in [Actors -> {0, 1}]
    BY DEF CountTask, OutOfScope, Inv, TypeOK, Slots
  <2>5. QED
    BY <2>1, <2>3, <2>4, SMTT(30) DEF CountTask, Inv, TypeOK
<1>11. LocalsInv'
  BY <1>2 DEF Inv, SlotInv, LocalsInv, Writing, EnqueueLabels, PadLabels
<1>12. OwnersInv'
  BY <1>2, <1>5 DEF Inv, SlotInv, OwnersInv
<1>13. BuffersInv'
  <2>1. Wrote(c, index[c])
    BY <1>1 DEF Wrote
  <2>2. QED
    BY <1>1, <1>2, <1>4, <1>6, <1>7, <2>1 DEF Inv, SlotInv, BuffersInv, Swapped
<1>14. QED
  BY <1>9, <1>10, <1>11, <1>12, <1>13 DEF Inv, SlotInv

LEMMA PadCountStep ==
  ASSUME Inv, NEW a \in Actors, PadCount(a)
  PROVE  Inv'
<1> USE ChannelAssumption DEF Actors, shared, refs, locals, serverVars, calls
<1> DEFINE Padded == start[a]..(MaxTask - 1)
<1>1. /\ start[a] \in Slots /\ queue_ptr \in {0, 1} /\ index[a] = MaxTask
      /\ available_index \in Nat /\ pc[a] = "padcount"
  BY DEF PadCount, Inv, TypeOK, SlotInv, LocalsInv
<1>2. /\ \A b \in Actors : b # a => /\ pc'[b] = pc[b] /\ index'[b] = index[b]
                                    /\ start'[b] = start[b] /\ target'[b] = target[b]
      /\ pc'[a] = AfterPad(a)
      /\ enqueued_count' = enqueued_count + (MaxTask - start[a])
      /\ UNCHANGED <<available_index, queue_ptr, slots, ready, run, issued>>
  BY DEF PadCount, PadAdded, Goto, OutOfScope, Inv, TypeOK
<1>3. /\ \A i \in Slots : i \in Padded <=> start[a] <= i
      /\ Padded \subseteq Slots
      /\ start[a] \in Padded
  BY <1>1 DEF Slots
<1>4. \A i \in Slots : Owns(a, i) <=> i \in Padded
  BY <1>1, <1>3 DEF Owns, EnqueueLabels, PadLabels
<1>5. /\ Padded \cap Counted = {} /\ ~Swapped /\ pc[Server] # "swap"
      /\ \A i \in Padded : i < available_index
  BY <1>1, <1>3, <1>4, OwnerBlocksSwap DEF Inv, SlotInv, OwnersInv
<1>6. \A b \in Actors, i \in Slots :
        Owns(b, i)' <=> Owns(b, i) /\ b # a
  BY <1>2 DEF Owns, AfterPad, EnqueueLabels, PadLabels
<1>7. \A b \in Actors, i \in Slots :
        /\ Wrote(b, i)' <=> Wrote(b, i) /\ b # a
        /\ Wrote(a, i) <=> i \in Padded
  BY <1>1, <1>2, <1>3 DEF Wrote, AfterPad, EnqueueLabels, PadLabels, Slots
<1>8. Counted' = Counted \cup Padded
  <2>1. \A i \in Slots : i \in Counted' <=> i \in Counted \/ i \in Padded
    BY <1>2, <1>4, <1>5, <1>6 DEF Counted, Inv, SlotInv, OwnersInv
  <2>2. Counted \subseteq Slots /\ Counted' \subseteq Slots
    BY DEF Counted
  <2>3. QED
    BY <1>3, <2>1, <2>2
<1>9. /\ Cardinality(Counted') = Cardinality(Counted) + (MaxTask - start[a])
      /\ Cardinality(Counted') \in 0..MaxTask
  <2>1. Counted' \subseteq Slots
    BY DEF Counted
  <2>2. IsFiniteSet(Padded) /\ Cardinality(Padded) = MaxTask - start[a]
    <3>1. start[a] \in Int /\ MaxTask - 1 \in Int /\ ~(start[a] > MaxTask - 1)
      BY <1>1 DEF Slots
    <3>2. IsFiniteSet(Padded) /\ Cardinality(Padded) = (MaxTask - 1) - start[a] + 1
      BY <3>1, FS_Interval
    <3>3. QED
      BY <3>1, <3>2
  <2>3. Cardinality(Counted \cap Padded) = 0
    <3>1. Counted \cap Padded = {}
      BY <1>5
    <3>2. QED
      BY <3>1, FS_EmptySet, Zenon
  <2>4. Cardinality(Counted \cup Padded) =
           Cardinality(Counted) + Cardinality(Padded) - Cardinality(Counted \cap Padded)
    BY <2>2, CountedFinite, FS_Union, Zenon
  <2>5. Cardinality(Counted) \in Nat
    BY CountedFinite
  <2>6. Cardinality(Counted') = Cardinality(Counted) + (MaxTask - start[a])
    <3>1. start[a] \in Int /\ MaxTask \in Int
      BY <1>1 DEF Slots
    <3>2. QED
      BY <1>8, <2>2, <2>3, <2>4, <2>5, <3>1
  <2>7. Cardinality(Counted') \in 0..MaxTask
    BY <2>1, SubsetOfSlots
  <2>8. QED
    BY <2>6, <2>7
<1>10. /\ Swapped' <=> Swapped
       /\ (pc'[Server] # "exec" /\ pc[Server] # "exec") \/ pc'[Server] = pc[Server]
       /\ pc'[Server] = "loop" \/ pc'[Server] = pc[Server]
       /\ pc'[Server] = "swap" <=> pc[Server] = "swap"
       /\ pc'[Server] = "zeroindex" <=> pc[Server] = "zeroindex"
  BY <1>1, <1>2 DEF Swapped, AfterPad
<1>11. CountInv'
  BY <1>2, <1>5, <1>9, <1>10 DEF Inv, SlotInv, CountInv, Swapped
<1>12. TypeOK'
  <2>1. enqueued_count' \in 0..MaxTask
    BY <1>9, <1>11 DEF CountInv
  <2>2. pc' = [pc EXCEPT ![a] = AfterPad(a)]
    BY DEF PadCount, Goto
  <2>3. /\ pc' \in [Actors -> ClientLabels \cup ServerLabels]
        /\ pc'[Server] \in ServerLabels
        /\ \A d \in Clients : pc'[d] \in ClientLabels
    BY <2>2 DEF AfterPad, Inv, TypeOK, ClientLabels, ServerLabels
  <2>4. /\ index' \in [Actors -> 0..MaxTask] /\ start' \in [Actors -> Slots]
        /\ target' \in [Actors -> {0, 1}]
    BY SMTT(30) DEF PadCount, OutOfScope, Inv, TypeOK, Slots
  <2>5. QED
    BY <2>1, <2>3, <2>4 DEF PadCount, Inv, TypeOK
<1>13. LocalsInv'
  BY <1>2 DEF Inv, SlotInv, LocalsInv, Writing, AfterPad, EnqueueLabels, PadLabels
<1>14. OwnersInv'
  BY <1>2, <1>6 DEF Inv, SlotInv, OwnersInv
<1>15. BuffersInv'
  <2>1. \A i \in Slots : i \in Counted' \/ (\E b \in Actors : Wrote(b, i)') <=>
                          i \in Counted \/ \E b \in Actors : Wrote(b, i)
    BY <1>7, <1>8, Zenon
  <2>2. QED
    BY <1>2, <1>10, <2>1, Zenon DEF Inv, SlotInv, BuffersInv
<1>16. QED
  BY <1>11, <1>12, <1>13, <1>14, <1>15 DEF Inv, SlotInv

-----------------------------------------------------------------------------
(***************************************************************************)
(* The server.  A step of it changes no thread's ownership, so Counted     *)
(* only changes with available_index.                                      *)
(***************************************************************************)
LEMMA ServerFrame ==
  ASSUME Inv, UNCHANGED <<index, start, target, issued>>,
         pc[Server] \notin Busy,
         NEW l \in ServerLabels \ Busy, Goto(Server, l)
  PROVE  /\ \A a \in Actors : a # Server => pc'[a] = pc[a]
         /\ pc'[Server] = l
         /\ \A a \in Actors : \A i : Owns(a, i)' <=> Owns(a, i)
         /\ \A a \in Actors : \A i : Wrote(a, i)' <=> Wrote(a, i)
         /\ available_index' = available_index => Counted' = Counted
         /\ queue_ptr' = queue_ptr => LocalsInv'
         /\ available_index' = available_index => OwnersInv'
         /\ \A c \in Clients : pc'[c] \in {"claim"} \cup EnqueueLabels => issued'[c] > 0
<1> USE ChannelAssumption DEF Actors, Inv
<1>1. /\ \A a \in Actors : a # Server => pc'[a] = pc[a]
      /\ pc'[Server] = l
  BY DEF Goto, TypeOK
<1>2. \A a \in Actors : \A i : Owns(a, i)' <=> Owns(a, i)
  BY <1>1 DEF Owns, Busy
<1>3. \A a \in Actors : \A i : Wrote(a, i)' <=> Wrote(a, i)
  BY <1>1 DEF Wrote, Busy, EnqueueLabels
<1>4. available_index' = available_index => Counted' = Counted
  BY <1>2 DEF Counted
<1>5. queue_ptr' = queue_ptr => LocalsInv'
  BY <1>1 DEF SlotInv, LocalsInv, Writing, Busy, EnqueueLabels, PadLabels
<1>6. available_index' = available_index => OwnersInv'
  BY <1>2 DEF SlotInv, OwnersInv
<1>7. \A c \in Clients : pc'[c] \in {"claim"} \cup EnqueueLabels => issued'[c] > 0
  BY <1>1 DEF SlotInv, LocalsInv
<1>8. QED
  BY <1>1, <1>2, <1>3, <1>4, <1>5, <1>6, <1>7

LEMMA PollStep ==
  ASSUME Inv, SkipExecute \/ (LoadQueueSize /\ ~QueueFull) \/ LoadRefs \/ LoadDrain
  PROVE  Inv'
<1> USE ChannelAssumption DEF Actors, shared, refs, locals, serverVars, calls
<1>1. PICK l \in {"size", "loop", "refs", "drain", "pad", "stopped"} :
        /\ Goto(Server, l)
        /\ l # "loop" => ~ready
  BY DEF SkipExecute, LoadQueueSize, LoadRefs, LoadDrain, AfterDrain, Inv, SlotInv,
         BuffersInv, Swapped
<1>2. /\ UNCHANGED <<queue_ptr, available_index, enqueued_count, slots, index, start,
                     target, ready, run, issued, blocking, flushes, ran, handles, clones,
                     shutdown>>
      /\ pc[Server] \in {"loop", "size", "refs", "drain"}
  BY DEF SkipExecute, LoadQueueSize, LoadRefs, LoadDrain
<1>3. idle_count' \in 0..SpinBudget /\ is_last_ref' \in BOOLEAN
  <2>1. idle_count' \in 0..SpinBudget
    BY DEF SkipExecute, LoadQueueSize, LoadRefs, LoadDrain, Inv, TypeOK
  <2>2. is_last_ref' \in {is_last_ref, FALSE, LastRef}
    BY Zenon DEF SkipExecute, LoadQueueSize, LoadRefs, LoadDrain
  <2>3. LastRef \in BOOLEAN /\ is_last_ref \in BOOLEAN
    BY Zenon DEF LastRef, Inv, TypeOK
  <2>4. QED
    BY <2>1, <2>2, <2>3, Zenon
<1>4. l \in ServerLabels \ Busy /\ pc[Server] \notin Busy
  BY <1>1, <1>2 DEF ServerLabels, Busy, EnqueueLabels, PadLabels
<1>5. /\ \A a \in Actors : a # Server => pc'[a] = pc[a]
      /\ pc'[Server] = l
      /\ \A c \in Clients : pc'[c] \in {"claim"} \cup EnqueueLabels => issued'[c] > 0
  BY <1>1, <1>2, <1>4, ServerFrame
<1>6. TypeOK'
  BY <1>1, <1>2, <1>3, <1>4, <1>5, SMTT(30) DEF Goto, Inv, TypeOK
<1>7. SlotInv'
  BY <1>1, <1>2, <1>4, <1>5, <1>6, Quiet
<1>8. QED
  BY <1>6, <1>7 DEF Inv

LEMMA ExecuteStep ==
  ASSUME Inv, ExecuteTasks \/ ExecuteDone
  PROVE  Inv'
<1> USE ChannelAssumption DEF Actors, shared, refs, locals, serverVars, calls
<1>1. PICK l \in {"exec", "size"} : Goto(Server, l)
  BY DEF ExecuteTasks, ExecuteDone
<1>2. /\ UNCHANGED <<queue_ptr, available_index, enqueued_count, slots, index, start,
                     target, issued, blocking, flushes, ran, handles, clones,
                     shutdown, is_last_ref>>
      /\ pc[Server] \in {"loop", "exec"}
  BY DEF ExecuteTasks, ExecuteDone
<1>3. l \in ServerLabels \ Busy /\ pc[Server] \notin Busy
  BY <1>1, <1>2 DEF ServerLabels, Busy, EnqueueLabels, PadLabels
<1>4. /\ \A a \in Actors : a # Server => pc'[a] = pc[a]
      /\ pc'[Server] = l
      /\ \A a \in Actors : \A i : Wrote(a, i)' <=> Wrote(a, i)
      /\ Counted' = Counted /\ LocalsInv' /\ OwnersInv'
  BY <1>1, <1>2, <1>3, ServerFrame
<1>5. TypeOK'
  <2>1. ready' \in BOOLEAN
    BY Zenon DEF ExecuteTasks, ExecuteDone, Inv, TypeOK
  <2>2. run' \in 0..MaxTask /\ idle_count' \in 0..SpinBudget
    BY DEF ExecuteTasks, ExecuteDone, Inv, TypeOK
  <2>3. QED
    BY <1>1, <1>2, <1>3, <1>4, <2>1, <2>2, SMTT(30) DEF Goto, Inv, TypeOK
<1>6. CountInv'
  BY <1>1, <1>2, <1>4 DEF Inv, SlotInv, CountInv, Swapped
<1>7. BuffersInv'
  <2>1. CASE ExecuteTasks
    BY <1>2, <1>4, <2>1 DEF ExecuteTasks, Goto, Inv, TypeOK, SlotInv, BuffersInv, Swapped
  <2>2. CASE ExecuteDone
    <3>1. pc[Server] = "exec" /\ pc'[Server] = "size" /\ ~ready' /\ run' = 0 /\ run = MaxTask
      BY <1>4, <2>2 DEF ExecuteDone, Goto, Inv, TypeOK
    <3>2. \A i \in Slots : slots[1 - queue_ptr][i] = Empty
      BY <3>1 DEF Inv, SlotInv, BuffersInv, Slots
    <3>3. QED
      BY <1>2, <1>4, <3>1, <3>2 DEF Inv, SlotInv, BuffersInv, Swapped
  <2>3. QED
    BY <2>1, <2>2
<1>8. QED
  BY <1>4, <1>5, <1>6, <1>7 DEF Inv, SlotInv

LEMMA RunTaskStep ==
  ASSUME Inv, RunTask
  PROVE  Inv'
<1> USE ChannelAssumption DEF Actors, shared, refs, locals, serverVars, calls
<1>1. /\ queue_ptr \in {0, 1} /\ run \in Slots /\ pc[Server] = "exec" /\ ready
      /\ UNCHANGED <<queue_ptr, available_index, enqueued_count, pc, index, start,
                     target, issued, ready>>
      /\ run' = run + 1
  BY DEF RunTask, Inv, TypeOK, SlotInv, BuffersInv, Slots
<1>2. /\ \A i \in Slots : slots'[1 - queue_ptr][i] =
              IF i = run THEN Empty ELSE slots[1 - queue_ptr][i]
      /\ slots'[queue_ptr] = slots[queue_ptr]
      /\ slots' \in [{0, 1} -> [Slots -> Tasks \cup {Noop, Empty}]]
  BY <1>1 DEF RunTask, Inv, TypeOK
<1>3. handles' \subseteq Clients /\ clones' \subseteq Tasks
  BY DEF RunTask, Inv, TypeOK
<1>4. ran' \in [Clients -> 0..MaxIssue]
  <2>1. \A t \in Tasks : t[1] \in Clients /\ t[2] \in 0..MaxIssue
    BY DEF Tasks
  <2>2. QED
    BY <2>1 DEF RunTask, Inv, TypeOK
<1>5. TypeOK'
  <2>1. run' \in 0..MaxTask
    BY <1>1 DEF Slots
  <2>2. shutdown' = shutdown /\ blocking' = blocking /\ idle_count' = idle_count
        /\ is_last_ref' = is_last_ref /\ flushes' = flushes
    BY DEF RunTask
  <2> QED
    BY <1>1, <1>2, <1>3, <1>4, <2>1, <2>2 DEF Inv, TypeOK
<1>6. /\ \A a \in Actors : \A i : Wrote(a, i)' <=> Wrote(a, i)
      /\ \A a \in Actors : \A i : Owns(a, i)' <=> Owns(a, i)
  BY <1>1 DEF Wrote, Owns
<1>7. Counted' = Counted
  BY <1>1, <1>6 DEF Counted
<1>8. LocalsInv' /\ OwnersInv'
  BY <1>1, <1>6 DEF Inv, SlotInv, LocalsInv, OwnersInv, Writing
<1>9. CountInv'
  BY <1>1, <1>7 DEF Inv, SlotInv, CountInv, Swapped
<1>10. BuffersInv'
  BY <1>1, <1>2, <1>6, <1>7 DEF Inv, SlotInv, BuffersInv, Swapped, Slots
<1>11. QED
  BY <1>5, <1>8, <1>9, <1>10 DEF Inv, SlotInv

(***************************************************************************)
(* The swap.  A full count means every slot is counted, so that no thread  *)
(* is inside enqueue or pad_with_noops with a slot of this buffer.         *)
(***************************************************************************)
LEMMA FullStep ==
  ASSUME Inv, LoadQueueSize, QueueFull
  PROVE  Inv'
<1> USE ChannelAssumption DEF Actors, shared, refs, locals, serverVars, calls
<1>1. /\ UNCHANGED <<queue_ptr, available_index, enqueued_count, slots, index, start,
                     target, ready, run, issued, blocking, flushes, ran, handles, clones,
                     shutdown, is_last_ref>>
      /\ pc[Server] = "size" /\ Goto(Server, "swap") /\ idle_count' = 0
      /\ enqueued_count >= MaxTask
  BY DEF LoadQueueSize, QueueFull
<1>2. "swap" \in ServerLabels \ Busy /\ pc[Server] \notin Busy
  BY <1>1, LabelFacts DEF ServerLabels
<1>3. /\ \A a \in Actors : a # Server => pc'[a] = pc[a]
      /\ pc'[Server] = "swap"
      /\ \A a \in Actors : \A i : Wrote(a, i)' <=> Wrote(a, i)
      /\ Counted' = Counted /\ LocalsInv' /\ OwnersInv'
  BY <1>1, <1>2, ServerFrame
<1>4. TypeOK'
  BY <1>1, <1>2, <1>3, SMTT(30) DEF Goto, Inv, TypeOK
<1>5. Counted = Slots
  <2>1. enqueued_count = MaxTask /\ enqueued_count = Cardinality(Counted)
    BY <1>1 DEF Inv, TypeOK, SlotInv, CountInv
  <2>2. QED
    BY <2>1, CountedFinite
<1>6. available_index = MaxTask
  <2>1. MaxTask - 1 \in Counted
    BY <1>5 DEF Slots
  <2>2. MaxTask - 1 < available_index /\ available_index <= MaxTask /\ available_index \in Nat
    BY <2>1 DEF Counted, Inv, TypeOK, SlotInv, OwnersInv
  <2>3. QED
    BY <2>2
<1>7. CountInv'
  BY <1>1, <1>3, <1>5, <1>6 DEF Inv, SlotInv, CountInv, Swapped
<1>8. BuffersInv'
  BY <1>1, <1>3 DEF Inv, SlotInv, BuffersInv, Swapped
<1>9. QED
  BY <1>3, <1>4, <1>7, <1>8 DEF Inv, SlotInv

LEMMA FetchStep ==
  ASSUME Inv, FetchSwap \/ FetchZeroCount
  PROVE  Inv'
<1> USE ChannelAssumption DEF Actors, shared, refs, locals, serverVars, calls
<1>1. /\ UNCHANGED <<available_index, slots, index, start, target, run, issued, blocking,
                     flushes, ran, handles, clones, shutdown, is_last_ref, idle_count>>
      /\ pc[Server] \in {"swap", "zerocount"}
      /\ pc[Server] = "swap" => /\ Goto(Server, "zerocount") /\ queue_ptr' = 1 - queue_ptr
                                /\ ready' /\ enqueued_count' = enqueued_count
      /\ pc[Server] = "zerocount" => /\ Goto(Server, "zeroindex") /\ queue_ptr' = queue_ptr
                                     /\ ready' = ready /\ enqueued_count' = 0
  BY DEF FetchSwap, FetchZeroCount
<1>2. PICK l \in {"zerocount", "zeroindex"} :
        Goto(Server, l) /\ (l = "zerocount" <=> pc[Server] = "swap")
  BY <1>1
<1>3. l \in ServerLabels \ Busy /\ pc[Server] \notin Busy
  BY <1>1, <1>2 DEF ServerLabels, Busy, EnqueueLabels, PadLabels
<1>4. /\ \A a \in Actors : a # Server => pc'[a] = pc[a]
      /\ pc'[Server] = l
      /\ \A a \in Actors : \A i : Wrote(a, i)' <=> Wrote(a, i)
      /\ Counted' = Counted /\ OwnersInv'
      /\ queue_ptr' = queue_ptr => LocalsInv'
      /\ \A c \in Clients : pc'[c] \in {"claim"} \cup EnqueueLabels => issued'[c] > 0
  BY <1>1, <1>2, <1>3, ServerFrame
<1>5. available_index = MaxTask /\ Counted = Slots
  BY <1>1 DEF Inv, SlotInv, CountInv, Swapped
<1>6. \A a \in Actors : pc[a] \notin Busy
  <2>1. \A a \in Actors, i \in Slots : ~Owns(a, i)
    BY <1>5 DEF Counted
  <2>2. SUFFICES ASSUME NEW a \in Actors, pc[a] \in Busy PROVE FALSE
    OBVIOUS
  <2>3. CASE pc[a] \in EnqueueLabels
    BY <2>1, <2>3 DEF Owns, Inv, SlotInv, LocalsInv
  <2>4. CASE pc[a] \in PadLabels
    <3>1. start[a] \in Slots /\ start[a] <= start[a]
      BY DEF Inv, TypeOK, Slots
    <3>2. QED
      BY <2>1, <2>4, <3>1 DEF Owns
  <2>5. QED
    BY <2>2, <2>3, <2>4 DEF Busy
<1>7. LocalsInv'
  BY <1>1, <1>3, <1>4, <1>6 DEF Inv, SlotInv, LocalsInv, Writing, Busy, EnqueueLabels, PadLabels
<1>8. TypeOK'
  <2>1. /\ queue_ptr' \in {0, 1} /\ enqueued_count' \in 0..MaxTask
    BY <1>1 DEF Inv, TypeOK
  <2>2. ready' \in BOOLEAN
    BY Zenon DEF FetchSwap, FetchZeroCount, Inv, TypeOK
  <2>3. QED
    BY <1>1, <1>2, <1>3, <1>4, <2>1, <2>2, SMTT(30) DEF Goto, Inv, TypeOK
<1>9. CountInv'
  BY <1>1, <1>2, <1>4, <1>5 DEF Inv, SlotInv, CountInv, Swapped
<1>10. BuffersInv'
  <2>1. CASE pc[Server] = "swap"
    <3>1. /\ ~Swapped /\ ~ready /\ run = 0 /\ Swapped' /\ queue_ptr \in {0, 1}
      BY <1>2, <1>4, <2>1 DEF Inv, TypeOK, SlotInv, BuffersInv, Swapped
    <3>2. \A i \in Slots : slots[queue_ptr][i] # Empty /\ slots[1 - queue_ptr][i] = Empty
      BY <1>5, <3>1 DEF Inv, SlotInv, BuffersInv
    <3>3. 1 - queue_ptr' = queue_ptr /\ queue_ptr' = 1 - queue_ptr
      BY <1>1, <2>1, <3>1
    <3>4. \A i \in Slots : 0 <= i
      BY DEF Slots
    <3>5. QED
      BY <1>1, <1>2, <1>4, <2>1, <3>1, <3>2, <3>3, <3>4 DEF BuffersInv, Swapped
  <2>2. CASE pc[Server] = "zerocount"
    <3>1. /\ Swapped /\ Swapped' /\ ready /\ ready' /\ pc'[Server] = "zeroindex"
          /\ UNCHANGED <<queue_ptr, slots, run>>
      BY <1>1, <1>2, <1>4, <2>2 DEF Inv, SlotInv, BuffersInv, Swapped
    <3>2. \A i \in Slots : /\ slots[queue_ptr][i] = Empty
                           /\ slots[1 - queue_ptr][i] # Empty <=> run <= i
      BY <3>1 DEF Inv, SlotInv, BuffersInv
    <3>3. run = 0
      BY <2>2 DEF Inv, SlotInv, BuffersInv
    <3>4. QED
      BY <3>1, <3>2, <3>3 DEF BuffersInv
  <2>3. QED
    BY <1>1, <2>1, <2>2
<1>11. QED
  BY <1>4, <1>7, <1>8, <1>9, <1>10 DEF Inv, SlotInv

LEMMA ReopenStep ==
  ASSUME Inv, FetchZeroIndex
  PROVE  Inv'
<1> USE ChannelAssumption DEF Actors, shared, refs, locals, serverVars, calls
<1>1. /\ UNCHANGED <<queue_ptr, enqueued_count, slots, index, start, target, run, issued,
                     ready, blocking, flushes, ran, handles, clones, shutdown, is_last_ref,
                     idle_count>>
      /\ available_index' = 0
      /\ pc[Server] = "zeroindex" /\ Goto(Server, "loop")
  BY DEF FetchZeroIndex
<1>2. "loop" \in ServerLabels \ Busy /\ pc[Server] \notin Busy
  BY <1>1, LabelFacts DEF ServerLabels
<1>3. /\ \A a \in Actors : a # Server => pc'[a] = pc[a]
      /\ pc'[Server] = "loop"
      /\ \A a \in Actors : \A i : Wrote(a, i)' <=> Wrote(a, i)
      /\ \A a \in Actors : \A i : Owns(a, i)' <=> Owns(a, i)
      /\ LocalsInv'
  BY <1>1, <1>2, ServerFrame
<1>4. \A a \in Actors, i \in Slots : ~Owns(a, i)
  BY <1>1 DEF Inv, SlotInv, CountInv, Swapped, Counted
<1>5. \A a \in Actors, i \in Slots : ~Wrote(a, i)
  BY <1>4 DEF Wrote, Owns, EnqueueLabels
<1>6. Counted' = {} /\ Cardinality(Counted') = 0
  <2>1. Counted' = {}
    BY <1>1 DEF Counted, Slots
  <2>2. QED
    BY <2>1, FS_EmptySet
<1>7. TypeOK'
  <2>1. available_index' \in 0..(IndexSpan - 1)
    BY <1>1
  <2>2. QED
    BY <1>1, <1>2, <1>3, <2>1 DEF Goto, Inv, TypeOK
<1>8. OwnersInv'
  <2>1. \A a \in Actors, i \in Slots : ~Owns(a, i)'
    BY <1>3, <1>4, Zenon
  <2>2. available_index' <= MaxTask
    BY <1>1
  <2>3. QED
    BY <2>1, <2>2, Zenon DEF OwnersInv
<1>9. CountInv'
  <2>1. enqueued_count' = 0 /\ pc'[Server] = "loop"
    BY <1>1, <1>3, SMTT(30) DEF Inv, SlotInv, CountInv
  <2>2. QED
    BY <1>6, <2>1 DEF CountInv, Swapped
<1>10. BuffersInv'
  BY <1>1, <1>3, <1>5, <1>6, Zenon DEF Inv, SlotInv, BuffersInv, Swapped
<1>11. QED
  BY <1>3, <1>7, <1>8, <1>9, <1>10 DEF Inv, SlotInv

-----------------------------------------------------------------------------
LEMMA InitInv == Init => Inv
<1> SUFFICES ASSUME Init PROVE Inv
  OBVIOUS
<1> USE ChannelAssumption DEF Actors
<1>1. TypeOK
  <2>1. /\ pc \in [Actors -> ClientLabels \cup ServerLabels]
        /\ pc[Server] \in ServerLabels
        /\ \A c \in Clients : pc[c] \in ClientLabels
    BY DEF Init, ClientLabels, ServerLabels
  <2>2. /\ start \in [Actors -> Slots] /\ index \in [Actors -> 0..MaxTask]
        /\ available_index \in 0..(IndexSpan - 1) /\ enqueued_count \in 0..MaxTask
        /\ run \in 0..MaxTask /\ idle_count \in 0..SpinBudget
    BY DEF Init, Slots
  <2>3. handles \subseteq Clients /\ clones \subseteq Tasks
    BY DEF Init
  <2>4. slots \in [{0, 1} -> [Slots -> Tasks \cup {Noop, Empty}]]
    BY DEF Init
  <2>5. /\ issued \in [Clients -> 0..MaxIssue] /\ flushes \in [Clients -> 0..MaxFlush]
        /\ ran \in [Clients -> 0..MaxIssue]
        /\ target \in [Actors -> {0, 1}] /\ blocking \subseteq Clients
    BY DEF Init
  <2>6. queue_ptr \in {0, 1} /\ shutdown \in BOOLEAN /\ ready \in BOOLEAN /\ is_last_ref \in BOOLEAN
    BY Zenon DEF Init
  <2>7. QED
    BY <2>1, <2>2, <2>3, <2>4, <2>5, <2>6 DEF TypeOK
<1>2. \A a \in Actors : pc[a] \in {"loop", "idle"}
  BY DEF Init
<1>3. \A a \in Actors : \A i : ~Owns(a, i) /\ ~Wrote(a, i)
  BY <1>2 DEF Owns, Wrote, EnqueueLabels, PadLabels
<1>4. Counted = {} /\ Cardinality(Counted) = 0
  <2>1. Counted = {}
    BY DEF Init, Counted, Slots
  <2>2. QED
    BY <2>1, FS_EmptySet
<1>5. LocalsInv
  BY <1>2 DEF LocalsInv, Writing, EnqueueLabels
<1>6. OwnersInv
  BY <1>3 DEF Init, OwnersInv
<1>7. CountInv
  BY <1>4 DEF Init, CountInv, Swapped
<1>8. BuffersInv
  BY <1>3, <1>4 DEF Init, BuffersInv, Swapped
<1>9. QED
  BY <1>1, <1>5, <1>6, <1>7, <1>8 DEF Inv, SlotInv

LEMMA NextInv ==
  ASSUME ~Wrapping, Inv, [Next]_vars
  PROVE  Inv'
<1>1. ASSUME NEW a \in Actors, PadStep(a) PROVE Inv'
  BY <1>1, PadClaimStep, LoadPtrStep, PadWriteStep, PadCountStep DEF PadStep
<1>2. ASSUME NEW c \in Clients, ClientCall(c) \/ ClientStep(c) \/ PadStep(c) PROVE Inv'
  BY <1>1, <1>2, CallStep, ClaimStep, LoadPtrStep, WriteTaskStep, CountTaskStep
     DEF ClientStep, Actors
<1>3. CASE ServerStep
  BY <1>1, <1>3, PollStep, ExecuteStep, RunTaskStep, FullStep, FetchStep, ReopenStep
     DEF ServerStep, Actors
<1>4. CASE UNCHANGED vars
  <2>1. UNCHANGED <<queue_ptr, available_index, enqueued_count, shutdown, slots, handles,
                    clones, pc, index, start, target, blocking, ready, run, idle_count,
                    is_last_ref, issued, flushes, ran>>
    BY <1>4 DEF vars, shared, refs, locals, serverVars, calls
  <2>2. TypeOK'
    BY <2>1, SMTT(30) DEF Inv, TypeOK
  <2>3. \A c \in Clients : pc'[c] \in {"claim"} \cup EnqueueLabels => issued'[c] > 0
    BY <2>1, ZenonT(30) DEF Inv, SlotInv, LocalsInv, Actors
  <2>4. SlotInv'
    BY <2>1, <2>2, <2>3, Quiet
  <2>5. QED
    BY <2>2, <2>4 DEF Inv
<1>5. QED
  BY <1>2, <1>3, <1>4 DEF Next, Stopped

LEMMA InvSafe == Inv => SlotExclusive /\ RunOncePerInit
<1> SUFFICES ASSUME Inv PROVE SlotExclusive /\ RunOncePerInit
  OBVIOUS
<1>1. \A a \in Actors : Writing(a) =>
        /\ index[a] \in Slots /\ target[a] = queue_ptr /\ Owns(a, index[a])
        /\ ~Wrote(a, index[a])
  BY ChannelAssumption, SMTT(30)
     DEF Inv, TypeOK, SlotInv, LocalsInv, Writing, Owns, Wrote, EnqueueLabels, PadLabels, Slots
<1>2. SlotExclusive
  BY <1>1, ZenonT(30) DEF SlotExclusive, Inv, SlotInv, OwnersInv
<1>3. ASSUME NEW a \in Actors, Writing(a) PROVE slots[target[a]][index[a]] = Empty
  <2>1. index[a] \notin Counted /\ \A b \in Actors : b # a => ~Owns(b, index[a])
    BY <1>1, <1>3, OwnerBlocksSwap DEF Inv, SlotInv, OwnersInv
  <2>2. \A b \in Actors : ~Wrote(b, index[a])
    BY <1>1, <1>3, <2>1 DEF Owns, Wrote, EnqueueLabels
  <2>3. QED
    BY <1>1, <1>3, <2>1, <2>2 DEF Inv, SlotInv, BuffersInv
<1>4. pc[Server] = "exec" /\ run < MaxTask => slots[1 - queue_ptr][run] # Empty
  BY ChannelAssumption DEF Inv, TypeOK, SlotInv, BuffersInv, Slots
<1>5. QED
  BY <1>2, <1>3, <1>4 DEF RunOncePerInit

(***************************************************************************)
(* As long as no stall lasts long enough to wrap available_index, every    *)
(* local of enqueue and pad_with_noops stays in bounds, enqueued_count     *)
(* never passes the capacity of the buffer, and the slots claimed, owned,  *)
(* written and counted agree in every reachable state.                     *)
(***************************************************************************)
THEOREM ChannelInvariant ==
  ASSUME ~Wrapping
  PROVE  Spec => []ChannelInv
<1>1. Init => Inv
  BY InitInv
<1>2. Inv /\ [Next]_vars => Inv'
  BY NextInv
<1>3. Inv => ChannelInv
  BY DEF Inv, ChannelInv
<1>4. QED
  BY <1>1, <1>2, <1>3, PTL DEF Spec

(***************************************************************************)
(* What init_task_at and Task::run demand of their callers: exclusive      *)
(* access to the slot being written, never in the buffer being executed,   *)
(* and one run per initialization, for any number of clients and any       *)
(* buffer size.                                                            *)
(***************************************************************************)
THEOREM ChannelExclusive ==
  ASSUME ~Wrapping
  PROVE  Spec => []SlotsSafe
<1>1. Init => Inv
  BY InitInv
<1>2. Inv /\ [Next]_vars => Inv'
  BY NextInv
<1>3. Inv => SlotsSafe
  BY InvSafe DEF SlotsSafe
<1>4. QED
  BY <1>1, <1>2, <1>3, PTL DEF Spec

-----------------------------------------------------------------------------
(* The order of the closures, and the refinement *)

Holds(b, i, c, n) == slots[b][i] = <<c, n>>

Numbers == 1..MaxIssue

\* Closures of c that reached a buffer: all it sent, but for the one it is
\* about to write.
Written(c) == IF pc[c] \in {"claim", "load", "write"} THEN issued[c] - 1 ELSE issued[c]

\* The closures in the buffers are the ones written and not yet run.
QueuedInv ==
  /\ \A c \in Clients : ran[c] <= Written(c)
  /\ \A b \in {0, 1}, i \in Slots, c \in Clients, n \in Numbers :
       Holds(b, i, c, n) => ran[c] < n /\ n <= Written(c)
  /\ \A c \in Clients, n \in Numbers :
       ran[c] < n /\ n <= Written(c) => \E b \in {0, 1}, i \in Slots : Holds(b, i, c, n)

\* They are in the order they were sent: first the buffer of the server, then
\* that of the clients, each by index, and the next one goes behind them.
SortedInv ==
  /\ \A b \in {0, 1}, i, j \in Slots, c \in Clients, n, m \in Numbers :
       Holds(b, i, c, n) /\ Holds(b, j, c, m) /\ i < j => n < m
  /\ \A i, j \in Slots, c \in Clients, n, m \in Numbers :
       Holds(1 - queue_ptr, i, c, n) /\ Holds(queue_ptr, j, c, m) => n < m
  /\ \A c \in Clients : pc[c] \in {"load", "write"} =>
       \A i \in Slots, n \in Numbers : Holds(queue_ptr, i, c, n) => i < index[c]

\* Only threads with a handle are inside calls, and a count of one reference
\* that try_shutdown has read stays true.
RefsInv ==
  /\ \A c \in Clients : pc[c] # "idle" => c \in handles
  /\ is_last_ref \/ pc[Server] = "stopped" => LastRef

OrderInv == QueuedInv /\ SortedInv /\ RefsInv

-----------------------------------------------------------------------------

\* A slot holds one closure, with a client and a number.
LEMMA HoldsOne ==
  ASSUME NEW b, NEW i, NEW c, NEW n, NEW d, NEW m, Holds(b, i, c, n), Holds(b, i, d, m)
  PROVE  c = d /\ n = m
BY DEF Holds

\* What a slot other than an empty one or a no-op holds.
LEMMA HoldsTask ==
  ASSUME NEW t \in Tasks
  PROVE  /\ t[1] \in Clients /\ t[2] \in Numbers /\ t = <<t[1], t[2]>>
BY DEF Tasks, Numbers

\* An occupied slot of the client buffer was claimed.
LEMMA OccupiedIsClaimed ==
  ASSUME Inv, NEW i \in Slots, slots[queue_ptr][i] # Empty
  PROVE  i < available_index
<1>1. ~Swapped /\ (i \in Counted \/ \E a \in Actors : Wrote(a, i))
  BY DEF Inv, SlotInv, BuffersInv
<1>2. \A a \in Actors : Wrote(a, i) => Owns(a, i)
  BY DEF Wrote, Owns, EnqueueLabels
<1>3. CASE i \in Counted
  BY <1>3 DEF Counted
<1>4. CASE \E a \in Actors : Wrote(a, i)
  BY <1>2, <1>4 DEF Inv, SlotInv, OwnersInv
<1> QED
  BY <1>1, <1>3, <1>4

\* No-ops and empty slots hold no closure of a client.
LEMMA NoClosure ==
  ASSUME NEW c \in Clients, NEW n \in Numbers
  PROVE  <<c, n>> # Noop /\ <<c, n>> # Empty
<1>1. <<c, n>> \in Tasks
  BY DEF Tasks, Numbers
<1> QED
  BY <1>1, ChannelAssumption

(***************************************************************************)
(* Steps that write and run no closure, and swap no buffers.               *)
(***************************************************************************)
LEMMA OrderQuiet ==
  ASSUME QueuedInv, SortedInv, UNCHANGED <<queue_ptr, ran>>,
         \A b \in {0, 1}, i \in Slots, c \in Clients, n \in Numbers :
           Holds(b, i, c, n)' <=> Holds(b, i, c, n),
         \A c \in Clients : Written(c)' = Written(c),
         \A c \in Clients : pc'[c] \in {"load", "write"} =>
           pc[c] \in {"load", "write"} /\ index'[c] = index[c],
         queue_ptr \in {0, 1}
  PROVE  QueuedInv' /\ SortedInv'
<1>1. QueuedInv'
  BY DEF QueuedInv
<1>2. 1 - queue_ptr \in {0, 1}
  OBVIOUS
<1>3. SortedInv'
  BY <1>2 DEF SortedInv
<1> QED
  BY <1>1, <1>3

\* A call, the parts of enqueue and pad_with_noops that count or load, and the
\* steps of the server on its own variables.
LEMMA OtherOrder ==
  ASSUME Inv, OrderInv, UNCHANGED <<slots, queue_ptr, ran>>,
         NEW a \in Actors, NEW l, pc' = [pc EXCEPT ![a] = l],
         \A c \in Clients : c # a => issued'[c] = issued[c] /\ index'[c] = index[c],
         a \in Clients => Written(a)' = Written(a),
         a \in Clients /\ l \in {"load", "write"} =>
           pc[a] \in {"load", "write"} /\ index'[a] = index[a]
  PROVE  QueuedInv' /\ SortedInv'
<1>1. pc \in [Actors -> ClientLabels \cup ServerLabels] /\ queue_ptr \in {0, 1}
  BY DEF Inv, TypeOK
<1>2. \A c \in Clients : c \in Actors
  BY DEF Actors
<1>3. \A c \in Clients : c # a => pc'[c] = pc[c]
  BY <1>1, <1>2
<1>4. pc'[a] = l
  BY <1>1
<1>5. \A c \in Clients : Written(c)' = Written(c)
  BY <1>3 DEF Written
<1>6. \A c \in Clients : pc'[c] \in {"load", "write"} =>
        pc[c] \in {"load", "write"} /\ index'[c] = index[c]
  BY <1>3, <1>4
<1>7. \A b \in {0, 1}, i \in Slots, c \in Clients, n \in Numbers :
        Holds(b, i, c, n)' <=> Holds(b, i, c, n)
  BY DEF Holds
<1> QED
  BY <1>1, <1>5, <1>6, <1>7, OrderQuiet DEF OrderInv

\* The calls of a client.
LEMMA CallOrder ==
  ASSUME Inv, OrderInv, NEW c \in Clients, ClientCall(c) \/ Return(c)
  PROVE  QueuedInv' /\ SortedInv'
<1> USE DEF shared, refs, locals, serverVars, calls
<1>1. pc \in [Actors -> ClientLabels \cup ServerLabels] /\ c \in Actors
      /\ issued \in [Clients -> 0..MaxIssue]
  BY DEF Inv, TypeOK, Actors
<1>2. CASE (\E d \in Clients : Clone(c, d)) \/ DropHandle(c) \/ RequestShutdown(c)
  <2>1. UNCHANGED <<slots, queue_ptr, ran, pc, issued, index>>
    BY <1>2 DEF Clone, DropHandle, RequestShutdown
  <2>2. pc' = [pc EXCEPT ![c] = pc[c]]
    BY <2>1, <1>1
  <2>3. Written(c)' = Written(c)
    BY <2>1 DEF Written
  <2> QED
    BY <2>1, <2>2, <2>3, <1>1, OtherOrder
<1>3. CASE \E w, h \in BOOLEAN : Send(c, w, h)
  <2>1. /\ UNCHANGED <<slots, queue_ptr, ran, index>>
        /\ pc[c] = "idle" /\ pc' = [pc EXCEPT ![c] = "claim"]
        /\ issued' = [issued EXCEPT ![c] = @ + 1]
    BY <1>3 DEF Send, Goto
  <2>2. Written(c)' = Written(c)
    BY <2>1, <1>1 DEF Written
  <2> QED
    BY <2>1, <2>2, <1>1, OtherOrder
<1>4. CASE Flush(c) \/ Return(c)
  <2>1. PICK l \in {"pad", "idle"} : pc' = [pc EXCEPT ![c] = l]
    BY <1>4 DEF Flush, Return, Goto
  <2>2. /\ UNCHANGED <<slots, queue_ptr, ran, index, issued>>
        /\ pc[c] \in {"idle", "wait"}
    BY <1>4 DEF Flush, Return
  <2>3. Written(c)' = Written(c)
    BY <2>1, <2>2, <1>1 DEF Written
  <2> QED
    BY <2>1, <2>2, <2>3, <1>1, OtherOrder
<1> QED
  BY <1>2, <1>3, <1>4 DEF ClientCall

\* A claim goes behind everything the client has in the buffer.
LEMMA ClaimOrder ==
  ASSUME ~Wrapping, Inv, OrderInv, NEW c \in Clients, Claim(c)
  PROVE  QueuedInv' /\ SortedInv'
<1> USE DEF shared, refs, locals, serverVars, calls
<1>1. /\ pc \in [Actors -> ClientLabels \cup ServerLabels] /\ c \in Actors
      /\ index \in [Actors -> 0..MaxTask] /\ queue_ptr \in {0, 1}
      /\ UNCHANGED <<slots, queue_ptr, ran, issued>> /\ pc[c] = "claim"
  BY DEF Inv, TypeOK, Actors, Claim
<1>2. CASE available_index >= MaxTask
  <2>1. UNCHANGED <<pc, index>>
    BY <1>2 DEF Claim
  <2>2. pc' = [pc EXCEPT ![c] = pc[c]]
    BY <2>1, <1>1
  <2>3. Written(c)' = Written(c)
    BY <2>1, <1>1 DEF Written
  <2> QED
    BY <2>1, <2>2, <2>3, <1>1, OtherOrder
<1>3. CASE ~(available_index >= MaxTask)
  <2>1. /\ index' = [index EXCEPT ![c] = available_index]
        /\ pc' = [pc EXCEPT ![c] = "load"]
    BY <1>3 DEF Claim, Goto
  <2>2. /\ \A d \in Clients : d # c => pc'[d] = pc[d] /\ index'[d] = index[d]
        /\ pc'[c] = "load" /\ index'[c] = available_index
    BY <2>1, <1>1 DEF Actors
  <2>3. \A d \in Clients : Written(d)' = Written(d)
    BY <2>2, <1>1 DEF Written
  <2>4. \A b, i, d, n : Holds(b, i, d, n)' <=> Holds(b, i, d, n)
    BY <1>1 DEF Holds
  <2>5. QueuedInv'
    BY <2>3, <2>4, <1>1 DEF OrderInv, QueuedInv
  <2>6. \A i \in Slots, n \in Numbers : Holds(queue_ptr, i, c, n) => i < available_index
    BY OccupiedIsClaimed, NoClosure DEF Holds
  <2>7. 1 - queue_ptr \in {0, 1}
    BY <1>1
  <2>8. SortedInv'
    BY <2>2, <2>4, <2>6, <2>7, <1>1 DEF OrderInv, SortedInv
  <2> QED
    BY <2>5, <2>8
<1> QED
  BY <1>2, <1>3

\* The closure of a client is written behind the ones it wrote before.
LEMMA WriteOrder ==
  ASSUME Inv, OrderInv, NEW c \in Clients, WriteTask(c)
  PROVE  QueuedInv' /\ SortedInv'
<1> USE DEF shared, refs, locals, serverVars, calls
<1> DEFINE q == queue_ptr
           k == index[c]
           new == issued[c]
<1>1. /\ pc \in [Actors -> ClientLabels \cup ServerLabels] /\ c \in Actors
      /\ q \in {0, 1} /\ 1 - q \in {0, 1} /\ 1 - q # q
      /\ UNCHANGED <<queue_ptr, ran, issued, index>> /\ pc[c] = "write"
      /\ issued \in [Clients -> 0..MaxIssue] /\ ran \in [Clients -> 0..MaxIssue]
  BY DEF Inv, TypeOK, Actors, WriteTask
<1>2. k \in Slots /\ target[c] = q /\ new \in Numbers
  BY <1>1, ChannelAssumption
     DEF Inv, SlotInv, LocalsInv, Writing, EnqueueLabels, Numbers
<1>3. slots \in [{0, 1} -> [Slots -> Tasks \cup {Noop, Empty}]]
  BY DEF Inv, TypeOK
<1>4. slots' = [slots EXCEPT ![q][k] = <<c, new>>]
  BY <1>2 DEF WriteTask
<1>5. slots[q][k] = Empty
  BY <1>1, <1>2, InvSafe DEF RunOncePerInit, Writing
<1>6. /\ \A d \in Clients : d # c => pc'[d] = pc[d]
      /\ pc'[c] = "count"
  BY <1>1 DEF WriteTask, Goto, Actors
<1>7. /\ \A d \in Clients : d # c => Written(d)' = Written(d)
      /\ Written(c) = new - 1 /\ Written(c)' = new
  BY <1>1, <1>6 DEF Written
<1>8. \A b \in {0, 1}, i \in Slots, d \in Clients, n \in Numbers :
        Holds(b, i, d, n)' <=> Holds(b, i, d, n) \/ (b = q /\ i = k /\ d = c /\ n = new)
  <2> SUFFICES ASSUME NEW b \in {0, 1}, NEW i \in Slots, NEW d \in Clients, NEW n \in Numbers
               PROVE  Holds(b, i, d, n)' <=>
                        Holds(b, i, d, n) \/ (b = q /\ i = k /\ d = c /\ n = new)
    OBVIOUS
  <2>1. CASE b = q /\ i = k
    <3>1. slots'[b][i] = <<c, new>>
      BY <2>1, <1>1, <1>2, <1>3, <1>4
    <3>2. ~Holds(b, i, d, n)
      BY <2>1, <1>5, NoClosure DEF Holds
    <3> QED
      BY <2>1, <3>1, <3>2 DEF Holds
  <2>2. CASE ~(b = q /\ i = k)
    <3>1. slots'[b][i] = slots[b][i]
      BY <2>2, <1>1, <1>2, <1>3, <1>4
    <3> QED
      BY <2>2, <3>1 DEF Holds
  <2> QED
    BY <2>1, <2>2
<1> HIDE DEF q, k, new
<1>9. QueuedInv'
  <2>1. \A d \in Clients : ran'[d] <= Written(d)'
    <3>1. new \in Int /\ ran[c] \in Int /\ ran[c] <= new - 1
      BY <1>1, <1>2, <1>7 DEF OrderInv, QueuedInv, Numbers
    <3>2. ran[c] <= Written(c)'
      BY <3>1, <1>7
    <3>3. \A d \in Clients : d # c => ran[d] <= Written(d)'
      BY <1>7 DEF OrderInv, QueuedInv
    <3> QED
      BY <3>2, <3>3, <1>1
  <2>2. \A b \in {0, 1}, i \in Slots, d \in Clients, n \in Numbers :
          Holds(b, i, d, n)' => ran'[d] < n /\ n <= Written(d)'
    <3>1. new \in Int /\ ran[c] \in Int /\ ran[c] <= new - 1
      BY <1>1, <1>2, <1>7 DEF OrderInv, QueuedInv, Numbers
    <3>2. ran[c] < new /\ \A n \in Numbers : n <= new - 1 => n <= new
      BY <3>1 DEF Numbers
    <3>3. ran' = ran
      BY <1>1
    <3>4. \A b \in {0, 1}, i \in Slots, d \in Clients, n \in Numbers :
            Holds(b, i, d, n) => ran'[d] < n /\ n <= Written(d)'
      BY <1>7, <3>2, <3>3 DEF OrderInv, QueuedInv
    <3>5. ran'[c] < new /\ new <= Written(c)'
      BY <1>7, <3>1, <3>2, <3>3
    <3> QED
      BY <1>8, <3>4, <3>5
  <2>3. \A d \in Clients, n \in Numbers :
          ran'[d] < n /\ n <= Written(d)' => \E b \in {0, 1}, i \in Slots : Holds(b, i, d, n)'
    <3> SUFFICES ASSUME NEW d \in Clients, NEW n \in Numbers, ran'[d] < n, n <= Written(d)'
                 PROVE  \E b \in {0, 1}, i \in Slots : Holds(b, i, d, n)'
      OBVIOUS
    <3>1. CASE d = c /\ n = new
      BY <3>1, <1>1, <1>2, <1>8
    <3>2. CASE ~(d = c /\ n = new)
      <4>1. n <= Written(d)
        BY <3>2, <1>2, <1>7 DEF Numbers
      <4>2. PICK b \in {0, 1}, i \in Slots : Holds(b, i, d, n)
        BY <4>1, <1>1 DEF OrderInv, QueuedInv
      <4> QED
        BY <4>2, <1>8
    <3> QED
      BY <3>1, <3>2
  <2> QED
    BY <2>1, <2>2, <2>3 DEF QueuedInv
<1>10. \A b \in {0, 1}, i \in Slots, n \in Numbers :
         Holds(b, i, c, n) => n < new /\ (b = q => i < k)
  <2>1. \A b \in {0, 1}, i \in Slots, n \in Numbers : Holds(b, i, c, n) => n <= new - 1
    BY <1>7 DEF OrderInv, QueuedInv
  <2>2. \A i \in Slots, n \in Numbers : Holds(q, i, c, n) => i < k
    BY <1>1 DEF OrderInv, SortedInv, q, k
  <2> QED
    BY <2>1, <2>2, <1>2 DEF Numbers
<1>11. SortedInv'
  <2>1. \A b \in {0, 1}, i, j \in Slots, d \in Clients, n, m \in Numbers :
          Holds(b, i, d, n)' /\ Holds(b, j, d, m)' /\ i < j => n < m
    <3> SUFFICES ASSUME NEW b \in {0, 1}, NEW i \in Slots, NEW j \in Slots, NEW d \in Clients,
                        NEW n \in Numbers, NEW m \in Numbers,
                        Holds(b, i, d, n)', Holds(b, j, d, m)', i < j
                 PROVE  n < m
      OBVIOUS
    <3>1. CASE Holds(b, i, d, n) /\ Holds(b, j, d, m)
      BY <3>1 DEF OrderInv, SortedInv
    <3>2. CASE Holds(b, i, d, n) /\ (b = q /\ j = k /\ d = c /\ m = new)
      BY <3>2, <1>10
    <3>3. CASE (b = q /\ i = k /\ d = c /\ n = new) /\ Holds(b, j, d, m)
      <4>1. j < k /\ j \in Int /\ k \in Int
        BY <3>3, <1>2, <1>10, ChannelAssumption DEF Slots
      <4> QED
        BY <4>1, <3>3
    <3>4. CASE i = k /\ j = k
      BY <3>4, <1>2, ChannelAssumption DEF Slots
    <3> QED
      BY <1>8, <3>1, <3>2, <3>3, <3>4
  <2>2. \A i, j \in Slots, d \in Clients, n, m \in Numbers :
          Holds(1 - q, i, d, n)' /\ Holds(q, j, d, m)' => n < m
    <3> SUFFICES ASSUME NEW i \in Slots, NEW j \in Slots, NEW d \in Clients,
                        NEW n \in Numbers, NEW m \in Numbers,
                        Holds(1 - q, i, d, n)', Holds(q, j, d, m)'
                 PROVE  n < m
      OBVIOUS
    <3>1. q' = q
      BY <1>1 DEF q
    <3>2. Holds(1 - q, i, d, n)
      BY <1>1, <1>8, <3>1
    <3>3. CASE Holds(q, j, d, m)
      BY <3>2, <3>3 DEF OrderInv, SortedInv, q
    <3>4. CASE j = k /\ d = c /\ m = new
      BY <3>2, <3>4, <1>1, <1>10
    <3> QED
      BY <1>1, <1>8, <3>1, <3>3, <3>4
  <2>3. \A d \in Clients : pc'[d] \in {"load", "write"} =>
          \A i \in Slots, n \in Numbers : Holds(q, i, d, n)' => i < index'[d]
    <3>1. q' = q
      BY <1>1 DEF q
    <3>2. \A d \in Clients : pc'[d] \in {"load", "write"} =>
            \A i \in Slots, n \in Numbers : Holds(q, i, d, n) => i < index[d]
      BY <1>6 DEF OrderInv, SortedInv, q
    <3> QED
      BY <1>1, <1>6, <1>8, <3>1, <3>2
  <2>4. queue_ptr' = q
    BY <1>1 DEF q
  <2> QED
    BY <2>1, <2>2, <2>3, <2>4 DEF SortedInv, q
<1> QED
  BY <1>9, <1>11

\* A no-op goes to an empty slot.
LEMMA PadWriteOrder ==
  ASSUME Inv, OrderInv, NEW a \in Actors, PadWrite(a)
  PROVE  QueuedInv' /\ SortedInv'
<1> USE DEF shared, refs, locals, serverVars, calls
<1>1. /\ pc \in [Actors -> ClientLabels \cup ServerLabels]
      /\ index \in [Actors -> 0..MaxTask] /\ queue_ptr \in {0, 1}
      /\ UNCHANGED <<queue_ptr, ran, issued>> /\ pc[a] = "padwrite"
      /\ slots \in [{0, 1} -> [Slots -> Tasks \cup {Noop, Empty}]]
  BY DEF Inv, TypeOK, PadWrite
<1>2. index[a] \in Slots /\ target[a] = queue_ptr /\ slots[queue_ptr][index[a]] = Empty
  <2>1. target[a] = queue_ptr /\ slots[target[a]][index[a]] = Empty
    BY <1>1, InvSafe DEF SlotExclusive, RunOncePerInit, Writing
  <2>2. index[a] \in Slots
    BY <1>1, ChannelAssumption DEF Inv, SlotInv, LocalsInv, Slots
  <2> QED
    BY <2>1, <2>2
<1>3. slots' = [slots EXCEPT ![queue_ptr][index[a]] = Noop]
  BY <1>2 DEF PadWrite
<1>4. \A b \in {0, 1}, i \in Slots, c \in Clients, n \in Numbers :
        Holds(b, i, c, n)' <=> Holds(b, i, c, n)
  <2> SUFFICES ASSUME NEW b \in {0, 1}, NEW i \in Slots, NEW c \in Clients, NEW n \in Numbers
               PROVE  Holds(b, i, c, n)' <=> Holds(b, i, c, n)
    OBVIOUS
  <2>1. CASE b = queue_ptr /\ i = index[a]
    <3>1. slots'[b][i] = Noop
      BY <2>1, <1>1, <1>2, <1>3
    <3> QED
      BY <2>1, <3>1, <1>2, NoClosure DEF Holds
  <2>2. CASE ~(b = queue_ptr /\ i = index[a])
    <3>1. slots'[b][i] = slots[b][i]
      BY <2>2, <1>1, <1>2, <1>3
    <3> QED
      BY <3>1 DEF Holds
  <2> QED
    BY <2>1, <2>2
<1>5. PICK l \in {"padload", "padcount"} : pc' = [pc EXCEPT ![a] = l]
  BY DEF PadWrite, Goto
<1>6. /\ \A c \in Clients : c # a => pc'[c] = pc[c] /\ index'[c] = index[c]
      /\ pc'[a] = l
  BY <1>1, <1>5 DEF PadWrite, Actors
<1>7. \A c \in Clients : Written(c)' = Written(c)
  BY <1>1, <1>6 DEF Written
<1>8. \A c \in Clients : pc'[c] \in {"load", "write"} =>
        pc[c] \in {"load", "write"} /\ index'[c] = index[c]
  BY <1>6
<1> QED
  BY <1>1, <1>4, <1>7, <1>8, OrderQuiet DEF OrderInv

\* The other steps of enqueue and pad_with_noops.
LEMMA PassOrder ==
  ASSUME Inv, OrderInv, NEW a \in Actors,
         \/ a \in Clients /\ (LoadPtr(a, "load", "write") \/ CountTask(a))
         \/ PadClaim(a) \/ LoadPtr(a, "padload", "padwrite") \/ PadCount(a)
  PROVE  QueuedInv' /\ SortedInv'
<1> USE DEF shared, refs, locals, serverVars, calls
<1>1. /\ pc \in [Actors -> ClientLabels \cup ServerLabels]
      /\ index \in [Actors -> 0..MaxTask]
      /\ UNCHANGED <<slots, queue_ptr, ran, issued>>
  BY DEF Inv, TypeOK, LoadPtr, CountTask, PadClaim, PadCount
<1>2. CASE a \in Clients /\ LoadPtr(a, "load", "write")
  <2>1. pc' = [pc EXCEPT ![a] = "write"] /\ pc[a] = "load" /\ index' = index
    BY <1>2 DEF LoadPtr, Goto
  <2>2. Written(a)' = Written(a)
    BY <2>1, <1>1 DEF Written
  <2> QED
    BY <2>1, <2>2, <1>1, OtherOrder
<1>3. CASE ~(a \in Clients /\ LoadPtr(a, "load", "write"))
  <2>1. PICK l \in {"idle", "pad", "wait", "loop", "padload", "padwrite"} :
          pc' = [pc EXCEPT ![a] = l]
    BY <1>3 DEF LoadPtr, CountTask, PadClaim, PadCount, Goto, AfterPad
  <2>2. pc[a] \in {"count", "pad", "padload", "padcount"}
    BY <1>3 DEF LoadPtr, CountTask, PadClaim, PadCount
  <2>3. \A c \in Clients : c # a => index'[c] = index[c]
    BY <1>1, <1>3 DEF LoadPtr, CountTask, PadClaim, PadCount, OutOfScope, Actors
  <2>4. Written(a)' = Written(a)
    BY <2>1, <2>2, <1>1 DEF Written
  <2> QED
    BY <2>1, <2>2, <2>3, <2>4, <1>1, OtherOrder
<1> QED
  BY <1>2, <1>3

\* The steps of the server but for the swap and the tasks it runs.
LEMMA ServerOrder ==
  ASSUME Inv, OrderInv,
         \/ ExecuteTasks \/ ExecuteDone \/ SkipExecute \/ LoadQueueSize
         \/ FetchZeroCount \/ FetchZeroIndex \/ LoadRefs \/ LoadDrain
  PROVE  QueuedInv' /\ SortedInv'
<1> USE DEF shared, refs, locals, serverVars, calls
<1>1. \E l : Goto(Server, l)
  BY DEF ExecuteTasks, ExecuteDone, SkipExecute, LoadQueueSize, FetchZeroCount,
         FetchZeroIndex, LoadRefs, LoadDrain
<1>2. PICK l : pc' = [pc EXCEPT ![Server] = l]
  BY <1>1 DEF Goto
<1>3. UNCHANGED <<slots, queue_ptr, ran, issued, index>>
  BY DEF ExecuteTasks, ExecuteDone, SkipExecute, LoadQueueSize, FetchZeroCount,
         FetchZeroIndex, LoadRefs, LoadDrain
<1>4. Server \in Actors /\ Server \notin Clients
  BY ChannelAssumption DEF Actors
<1> QED
  BY <1>2, <1>3, <1>4, OtherOrder

\* The swap makes the clients' buffer the one to execute; the other is empty.
LEMMA SwapOrder ==
  ASSUME Inv, OrderInv, FetchSwap
  PROVE  QueuedInv' /\ SortedInv'
<1> USE DEF shared, refs, locals, serverVars, calls
<1>1. /\ pc \in [Actors -> ClientLabels \cup ServerLabels] /\ Server \in Actors
      /\ Server \notin Clients /\ queue_ptr \in {0, 1} /\ pc[Server] = "swap"
      /\ UNCHANGED <<slots, ran, issued, index>> /\ queue_ptr' = 1 - queue_ptr
  BY ChannelAssumption DEF Inv, TypeOK, Actors, FetchSwap
<1>2. \A c \in Clients : pc'[c] = pc[c]
  BY <1>1 DEF FetchSwap, Goto, Actors
<1>3. \A c \in Clients : pc[c] \notin {"load", "write"}
  <2> SUFFICES ASSUME NEW c \in Clients, pc[c] \in {"load", "write"} PROVE FALSE
    OBVIOUS
  <2>1. c \in Actors /\ index[c] \in Slots /\ Owns(c, index[c])
    BY DEF Actors, Inv, SlotInv, LocalsInv, Owns, EnqueueLabels
  <2> QED
    BY <2>1, <1>1, OwnerBlocksSwap
<1>4. ~ready
  BY <1>1 DEF Inv, SlotInv, BuffersInv, Swapped
<1>5. \A i \in Slots, c \in Clients, n \in Numbers : ~Holds(1 - queue_ptr, i, c, n)
  BY <1>4, NoClosure DEF Inv, SlotInv, BuffersInv, Holds
<1>6. \A b, i, c, n : Holds(b, i, c, n)' <=> Holds(b, i, c, n)
  BY <1>1 DEF Holds
<1>7. \A c \in Clients : Written(c)' = Written(c)
  BY <1>1, <1>2 DEF Written
<1>8. QueuedInv'
  BY <1>1, <1>6, <1>7 DEF OrderInv, QueuedInv
<1>9. SortedInv'
  BY <1>1, <1>2, <1>3, <1>5, <1>6 DEF OrderInv, SortedInv
<1> QED
  BY <1>8, <1>9

\* The closure in the slot to run next is the oldest its client has queued.
LEMMA NextInOrder ==
  ASSUME Inv, OrderInv, run \in Slots, NEW c \in Clients, NEW n \in Numbers,
         Holds(1 - queue_ptr, run, c, n)
  PROVE  /\ n = ran[c] + 1 /\ n <= Written(c)
         /\ \A b \in {0, 1}, i \in Slots, m \in Numbers :
              Holds(b, i, c, m) /\ ~(b = 1 - queue_ptr /\ i = run) => n < m
<1>1. /\ queue_ptr \in {0, 1} /\ 1 - queue_ptr \in {0, 1}
      /\ ran[c] \in Nat /\ MaxIssue \in Nat /\ Slots \subseteq Int
  BY ChannelAssumption DEF Inv, TypeOK, Slots
<1>2. \A i \in Slots, m \in Numbers : Holds(1 - queue_ptr, i, c, m) => run <= i
  BY NoClosure DEF Inv, SlotInv, BuffersInv, Holds
<1>3. \A b \in {0, 1}, i \in Slots, m \in Numbers :
        Holds(b, i, c, m) /\ ~(b = 1 - queue_ptr /\ i = run) => n < m
  <2> SUFFICES ASSUME NEW b \in {0, 1}, NEW i \in Slots, NEW m \in Numbers,
                      Holds(b, i, c, m), ~(b = 1 - queue_ptr /\ i = run)
               PROVE  n < m
    OBVIOUS
  <2>1. CASE b = 1 - queue_ptr
    <3>1. run < i
      BY <2>1, <1>1, <1>2
    <3> QED
      BY <2>1, <3>1, <1>1 DEF OrderInv, SortedInv
  <2>2. CASE b = queue_ptr
    BY <2>2 DEF OrderInv, SortedInv
  <2> QED
    BY <2>1, <2>2, <1>1
<1>4. ran[c] < n /\ n <= Written(c)
  BY <1>1 DEF OrderInv, QueuedInv
<1>5. Written(c) \in Int
  <2>1. issued[c] \in 0..MaxIssue
    BY DEF Inv, TypeOK
  <2> QED
    BY <2>1, ChannelAssumption DEF Written
<1>6. ran[c] + 1 \in Numbers /\ ran[c] < ran[c] + 1 /\ ran[c] + 1 <= Written(c)
  BY <1>1, <1>4, <1>5 DEF Numbers
<1>7. PICK b \in {0, 1}, i \in Slots : Holds(b, i, c, ran[c] + 1)
  BY <1>6 DEF OrderInv, QueuedInv
<1>8. CASE b = 1 - queue_ptr /\ i = run
  BY <1>7, <1>8, <1>3, <1>4, HoldsOne
<1>9. CASE ~(b = 1 - queue_ptr /\ i = run)
  <2>1. n < ran[c] + 1
    BY <1>7, <1>9, <1>3, <1>6
  <2> QED
    BY <2>1, <1>1, <1>4 DEF Numbers
<1> QED
  BY <1>3, <1>4, <1>8, <1>9

LEMMA RunOrder ==
  ASSUME Inv, OrderInv, RunTask
  PROVE  QueuedInv' /\ SortedInv'
<1> USE DEF shared, refs, locals, serverVars, calls
<1> DEFINE e == 1 - queue_ptr
           task == slots[e][run]
<1>1. /\ queue_ptr \in {0, 1} /\ e \in {0, 1} /\ e # queue_ptr
      /\ UNCHANGED <<queue_ptr, pc, index, issued>>
      /\ slots \in [{0, 1} -> [Slots -> Tasks \cup {Noop, Empty}]]
      /\ ran \in [Clients -> 0..MaxIssue]
  BY DEF Inv, TypeOK, RunTask
<1>2. run \in Slots
  BY ChannelAssumption DEF Inv, TypeOK, RunTask, Slots
<1>3. /\ slots' = [slots EXCEPT ![e][run] = Empty]
      /\ ran' = IF task \in Tasks THEN [ran EXCEPT ![task[1]] = task[2]] ELSE ran
  BY DEF RunTask
<1>4. \A b \in {0, 1}, i \in Slots, c \in Clients, n \in Numbers :
        Holds(b, i, c, n)' <=> Holds(b, i, c, n) /\ ~(b = e /\ i = run)
  <2> SUFFICES ASSUME NEW b \in {0, 1}, NEW i \in Slots, NEW c \in Clients, NEW n \in Numbers
               PROVE  Holds(b, i, c, n)' <=> Holds(b, i, c, n) /\ ~(b = e /\ i = run)
    OBVIOUS
  <2>1. CASE b = e /\ i = run
    <3>1. slots'[b][i] = Empty
      BY <2>1, <1>1, <1>2, <1>3
    <3> QED
      BY <2>1, <3>1, NoClosure DEF Holds
  <2>2. CASE ~(b = e /\ i = run)
    <3>1. slots'[b][i] = slots[b][i]
      BY <2>2, <1>1, <1>2, <1>3
    <3> QED
      BY <2>2, <3>1 DEF Holds
  <2> QED
    BY <2>1, <2>2
<1>5. \A c \in Clients : Written(c)' = Written(c)
  BY <1>1 DEF Written
<1>6. SortedInv'
  <2>1. e' = e /\ queue_ptr' = queue_ptr /\ index' = index /\ pc' = pc
    BY <1>1
  <2>2. \A b \in {0, 1}, i \in Slots, c \in Clients, n \in Numbers :
          Holds(b, i, c, n)' => Holds(b, i, c, n)
    BY <1>4
  <2> QED
    BY <2>1, <2>2, <1>1 DEF OrderInv, SortedInv
<1>7. CASE task \in Tasks
  <2>1. PICK c \in Clients, n \in Numbers : task = <<c, n>>
    BY <1>7, HoldsTask
  <2>2. Holds(e, run, c, n)
    BY <2>1 DEF Holds
  <2>3. /\ n = ran[c] + 1 /\ n <= Written(c)
        /\ \A b \in {0, 1}, i \in Slots, m \in Numbers :
             Holds(b, i, c, m) /\ ~(b = e /\ i = run) => n < m
    BY <1>2, <2>2, NextInOrder
  <2>4. ran' = [ran EXCEPT ![c] = n]
    BY <1>3, <1>7, <2>1
  <2>5. ran'[c] = n /\ \A d \in Clients : d # c => ran'[d] = ran[d]
    BY <2>4, <1>1
  <2> HIDE DEF e, task
  <2>6. \A d \in Clients : ran'[d] <= Written(d)'
    <3>1. \A d \in Clients : d # c => ran[d] <= Written(d)'
      BY <1>5 DEF OrderInv, QueuedInv
    <3>2. n <= Written(c)'
      BY <1>5, <2>3
    <3> QED
      BY <2>5, <3>1, <3>2
  <2>7. \A b \in {0, 1}, i \in Slots, d \in Clients, m \in Numbers :
          Holds(b, i, d, m)' => ran'[d] < m /\ m <= Written(d)'
    <3>1. \A b \in {0, 1}, i \in Slots, d \in Clients, m \in Numbers :
            Holds(b, i, d, m) => ran[d] < m /\ m <= Written(d)'
      BY <1>5 DEF OrderInv, QueuedInv
    <3> QED
      BY <1>4, <2>3, <2>5, <3>1
  <2>8. \A d \in Clients, m \in Numbers :
          ran'[d] < m /\ m <= Written(d)' => \E b \in {0, 1}, i \in Slots : Holds(b, i, d, m)'
    <3> SUFFICES ASSUME NEW d \in Clients, NEW m \in Numbers, ran'[d] < m, m <= Written(d)'
                 PROVE  \E b \in {0, 1}, i \in Slots : Holds(b, i, d, m)'
      OBVIOUS
    <3>1. ran[c] \in Nat /\ n \in Int /\ m \in Int
      BY <1>1, ChannelAssumption DEF Numbers
    <3>2. ran[d] < m /\ m <= Written(d) /\ (d = c => m # n)
      BY <1>5, <2>3, <2>5, <3>1
    <3>3. PICK b \in {0, 1}, i \in Slots : Holds(b, i, d, m)
      BY <3>2 DEF OrderInv, QueuedInv
    <3>4. ~(b = e /\ i = run)
      BY <2>2, <3>2, <3>3, HoldsOne
    <3> QED
      BY <3>3, <3>4, <1>4
  <2>9. QueuedInv'
    BY <2>6, <2>7, <2>8 DEF QueuedInv
  <2> QED
    BY <1>6, <2>9
<1>8. CASE task \notin Tasks
  <2>1. ran' = ran
    BY <1>3, <1>8
  <2>2. \A c \in Clients, n \in Numbers : ~Holds(e, run, c, n)
    <3> SUFFICES ASSUME NEW c \in Clients, NEW n \in Numbers, Holds(e, run, c, n) PROVE FALSE
      OBVIOUS
    <3>1. <<c, n>> \in Tasks
      BY DEF Tasks, Numbers
    <3>2. task = <<c, n>>
      BY DEF Holds
    <3> QED
      BY <3>1, <3>2, <1>8
  <2> HIDE DEF e, task
  <2>3. \A b \in {0, 1}, i \in Slots, c \in Clients, n \in Numbers :
          Holds(b, i, c, n)' <=> Holds(b, i, c, n)
    BY <1>4, <2>2
  <2>4. QueuedInv'
    BY <1>5, <2>1, <2>3 DEF OrderInv, QueuedInv
  <2> QED
    BY <1>6, <2>4
<1> QED
  BY <1>7, <1>8

-----------------------------------------------------------------------------

\* Nobody gets a reference once the server holds the only one.
LEMMA RefsStep ==
  ASSUME Inv, RefsInv, Next
  PROVE  RefsInv'
<1> USE DEF shared, refs, locals, serverVars, calls
<1>1. /\ pc \in [Actors -> ClientLabels \cup ServerLabels] /\ Server \in Actors
      /\ Server \notin Clients /\ Clients \subseteq Actors
  BY ChannelAssumption DEF Inv, TypeOK, Actors
<1>2. ASSUME NEW c \in Clients, ClientCall(c) PROVE RefsInv'
  <2>1. CASE \E d \in Clients : Clone(c, d)
    BY <2>1 DEF Clone, RefsInv, LastRef
  <2>2. CASE DropHandle(c)
    BY <2>2 DEF DropHandle, RefsInv, LastRef
  <2>3. CASE RequestShutdown(c)
    BY <2>3 DEF RequestShutdown, RefsInv, LastRef
  <2>4. CASE (\E w, h \in BOOLEAN : Send(c, w, h)) \/ Flush(c)
    <3>1. /\ c \in handles /\ handles' = handles /\ is_last_ref' = is_last_ref
          /\ \E l : pc' = [pc EXCEPT ![c] = l]
      BY <2>4 DEF Send, Flush, Goto
    <3>2. \A a \in Actors : a # c => pc'[a] = pc[a]
      BY <1>1, <3>1
    <3>3. ~LastRef
      BY <3>1 DEF LastRef
    <3> QED
      BY <1>1, <3>1, <3>2, <3>3 DEF RefsInv
  <2> QED
    BY <1>2, <2>1, <2>2, <2>3, <2>4 DEF ClientCall
<1>3. ASSUME NEW c \in Clients, ClientStep(c) \/ PadStep(c) PROVE RefsInv'
  <2>1. pc[c] # "idle"
    BY <1>3 DEF ClientStep, PadStep, Claim, LoadPtr, WriteTask, CountTask, Return,
                PadClaim, PadWrite, PadCount
  <2>2. /\ handles' = handles /\ clones' = clones /\ is_last_ref' = is_last_ref
        /\ (pc' = pc \/ \E l : pc' = [pc EXCEPT ![c] = l])
    BY <1>3 DEF ClientStep, PadStep, Claim, LoadPtr, WriteTask, CountTask, Return,
                PadClaim, PadWrite, PadCount, Goto
  <2>3. \A a \in Actors : a # c => pc'[a] = pc[a]
    BY <1>1, <2>2
  <2> QED
    BY <1>1, <2>1, <2>2, <2>3 DEF RefsInv, LastRef
<1>4. CASE RunTask
  <2>1. /\ pc' = pc /\ is_last_ref' = is_last_ref /\ handles \subseteq handles'
        /\ clones' \subseteq clones /\ (handles' # handles => clones # {})
    BY <1>4 DEF RunTask
  <2> QED
    BY <2>1 DEF RefsInv, LastRef
<1>5. ASSUME ServerStep, ~RunTask PROVE RefsInv'
  <2>1. /\ handles' = handles /\ clones' = clones
        /\ \E l : pc' = [pc EXCEPT ![Server] = l]
    BY <1>5 DEF ServerStep, ExecuteTasks, ExecuteDone, SkipExecute, LoadQueueSize, FetchSwap,
                FetchZeroCount, FetchZeroIndex, LoadRefs, LoadDrain, PadStep, PadClaim,
                LoadPtr, PadWrite, PadCount, Goto
  <2>2. \A c \in Clients : pc'[c] = pc[c]
    BY <1>1, <2>1
  <2>3. is_last_ref' => LastRef
    BY <1>5 DEF ServerStep, ExecuteTasks, ExecuteDone, SkipExecute, LoadQueueSize, FetchSwap,
                FetchZeroCount, FetchZeroIndex, LoadRefs, LoadDrain, PadStep, PadClaim,
                LoadPtr, PadWrite, PadCount, RefsInv
  <2>4. pc'[Server] = "stopped" => LastRef
    BY <1>1, <1>5 DEF ServerStep, ExecuteTasks, ExecuteDone, SkipExecute, LoadQueueSize,
                FetchSwap, FetchZeroCount, FetchZeroIndex, LoadRefs, LoadDrain, PadStep,
                PadClaim, LoadPtr, PadWrite, PadCount, Goto, AfterPad, AfterDrain, RefsInv
  <2> QED
    BY <2>1, <2>2, <2>3, <2>4 DEF RefsInv, LastRef
<1>6. CASE Stopped
  BY <1>6 DEF Stopped, vars, RefsInv, LastRef
<1> QED
  BY <1>2, <1>3, <1>4, <1>5, <1>6 DEF Next

\* OrderInv, like Inv, holds at first and after every step.
LEMMA InitOrder ==
  Init => OrderInv
<1> SUFFICES ASSUME Init PROVE OrderInv
  OBVIOUS
<1>1. \A b \in {0, 1}, i \in Slots, c \in Clients, n \in Numbers : ~Holds(b, i, c, n)
  BY NoClosure DEF Init, Holds
<1>2. /\ \A c \in Clients : c \in Actors /\ c # Server
      /\ queue_ptr = 0 /\ Server \in Actors
  BY ChannelAssumption DEF Init, Actors
<1>3. \A c \in Clients : pc[c] = "idle" /\ issued[c] = 0 /\ ran[c] = 0
  BY <1>2 DEF Init
<1>4. \A c \in Clients : Written(c) = 0
  BY <1>3 DEF Written
<1>5. QueuedInv
  BY <1>1, <1>3, <1>4 DEF QueuedInv, Numbers
<1>6. SortedInv
  BY <1>1, <1>2, <1>3 DEF SortedInv
<1>7. RefsInv
  BY <1>2, <1>3 DEF RefsInv, Init
<1> QED
  BY <1>5, <1>6, <1>7 DEF OrderInv

LEMMA NextOrder ==
  ASSUME ~Wrapping, Inv, OrderInv, [Next]_vars
  PROVE  OrderInv'
<1>1. ASSUME NEW a \in Actors, PadStep(a) PROVE QueuedInv' /\ SortedInv'
  BY <1>1, PassOrder, PadWriteOrder DEF PadStep
<1>2. ASSUME NEW c \in Clients, ClientCall(c) \/ ClientStep(c) \/ PadStep(c)
      PROVE  QueuedInv' /\ SortedInv'
  <2>1. c \in Actors
    BY DEF Actors
  <2>2. CASE ClientCall(c)
    BY <2>2, CallOrder
  <2>3. CASE ClientStep(c)
    BY <2>1, <2>3, CallOrder, ClaimOrder, PassOrder, WriteOrder DEF ClientStep
  <2>4. CASE PadStep(c)
    BY <2>1, <2>4, <1>1
  <2> QED
    BY <1>2, <2>2, <2>3, <2>4
<1>3. ASSUME ServerStep PROVE QueuedInv' /\ SortedInv'
  <2>1. Server \in Actors
    BY DEF Actors
  <2>2. CASE PadStep(Server)
    BY <1>1, <2>1, <2>2
  <2>3. CASE RunTask
    BY <2>3, RunOrder
  <2>4. CASE FetchSwap
    BY <2>4, SwapOrder
  <2>5. CASE \/ ExecuteTasks \/ ExecuteDone \/ SkipExecute \/ LoadQueueSize
             \/ FetchZeroCount \/ FetchZeroIndex \/ LoadRefs \/ LoadDrain
    BY <2>5, ServerOrder
  <2> QED
    BY <1>3, <2>2, <2>3, <2>4, <2>5 DEF ServerStep
<1>4. ASSUME UNCHANGED vars PROVE OrderInv'
  <2>1. UNCHANGED <<slots, queue_ptr, ran, pc, issued, index, handles, clones, is_last_ref>>
    BY <1>4 DEF vars, shared, refs, locals, serverVars, calls
  <2>2. \A b, i, c, n : Holds(b, i, c, n)' <=> Holds(b, i, c, n)
    BY <2>1 DEF Holds
  <2>3. \A c : Written(c)' = Written(c)
    BY <2>1 DEF Written
  <2>4. QueuedInv'
    BY <2>1, <2>2, <2>3 DEF OrderInv, QueuedInv
  <2>5. SortedInv'
    BY <2>1, <2>2 DEF OrderInv, SortedInv
  <2>6. RefsInv'
    BY <2>1 DEF OrderInv, RefsInv, LastRef
  <2> QED
    BY <2>4, <2>5, <2>6 DEF OrderInv
<1>5. ASSUME Next PROVE OrderInv'
  <2>1. RefsInv'
    BY <1>5, RefsStep DEF OrderInv
  <2>2. CASE Stopped
    BY <2>2, <1>4 DEF Stopped
  <2>3. CASE ServerStep
    BY <2>1, <2>3, <1>3 DEF OrderInv
  <2>4. CASE \E c \in Clients : ClientCall(c) \/ ClientStep(c) \/ PadStep(c)
    BY <2>1, <2>4, <1>2 DEF OrderInv
  <2> QED
    BY <1>5, <2>2, <2>3, <2>4 DEF Next
<1> QED
  BY <1>4, <1>5

-----------------------------------------------------------------------------

\* When the server decides to exit nothing is queued and nobody is about to
\* queue anything.
LEMMA NothingLeft ==
  ASSUME Inv, OrderInv, pc[Server] = "drain", enqueued_count = 0, LastRef
  PROVE  ran = issued
<1>1. /\ \A c \in Clients : pc[c] = "idle"
      /\ queue_ptr \in {0, 1} /\ 1 - queue_ptr \in {0, 1} /\ available_index \in Nat
      /\ issued \in [Clients -> 0..MaxIssue] /\ ran \in [Clients -> 0..MaxIssue]
  BY DEF OrderInv, RefsInv, LastRef, Inv, TypeOK
<1>2. \A a \in Actors, i \in Slots : ~Owns(a, i) /\ ~Wrote(a, i)
  BY <1>1 DEF Actors, Owns, Wrote, EnqueueLabels, PadLabels
<1>3. Counted = {}
  <2>1. Cardinality(Counted) = 0
    BY DEF Inv, SlotInv, CountInv
  <2> QED
    BY <2>1, CountedFinite, FS_EmptySet
<1>4. \A i \in Slots : slots[queue_ptr][i] = Empty /\ slots[1 - queue_ptr][i] = Empty
  BY <1>2, <1>3 DEF Inv, SlotInv, BuffersInv, Swapped
<1>5. \A b \in {0, 1}, i \in Slots, c \in Clients, n \in Numbers : ~Holds(b, i, c, n)
  <2>1. \A b \in {0, 1} : b = queue_ptr \/ b = 1 - queue_ptr
    BY <1>1
  <2> QED
    BY <2>1, <1>4, NoClosure DEF Holds
<1>6. \A c \in Clients : ran[c] = issued[c]
  <2> SUFFICES ASSUME NEW c \in Clients PROVE ran[c] = issued[c]
    OBVIOUS
  <2>1. Written(c) = issued[c]
    BY <1>1 DEF Written
  <2>2. ran[c] \in Nat /\ issued[c] \in 0..MaxIssue /\ ran[c] <= issued[c]
    BY <2>1, <1>1, ChannelAssumption DEF OrderInv, QueuedInv
  <2>3. CASE ran[c] < issued[c]
    <3>1. issued[c] \in Numbers /\ issued[c] <= Written(c)
      BY <2>1, <2>2, <2>3, ChannelAssumption DEF Numbers
    <3> QED
      BY <2>3, <3>1, <1>5 DEF OrderInv, QueuedInv
  <2> QED
    BY <2>2, <2>3, ChannelAssumption
<1> QED
  BY <1>1, <1>6

\* Every step is one of the abstract channel or leaves it alone.
LEMMA StepImplements ==
  ASSUME Inv, OrderInv, [Next]_vars
  PROVE  [Abstract!Next]_(Abstract!vars)
<1> USE DEF shared, refs, locals, serverVars, calls
<1> DEFINE gone == pc[Server] = "stopped"
<1>1. /\ pc \in [Actors -> ClientLabels \cup ServerLabels] /\ Server \in Actors
      /\ Server \notin Clients /\ Clients \subseteq Actors
      /\ ran \in [Clients -> 0..MaxIssue]
  BY ChannelAssumption DEF Inv, TypeOK, Actors
<1>2. ASSUME UNCHANGED <<issued, ran>>, gone' <=> gone
      PROVE  UNCHANGED Abstract!vars
  BY <1>2 DEF Abstract!vars
<1>3. ASSUME NEW c \in Clients, NEW w \in BOOLEAN, NEW h \in BOOLEAN, Send(c, w, h)
      PROVE  Abstract!Next
  <2>1. ~gone /\ ran' = ran /\ issued' = [issued EXCEPT ![c] = @ + 1]
    BY <1>3 DEF Send, OrderInv, RefsInv, LastRef
  <2>2. ~gone'
    BY <1>1, <1>3, <2>1 DEF Send, Goto
  <2>3. Abstract!Send(c)
    BY <2>1, <2>2 DEF Abstract!Send
  <2> QED
    BY <2>3 DEF Abstract!Next
<1>4. ASSUME NEW c \in Clients, ClientCall(c) \/ ClientStep(c) \/ PadStep(c),
             ~\E w, h \in BOOLEAN : Send(c, w, h)
      PROVE  UNCHANGED Abstract!vars
  <2>1. UNCHANGED <<issued, ran>> /\ (pc' = pc \/ \E l : pc' = [pc EXCEPT ![c] = l])
    BY <1>4 DEF ClientCall, Clone, DropHandle, RequestShutdown, Flush, ClientStep, PadStep,
                Claim, LoadPtr, WriteTask, CountTask, Return, PadClaim, PadWrite, PadCount, Goto
  <2>2. pc'[Server] = pc[Server]
    BY <1>1, <2>1
  <2> QED
    BY <1>2, <2>1, <2>2
<1>5. ASSUME RunTask PROVE [Abstract!Next]_(Abstract!vars)
  <2> DEFINE task == slots[1 - queue_ptr][run]
  <2>1. /\ run \in Slots /\ pc' = pc /\ ~gone /\ issued' = issued
        /\ ran' = IF task \in Tasks THEN [ran EXCEPT ![task[1]] = task[2]] ELSE ran
    BY <1>5, ChannelAssumption DEF RunTask, Inv, TypeOK, Slots
  <2>2. CASE task \notin Tasks
    BY <1>2, <2>1, <2>2
  <2>3. CASE task \in Tasks
    <3>1. PICK c \in Clients, n \in Numbers : task = <<c, n>>
      BY <2>3, HoldsTask
    <3>2. n = ran[c] + 1 /\ n <= Written(c)
      BY <2>1, <3>1, NextInOrder DEF Holds
    <3>3. ran' = [ran EXCEPT ![c] = ran[c] + 1]
      BY <2>1, <2>3, <3>1, <3>2
    <3>4. ran[c] < issued[c]
      <4>1. ran[c] \in Int /\ issued[c] \in Int
        BY ChannelAssumption DEF Inv, TypeOK
      <4> QED
        BY <4>1, <3>2 DEF Written
    <3>5. Abstract!Run(c)
      BY <2>1, <3>3, <3>4 DEF Abstract!Run
    <3> QED
      BY <3>5 DEF Abstract!Next
  <2> QED
    BY <2>2, <2>3
<1>6. ASSUME LoadDrain PROVE [Abstract!Next]_(Abstract!vars)
  <2>1. UNCHANGED <<issued, ran>> /\ pc[Server] = "drain" /\ pc'[Server] = AfterDrain
    BY <1>1, <1>6 DEF LoadDrain, Goto
  <2>2. CASE AfterDrain # "stopped"
    BY <1>2, <2>1, <2>2
  <2>3. CASE AfterDrain = "stopped"
    <3>1. enqueued_count = 0 /\ is_last_ref
      BY <2>3, ChannelAssumption DEF AfterDrain, Inv, TypeOK
    <3>2. ran = issued
      BY <2>1, <3>1, NothingLeft DEF OrderInv, RefsInv
    <3>3. Abstract!Stop
      BY <2>1, <2>3, <3>2 DEF Abstract!Stop
    <3> QED
      BY <3>3 DEF Abstract!Next
  <2> QED
    BY <2>2, <2>3
<1>7. ASSUME ServerStep, ~RunTask, ~LoadDrain PROVE UNCHANGED Abstract!vars
  <2>1. UNCHANGED <<issued, ran>> /\ pc[Server] # "stopped" /\ pc'[Server] # "stopped"
    BY <1>1, <1>7 DEF ServerStep, ExecuteTasks, ExecuteDone, SkipExecute, LoadQueueSize,
         FetchSwap, FetchZeroCount, FetchZeroIndex, LoadRefs, PadStep, PadClaim, LoadPtr,
         PadWrite, PadCount, Goto, AfterPad
  <2> QED
    BY <1>2, <2>1
<1>8. ASSUME UNCHANGED vars PROVE UNCHANGED Abstract!vars
  <2>1. UNCHANGED <<issued, ran, pc>>
    BY <1>8 DEF vars
  <2> QED
    BY <1>2, <2>1
<1>9. CASE \E c \in Clients : ClientCall(c) \/ ClientStep(c) \/ PadStep(c)
  BY <1>3, <1>4, <1>9
<1>10. CASE ServerStep
  BY <1>5, <1>6, <1>7, <1>10
<1>11. CASE Stopped \/ UNCHANGED vars
  BY <1>8, <1>11 DEF Stopped
<1> QED
  BY <1>9, <1>10, <1>11 DEF Next

(***************************************************************************)
(* ChannelDeviceHandle::send as its callers see it, however the claims,    *)
(* writes and counts of the clients interleave with the swaps of the       *)
(* server: closures of a client run once each and in order, and            *)
(* try_shutdown lets the runner exit only when everything sent has run.    *)
(***************************************************************************)
THEOREM ChannelImplements ==
  ASSUME ~Wrapping
  PROVE  Spec => ImplementsTaskChannel
<1>1. Init => Inv /\ OrderInv /\ Abstract!Init
  <2>1. Init => Abstract!Init
    BY ChannelAssumption DEF Init, Abstract!Init, Actors
  <2> QED
    BY <2>1, InitInv, InitOrder
<1>2. Inv /\ OrderInv /\ [Next]_vars => Inv' /\ OrderInv'
  BY NextInv, NextOrder
<1>3. Inv /\ OrderInv /\ [Next]_vars => [Abstract!Next]_(Abstract!vars)
  BY StepImplements
<1> QED
  BY <1>1, <1>2, <1>3, PTL DEF Spec, ImplementsTaskChannel, Abstract!Spec

=============================================================================
