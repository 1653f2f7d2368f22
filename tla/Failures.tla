------------------------------ MODULE Failures -------------------------------
(***************************************************************************)
(* Failure tracking on one device (cubecl-server): the device-wide graph of *)
(* failures (memory_management/error_graph.rs), the claims on the bytes of  *)
(* every allocation, and the write scope every launch and host copy runs in *)
(* (stream/failures.rs, stream/execute_scope.rs).                           *)
(*                                                                         *)
(* A scope claims each buffer of its write set for a provisional failure,   *)
(* runs its body, and releases the claims or lands the real error. A launch *)
(* that reads a claimed byte does not run, and its write set takes the      *)
(* claim. The bindings of a write set are processed one at a time, a step   *)
(* each. The claims of one allocation are a function of its bytes here;     *)
(* module Taint shows that the code's lists of ranges are one.              *)
(***************************************************************************)
EXTENDS Integers, Sequences, FiniteSets

CONSTANTS
  Memory,       \* ManagedMemoryIds, never used twice
  Bytes,        \* the bytes of an allocation
  Ranges,       \* the sets of bytes a binding can name, the empty one included
  MaxBindings,  \* longest write set
  MaxMint,      \* bound: failures minted in a behaviour
  MaxSkipped,   \* ErrorGraph::MAX_SKIPPED
  MaxTotal      \* bound: skips counted on two failures together

ASSUME MemoryFinite == IsFiniteSet(Memory)

ASSUME RangesAssumption == Ranges \subseteq SUBSET Bytes

ASSUME BoundsAssumption ==
  MaxBindings \in Nat /\ MaxMint \in Nat /\ MaxSkipped \in Nat \ {0} /\ MaxTotal \in Nat

VARIABLES
  status,       \* life of each allocation
  claims,       \* Slice::tainted of each allocation: the failure on each byte
  nodes,        \* ids the graph holds
  tagged,       \* Failure::tagged
  node,         \* the rest of each node: its error and its skip records
  minted,       \* ErrorGraph::minted
  phase,        \* where the open scope is
  written,      \* its write set
  next,         \* the binding of it that is processed next
  failure,      \* the failure its bytes are pointed at, 0 for none
  unwritten,    \* history: the bytes whose last writer did not write them
  stranded      \* history: minted by a scope that claimed nothing and panicked

graph == <<nodes, tagged, node, minted>>
scope == <<phase, written, next, failure>>
history == <<unwritten, stranded>>
vars == <<status, claims, graph, scope, history>>

Ids == 1 .. MaxMint
NoFailure == 0
Bindings == [memory : Memory, range : Ranges]

\* new -> live -> dropped -> gone, or new -> lost when the reservation fails.
\* A dropped allocation has no handle left, and its slice still has its claims.
Statuses == {"new", "live", "dropped", "gone", "lost"}
Phases == {"idle", "enter", "body", "release", "propagate", "taint"}
Records == [needed : Memory, produced : SUBSET Memory]

SkipLists == {s \in Seq(Records) : Len(s) <= MaxSkipped}

\* Failure, without its count: its error, the newest of what it stopped
\* (oldest first) and how much it stopped; and, for the properties only, the
\* write set it was minted for and how the scope that minted it ended.
Nodes == [error : {"TornDown", "real"}, skipped : SkipLists, total : Nat,
          roots : SUBSET Memory, ended : {"open", "failed", "panicked"}]

NewNode(e, w, end) ==
  [error |-> e, skipped |-> <<>>, total |-> 0,
   roots |-> {w[j].memory : j \in DOMAIN w}, ended |-> end]

\* What is known of an id the graph does not hold.
NoNode == NewNode("TornDown", <<>>, "open")

Forget(gone) == [f \in Ids |-> IF f \in gone THEN NoNode ELSE node[f]]

Resolves(b) == status[b.memory] = "live"
Nameable(m) == status[m] \in {"live", "lost"}

\* The failures that claim a byte of an allocation.
Carried(m) == {claims[m][i] : i \in Bytes} \ {NoFailure}

\* Taint::failure: a range overlapping several claims names one of them.
Claimants(b) ==
  IF Resolves(b) THEN {claims[b.memory][i] : i \in b.range} \ {NoFailure} ELSE {}

\* The bytes of the write set before the n-th binding.
Covered(n, m, i) ==
  \E j \in 1 .. n - 1 :
    j <= Len(written) /\ written[j].memory = m /\ i \in written[j].range

AllCovered(m, i) == Covered(Len(written) + 1, m, i)

-----------------------------------------------------------------------------

\* The bytes of one allocation get a new last writer, `by` or NoFailure: the
\* claims it loses are untagged, and a node is dropped with its last tag; a
\* claim it gains is tagged once.
Lost(m, after) ==
  Carried(m) \ {after[i] : i \in Bytes}

Gained(m, after) ==
  ({after[i] : i \in Bytes} \ {NoFailure}) \ Carried(m)

\* ErrorGraph::untag saturates.
Decrement(count) == IF count > 0 THEN count - 1 ELSE 0

LastTag(m, after) == {f \in Lost(m, after) : tagged[f] <= 1}

Reclaim(m, after) ==
  /\ claims' = [claims EXCEPT ![m] = after]
  /\ tagged' = [f \in Ids |->
       IF f \in Lost(m, after) THEN Decrement(tagged[f])
       ELSE IF f \in Gained(m, after) THEN tagged[f] + 1
       ELSE tagged[f]]
  /\ nodes' = nodes \ LastTag(m, after)
  /\ node' = Forget(LastTag(m, after))

Clean == [i \in Bytes |-> NoFailure]

MutantSetAllocation(b, by) == [i \in Bytes |-> by]

SetBytes(b, by) == [i \in Bytes |-> IF i \in b.range THEN by ELSE claims[b.memory][i]]

\* MemoryManagement::taint and written: a binding no slice answers to is left
\* alone.
SetBinding(b, by) ==
  IF Resolves(b) THEN Reclaim(b.memory, SetBytes(b, by))
                 ELSE UNCHANGED <<claims, tagged, nodes, node>>

-----------------------------------------------------------------------------

\* MemoryManagement::bind over a fresh slice.
Reserve(m) ==
  /\ phase \in {"idle", "body"}
  /\ status[m] = "new"
  /\ status' = [status EXCEPT ![m] = "live"]
  /\ UNCHANGED <<claims, graph, scope, history>>

\* The reservation failed: the program holds a binding no slice answers to.
FailReserve(m) ==
  /\ phase \in {"idle", "body"}
  /\ status[m] = "new"
  /\ status' = [status EXCEPT ![m] = "lost"]
  /\ UNCHANGED <<claims, graph, scope, history>>

\* The last handle goes away. An open scope's bindings are handles too.
DropHandle(m) ==
  /\ phase \in {"idle", "body"}
  /\ status[m] = "live"
  /\ \A j \in DOMAIN written : written[j].memory # m
  /\ status' = [status EXCEPT ![m] = "dropped"]
  /\ unwritten' = [unwritten EXCEPT ![m] = {}]
  /\ UNCHANGED <<claims, graph, scope, stranded>>

\* Slice::bind: the claims of the last allocation go before the handle does.
Rebind(old, m) ==
  /\ phase \in {"idle", "body"}
  /\ status[old] = "dropped" /\ status[m] = "new"
  /\ status' = [status EXCEPT ![old] = "gone", ![m] = "live"]
  /\ Reclaim(old, Clean)
  /\ UNCHANGED <<minted, scope, history>>

\* A free slice is coalesced, tombstoned, swept or handed over to.
MutantSweepKeepsTags(old) ==
  /\ phase \in {"idle", "body"}
  /\ status[old] = "dropped"
  /\ status' = [status EXCEPT ![old] = "gone"]
  /\ claims' = [claims EXCEPT ![old] = Clean]
  /\ UNCHANGED <<graph, scope, history>>

Sweep(old) ==
  /\ phase \in {"idle", "body"}
  /\ status[old] = "dropped"
  /\ status' = [status EXCEPT ![old] = "gone"]
  /\ Reclaim(old, Clean)
  /\ UNCHANGED <<minted, scope, history>>

-----------------------------------------------------------------------------

\* ErrorGraph::insert.
Insert(new) ==
  /\ minted < MaxMint
  /\ minted' = minted + 1
  /\ nodes' = nodes \cup {minted + 1}
  /\ tagged' = [tagged EXCEPT ![minted + 1] = 0]
  /\ node' = [node EXCEPT ![minted + 1] = new]

OpenOn(w, stage, f) ==
  /\ phase' = stage
  /\ written' = w
  /\ next' = 1
  /\ failure' = f

Close ==
  /\ phase' = "idle"
  /\ written' = <<>>
  /\ next' = 1
  /\ failure' = NoFailure

NameableSet(w) == \A j \in DOMAIN w : Nameable(w[j].memory)

\* ExecuteScope::over, through enter_write: an empty write set mints nothing.
Over(w) ==
  /\ phase = "idle"
  /\ NameableSet(w)
  /\ \/ /\ w = <<>>
        /\ OpenOn(w, "body", NoFailure)
        /\ UNCHANGED <<graph, history>>
     \/ /\ w # <<>>
        /\ Insert(NewNode("TornDown", w, "open"))
        /\ OpenOn(w, "enter", minted + 1)
        /\ UNCHANGED history
  /\ UNCHANGED <<status, claims>>

\* FailureStore::taint: work that never ran leaves its write set to `error`.
TaintFor(w) ==
  /\ phase = "idle"
  /\ NameableSet(w)
  /\ Insert(NewNode("real", w, "failed"))
  /\ OpenOn(w, "taint", minted + 1)
  /\ UNCHANGED <<status, claims, history>>

\* ErrorGraph::skipped, capped to the newest records.
Newest(records, record) ==
  Append(IF Len(records) = MaxSkipped THEN Tail(records) ELSE records, record)

MutantUncounted(f, record) ==
  node' = [node EXCEPT ![f].skipped = Newest(@, record),
                       ![f].total = Len(Newest(node[f].skipped, record))]

RecordSkip(f, record) ==
  node' = [node EXCEPT ![f].skipped = Newest(@, record), ![f].total = @ + 1]

\* The bound on skips: no two failures count more than MaxTotal together.
SkipsBounded(f) ==
  /\ node[f].total < MaxTotal
  /\ \A g \in nodes \ {f} : node[f].total + node[g].total < MaxTotal

\* ExecuteScope::launching when a read carries a failure: the launch does not
\* run, and its write set takes the failure that stopped it.
Skip(read, w) ==
  /\ phase = "idle"
  /\ NameableSet(w) /\ Nameable(read.memory)
  /\ \E f \in Claimants(read) :
       /\ SkipsBounded(f)
       /\ RecordSkip(f, [needed |-> read.memory,
                         produced |-> {w[j].memory : j \in DOMAIN w}])
       /\ OpenOn(w, "propagate", f)
  /\ UNCHANGED <<status, claims, nodes, tagged, minted, history>>

\* ExecuteScope::launching: the same scope as any other work when every read
\* can be trusted.
Launch(read, w) ==
  \/ Claimants(read) = {} /\ Nameable(read.memory) /\ Over(w)
  \/ Skip(read, w)

\* One binding of taint_with: the claim loop of enter_write, propagate and
\* taint.
TaintBinding ==
  /\ phase \in {"enter", "propagate", "taint"}
  /\ next <= Len(written)
  /\ SetBinding(written[next], failure)
  /\ next' = next + 1
  /\ UNCHANGED <<status, minted, phase, written, failure, history>>

\* Everything the write set names is claimed: the body runs.
MutantEnteredEarly ==
  /\ phase = "enter"
  /\ phase' = "body"
  /\ UNCHANGED <<status, claims, graph, written, next, failure, history>>

Entered ==
  /\ phase = "enter"
  /\ next > Len(written)
  /\ phase' = "body"
  /\ UNCHANGED <<status, claims, graph, written, next, failure, history>>

\* Nothing wrote the bytes of the write set.
LeaveUnwritten ==
  unwritten' = [m \in Memory |->
    IF status[m] = "live" THEN unwritten[m] \cup {i \in Bytes : AllCovered(m, i)}
                          ELSE unwritten[m]]

\* ErrorGraph::prune.
Untagged(f) == {g \in nodes : g = f /\ tagged[g] = 0}

Prune(f) ==
  /\ nodes' = nodes \ Untagged(f)
  /\ node' = Forget(Untagged(f))

\* The skipped launch's write set carries the failure.
Propagated ==
  /\ phase = "propagate"
  /\ next > Len(written)
  /\ Close
  /\ LeaveUnwritten
  /\ UNCHANGED <<status, claims, graph, stranded>>

Tainted ==
  /\ phase = "taint"
  /\ next > Len(written)
  /\ Prune(failure)
  /\ Close
  /\ LeaveUnwritten
  /\ UNCHANGED <<status, claims, tagged, minted, stranded>>

\* exit_write of a body that succeeded: first the claims on the write set go.
BodySucceeds ==
  /\ phase = "body"
  /\ phase' = "release"
  /\ next' = 1
  /\ UNCHANGED <<status, claims, graph, written, failure, history>>

ReleaseBinding ==
  /\ phase = "release"
  /\ next <= Len(written)
  /\ SetBinding(written[next], NoFailure)
  /\ next' = next + 1
  /\ UNCHANGED <<status, minted, phase, written, failure, history>>

Released ==
  /\ phase = "release"
  /\ next > Len(written)
  /\ Prune(failure)
  /\ unwritten' = [m \in Memory |->
       IF status[m] = "live" THEN unwritten[m] \ {i \in Bytes : AllCovered(m, i)}
                             ELSE unwritten[m]]
  /\ Close
  /\ UNCHANGED <<status, claims, tagged, minted, stranded>>

\* exit_write of a body that failed: the real error takes the provisional
\* one's place.
Settled(f, e, end) ==
  [g \in Ids |->
     IF g \in Untagged(f) THEN NoNode
     ELSE IF g = f /\ g \in nodes THEN [node[g] EXCEPT !.error = e, !.ended = end]
     ELSE node[g]]

MutantFailKeepsProvisional ==
  /\ phase = "body"
  /\ nodes' = nodes \ Untagged(failure)
  /\ node' = Settled(failure, "TornDown", "failed")
  /\ Close
  /\ LeaveUnwritten
  /\ UNCHANGED <<status, claims, tagged, minted, stranded>>

BodyFails ==
  /\ phase = "body"
  /\ nodes' = nodes \ Untagged(failure)
  /\ node' = Settled(failure, "real", "failed")
  /\ Close
  /\ LeaveUnwritten
  /\ UNCHANGED <<status, claims, tagged, minted, stranded>>

\* The body unwinds past the exit; the device thread catches the panic and
\* lives on.
BodyPanics ==
  /\ phase = "body"
  /\ node' = [f \in Ids |-> IF f = failure /\ f \in nodes
                            THEN [node[f] EXCEPT !.ended = "panicked"] ELSE node[f]]
  /\ stranded' = stranded \cup Untagged(failure)
  /\ Close
  /\ LeaveUnwritten
  /\ UNCHANGED <<status, claims, nodes, tagged, minted>>

Init ==
  /\ status = [m \in Memory |-> "new"]
  /\ claims = [m \in Memory |-> Clean]
  /\ nodes = {}
  /\ tagged = [f \in Ids |-> 0]
  /\ node = [f \in Ids |-> NoNode]
  /\ minted = 0
  /\ phase = "idle" /\ written = <<>> /\ next = 1 /\ failure = NoFailure
  /\ unwritten = [m \in Memory |-> {}]
  /\ stranded = {}

WriteSets == UNION {[1 .. n -> Bindings] : n \in 0 .. MaxBindings}

AllocatorNext ==
  \/ \E m \in Memory : Reserve(m) \/ FailReserve(m) \/ DropHandle(m) \/ Sweep(m)
  \/ \E old, m \in Memory : Rebind(old, m)

OpenNext ==
  \E w \in WriteSets :
    Over(w) \/ TaintFor(w) \/ \E read \in Bindings : Launch(read, w)

ScopeNext ==
  \/ TaintBinding \/ Entered \/ Propagated \/ Tainted
  \/ BodySucceeds \/ ReleaseBinding \/ Released \/ BodyFails \/ BodyPanics

Next == AllocatorNext \/ OpenNext \/ ScopeNext

Spec == Init /\ [][Next]_vars

-----------------------------------------------------------------------------

TypeOK ==
  /\ status \in [Memory -> Statuses]
  /\ claims \in [Memory -> [Bytes -> Ids \cup {NoFailure}]]
  /\ nodes \subseteq Ids
  /\ tagged \in [Ids -> Nat]
  /\ node \in [Ids -> Nodes]
  /\ minted \in 0 .. MaxMint
  /\ phase \in Phases
  /\ written \in Seq(Bindings) /\ Len(written) <= MaxBindings
  /\ next \in 1 .. MaxBindings + 1
  /\ failure \in Ids \cup {NoFailure}
  /\ unwritten \in [Memory -> SUBSET Bytes]
  /\ stranded \subseteq Ids

\* The count on a node is the number of allocations that carry it, through
\* every taint, release, rebinding and sweep (Failure::tagged).
TagsCountCarriers ==
  \A f \in Ids : tagged[f] = Cardinality({m \in Memory : f \in Carried(m)})

\* A carried failure id always has its node: the lookup that tags or untags
\* it never panics (ErrorGraph::node_mut), and no read finds a claim without
\* an error behind it.
CarriedHasNode == \A m \in Memory : Carried(m) \subseteq nodes

\* The graph holds no failure that nothing can read: a node is carried, or is
\* the provisional one of the open scope, or was left by a scope that claimed
\* nothing and then panicked.
NodesAreReachable ==
  \A f \in nodes :
    \/ tagged[f] > 0
    \/ f = failure
    \/ f \in stranded

\* The books of the graph: its state is well typed, the counts are right, and
\* what is carried, and nothing else, is kept.
GraphKept == TypeOK /\ TagsCountCarriers /\ CarriedHasNode /\ NodesAreReachable

\* Between scopes, a read of a live buffer is refused exactly when it covers a
\* byte whose last writer failed, panicked or was skipped (ensure_written).
ReadsMatchLastWriter ==
  phase = "idle" =>
    \A m \in Memory, i \in Bytes :
      status[m] = "live" => (claims[m][i] # NoFailure <=> i \in unwritten[m])

\* While a body runs, every byte it is going to write is claimed: an early
\* return or a panic anywhere in it cannot leave one that reads as written.
BodyRunsClaimed ==
  phase = "body" =>
    \A m \in Memory, i \in Bytes :
      status[m] = "live" /\ AllCovered(m, i) => claims[m][i] # NoFailure

\* A read is told the error that really stopped the work: the provisional
\* error only stands for a scope that is open or panicked (exit_write).
ErrorsAreReal ==
  \A f \in nodes : node[f].error = IF node[f].ended = "failed" THEN "real" ELSE "TornDown"

\* ErrorGraph::report: from the newest record that produced the buffer to the
\* one that produced what that needed, back to a buffer no record produced.
Before(f, from, n) ==
  [target \in Memory |->
     LET makers == {k \in 1 .. n : target \in node[f].skipped[k].produced}
         newest == CHOOSE k \in makers : \A j \in makers : j <= k
     IN  IF makers = {} THEN target ELSE from[newest - 1][node[f].skipped[newest].needed]]

Walk(f) ==
  LET from[n \in 0 .. MaxSkipped] == Before(f, from, n)
  IN  from[Len(node[f].skipped)]

\* The report of a failed read names the path back to a buffer of the work
\* that failed, unless records of the failure were dropped (skipped_total).
ReportsReachRoot ==
  phase = "idle" =>
    \A m \in Memory : status[m] = "live" =>
      \A f \in Carried(m) :
        node[f].total = Len(node[f].skipped) => Walk(f)[m] \in node[f].roots

\* The graph leaks only what the program leaks: with no scope open, a node
\* nothing carries is gone.
NoNodeWithoutCarrier ==
  phase = "idle" => \A f \in nodes : \E m \in Memory : f \in Carried(m)
=============================================================================
