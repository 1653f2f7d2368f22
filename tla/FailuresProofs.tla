-------------------------- MODULE FailuresProofs --------------------------
(***************************************************************************)
(* Proofs about Failures, for every set of allocations, every size and every*)
(* bound: the reference counts of the graph are exact, a carried id always  *)
(* has its node, nothing unreachable is kept, and a read is refused exactly *)
(* when it covers a byte whose last writer did not write it. First the      *)
(* inductive invariant and the steps that change claims (the claim and      *)
(* release loops of a scope, and the allocator), then the steps that open   *)
(* and close a scope, the theorems, and the errors a read is told.          *)
(***************************************************************************)
EXTENDS Failures, FiniteSetTheorems, WellFoundedInduction, TLAPS

USE ZenonT(3), SMTT(20)

Carriers(f) == {m \in Memory : f \in Carried(m)}

\* No id is in the graph before it is minted.
MintedFirst == \A f \in nodes : f <= minted

GraphInv ==
  /\ TagsCountCarriers
  /\ CarriedHasNode
  /\ MintedFirst
  /\ NodesAreReachable

\* While a scope claims bytes its failure has a node, and the failure of a
\* skip is carried by what the launch would have read.
ScopeInv ==
  /\ next <= Len(written) + 1
  /\ \A j \in 1 .. Len(written) : Nameable(written[j].memory)
  /\ phase = "idle" => written = <<>> /\ failure = NoFailure
  /\ phase \in {"enter", "propagate", "taint"} => failure \in nodes
  /\ phase = "propagate" => tagged[failure] > 0

\* A slice that is not in use has no claim but those of its last allocation.
LifeInv ==
  \A m \in Memory :
    /\ status[m] # "live" => unwritten[m] = {}
    /\ status[m] \in {"new", "lost", "gone"} => claims[m] = Clean

\* Where each byte's claim stands at each stage of a scope.
ClaimsInv ==
  \A m \in Memory, i \in Bytes : status[m] = "live" =>
    /\ phase = "idle" => (claims[m][i] # NoFailure <=> i \in unwritten[m])
    /\ phase \in {"enter", "propagate", "taint"} =>
         (claims[m][i] # NoFailure <=> (i \in unwritten[m] \/ Covered(next, m, i)))
    /\ phase = "body" =>
         (claims[m][i] # NoFailure <=> (i \in unwritten[m] \/ AllCovered(m, i)))
    /\ phase = "release" =>
         (claims[m][i] # NoFailure <=>
            ((i \in unwritten[m] \/ AllCovered(m, i)) /\ ~Covered(next, m, i)))

Inv == TypeOK /\ GraphInv /\ ScopeInv /\ LifeInv /\ ClaimsInv

-----------------------------------------------------------------------------

\* The carriers of a failure are finitely many: they are allocations.
LEMMA CarriersFinite ==
  ASSUME NEW f
  PROVE  IsFiniteSet(Carriers(f)) /\ Cardinality(Carriers(f)) \in Nat
<1>1. Carriers(f) \subseteq Memory
  BY DEF Carriers
<1>2. IsFiniteSet(Carriers(f))
  BY <1>1, MemoryFinite, FS_Subset
<1> QED
  BY <1>2, FS_CardinalityType

\* Adding or removing one allocation moves the number of carriers by one, and
\* the only carrier of a failure counted once is the one at hand.
LEMMA OneCarrier ==
  ASSUME NEW S, IsFiniteSet(S), NEW m
  PROVE  /\ m \notin S => Cardinality(S \cup {m}) = Cardinality(S) + 1
         /\ m \in S => Cardinality(S \ {m}) = Cardinality(S) - 1
         /\ m \in S => Cardinality(S) \in Nat \ {0}
         /\ m \in S /\ Cardinality(S) <= 1 => S = {m}
<1>1. m \notin S => Cardinality(S \cup {m}) = Cardinality(S) + 1
  BY FS_AddElement
<1>2. m \in S => Cardinality(S \ {m}) = Cardinality(S) - 1
  BY FS_RemoveElement
<1>3. Cardinality(S) \in Nat
  BY FS_CardinalityType
<1>4. m \in S => Cardinality(S) # 0
  BY FS_EmptySet
<1>5. ASSUME m \in S, Cardinality(S) <= 1
      PROVE  S = {m}
  <2>1. Cardinality(S \ {m}) = 0
    BY <1>2, <1>3, <1>4, <1>5
  <2>2. IsFiniteSet(S \ {m})
    BY FS_RemoveElement
  <2>3. S \ {m} = {}
    BY <2>1, <2>2, FS_EmptySet
  <2> QED
    BY <2>3, <1>5
<1> QED
  BY <1>1, <1>2, <1>3, <1>4, <1>5

\* The claims of one allocation after Reclaim, and those of the others.
LEMMA ReclaimCarried ==
  ASSUME TypeOK, NEW m \in Memory, NEW after \in [Bytes -> Ids \cup {NoFailure}],
         Reclaim(m, after)
  PROVE  /\ claims' \in [Memory -> [Bytes -> Ids \cup {NoFailure}]]
         /\ claims'[m] = after
         /\ \A n \in Memory : n # m => claims'[n] = claims[n]
         /\ Carried(m)' = {after[i] : i \in Bytes} \ {NoFailure}
         /\ \A n \in Memory : n # m => Carried(n)' = Carried(n)
<1>1. claims' = [claims EXCEPT ![m] = after] /\ claims \in [Memory -> [Bytes -> Ids \cup {NoFailure}]]
  BY DEF Reclaim, TypeOK
<1>2. claims'[m] = after /\ \A n \in Memory : n # m => claims'[n] = claims[n]
  BY <1>1
<1> QED
  BY <1>1, <1>2 DEF Carried

\* Untagging what was lost and tagging what was gained keeps the counts exact.
LEMMA ReclaimCounts ==
  ASSUME TypeOK, TagsCountCarriers,
         NEW m \in Memory, NEW after \in [Bytes -> Ids \cup {NoFailure}],
         Reclaim(m, after)
  PROVE  TagsCountCarriers' /\ tagged' \in [Ids -> Nat]
<1> SUFFICES ASSUME NEW f \in Ids
             PROVE  tagged'[f] = Cardinality(Carriers(f)')
  <2>1. \A f \in Ids : IsFiniteSet(Carriers(f)')
    <3> SUFFICES ASSUME NEW f \in Ids PROVE IsFiniteSet(Carriers(f)')
      OBVIOUS
    <3>1. Carriers(f)' \subseteq Memory
      BY DEF Carriers
    <3> QED
      BY <3>1, MemoryFinite, FS_Subset
  <2>2. \A f \in Ids : Cardinality(Carriers(f)') \in Nat
    BY <2>1, FS_CardinalityType
  <2>3. tagged' = [f \in Ids |-> tagged'[f]]
    BY DEF Reclaim
  <2> QED
    BY <2>2, <2>3, Zenon DEF TagsCountCarriers, Carriers
<1>1. tagged[f] = Cardinality(Carriers(f)) /\ tagged[f] \in Nat
  BY DEF TagsCountCarriers, Carriers, TypeOK
<1>2. IsFiniteSet(Carriers(f))
  BY CarriersFinite
<1>3. Carried(m)' = {after[i] : i \in Bytes} \ {NoFailure}
      /\ \A n \in Memory : n # m => Carried(n)' = Carried(n)
  BY ReclaimCarried
<1>4. f # NoFailure
  BY DEF Ids, NoFailure
<1>5. CASE f \in Lost(m, after)
  <2>1. m \in Carriers(f)
    BY <1>5 DEF Lost, Carriers
  <2>2. Carriers(f)' = Carriers(f) \ {m}
    BY <1>3, <1>5 DEF Lost, Carriers
  <2>3. tagged'[f] = Decrement(tagged[f])
    BY <1>5 DEF Reclaim
  <2>4. Cardinality(Carriers(f)) \in Nat \ {0}
        /\ Cardinality(Carriers(f) \ {m}) = Cardinality(Carriers(f)) - 1
    BY <2>1, <1>2, OneCarrier
  <2> QED
    BY <2>2, <2>3, <2>4, <1>1 DEF Decrement
<1>6. CASE f \in Gained(m, after)
  <2>1. m \notin Carriers(f) /\ f \notin Lost(m, after)
    BY <1>6 DEF Gained, Carriers, Lost
  <2>2. Carriers(f)' = Carriers(f) \cup {m}
    BY <1>3, <1>6 DEF Gained, Carriers
  <2>3. tagged'[f] = tagged[f] + 1
    BY <1>6, <2>1 DEF Reclaim
  <2> QED
    BY <2>1, <2>2, <2>3, <1>1, <1>2, OneCarrier
<1>7. CASE f \notin Lost(m, after) /\ f \notin Gained(m, after)
  <2>1. f \in Carried(m)' <=> f \in Carried(m)
    BY <1>3, <1>4, <1>7 DEF Lost, Gained
  <2>2. Carriers(f)' = Carriers(f)
    BY <1>3, <2>1 DEF Carriers
  <2>3. tagged'[f] = tagged[f]
    BY <1>7 DEF Reclaim
  <2> QED
    BY <2>2, <2>3, <1>1
<1> QED
  BY <1>5, <1>6, <1>7

\* What Reclaim does to the graph: a failure that is still carried keeps its
\* node, and a node that loses its last tag is dropped.
LEMMA ReclaimNodes ==
  ASSUME TypeOK, TagsCountCarriers, CarriedHasNode,
         NEW m \in Memory, NEW after \in [Bytes -> Ids \cup {NoFailure}],
         Gained(m, after) \subseteq nodes,
         Reclaim(m, after)
  PROVE  /\ CarriedHasNode'
         /\ nodes' \subseteq nodes
         /\ \A f \in nodes' : tagged'[f] > 0 \/ (tagged[f] = 0 /\ tagged'[f] = 0)
         /\ \A f \in Ids \ Lost(m, after) :
              /\ f \in nodes' <=> f \in nodes
              /\ tagged'[f] >= tagged[f]
<1>1. nodes' = nodes \ LastTag(m, after) /\ LastTag(m, after) \subseteq Lost(m, after)
  BY DEF Reclaim, LastTag
<1>2. Carried(m)' = {after[i] : i \in Bytes} \ {NoFailure}
      /\ \A n \in Memory : n # m => Carried(n)' = Carried(n)
  BY ReclaimCarried
<1>3. nodes \subseteq Ids /\ tagged \in [Ids -> Nat]
  BY DEF TypeOK
<1>4. ASSUME NEW n \in Memory, NEW f \in Carried(n)', f \notin nodes'
      PROVE  FALSE
  <2>1. CASE n = m
    <3>1. f \notin Lost(m, after)
      BY <1>2, <2>1, <1>4 DEF Lost
    <3>2. f \in Carried(m) \/ f \in Gained(m, after)
      BY <1>2, <2>1, <1>4 DEF Gained
    <3>3. f \in nodes
      BY <3>2 DEF CarriedHasNode
    <3> QED
      BY <3>1, <3>3, <1>1, <1>4
  <2>2. CASE n # m
    <3>1. f \in Carried(n) /\ f \in nodes
      BY <1>2, <2>2, <1>4 DEF CarriedHasNode
    <3>2. f \in LastTag(m, after) /\ f \in Ids
      BY <1>1, <1>3, <1>4, <3>1
    <3>3. f \in Lost(m, after) /\ tagged[f] <= 1
      BY <3>2 DEF LastTag
    <3>4. m \in Carriers(f) /\ n \in Carriers(f)
      BY <3>1, <3>3 DEF Lost, Carriers
    <3>5. tagged[f] = Cardinality(Carriers(f)) /\ IsFiniteSet(Carriers(f))
      BY <3>2, CarriersFinite, Zenon DEF TagsCountCarriers, Carriers
    <3>6. Cardinality(Carriers(f)) <= 1
      BY <3>3, <3>5
    <3>7. Carriers(f) = {m}
      BY <3>4, <3>5, <3>6, OneCarrier, Zenon
    <3> QED
      BY <3>4, <3>7, <2>2
  <2> QED
    BY <2>1, <2>2
<1>5. CarriedHasNode'
  BY <1>4 DEF CarriedHasNode
<1>6. ASSUME NEW f \in nodes'
      PROVE  tagged'[f] > 0 \/ (tagged[f] = 0 /\ tagged'[f] = 0)
  <2>1. f \in Ids /\ f \notin LastTag(m, after) /\ tagged[f] \in Nat
    BY <1>1, <1>3, <1>6
  <2>2. CASE f \in Lost(m, after)
    <3>1. tagged[f] > 1
      BY <2>1, <2>2 DEF LastTag
    <3>2. tagged'[f] = tagged[f] - 1
      BY <2>1, <2>2, <3>1 DEF Reclaim, Decrement
    <3> QED
      BY <3>1, <3>2, <2>1
  <2>3. CASE f \notin Lost(m, after)
    <3>1. tagged'[f] = tagged[f] + 1 \/ tagged'[f] = tagged[f]
      BY <2>1, <2>3 DEF Reclaim
    <3> QED
      BY <3>1, <2>1
  <2> QED
    BY <2>2, <2>3
<1>7. ASSUME NEW f \in Ids \ Lost(m, after)
      PROVE  (f \in nodes' <=> f \in nodes) /\ tagged'[f] >= tagged[f]
  <2>1. tagged'[f] = tagged[f] + 1 \/ tagged'[f] = tagged[f]
    BY <1>7 DEF Reclaim
  <2> QED
    BY <2>1, <1>1, <1>3, <1>7
<1> QED
  BY <1>1, <1>5, <1>6, <1>7

\* A node's record is well formed, and so is what is left of a dropped one.
LEMMA NodeTypes ==
  /\ NoNode \in Nodes
  /\ \A w \in Seq(Bindings) :
       NewNode("TornDown", w, "open") \in Nodes /\ NewNode("real", w, "failed") \in Nodes
  /\ node \in [Ids -> Nodes] => \A gone : Forget(gone) \in [Ids -> Nodes]
<1>1. ASSUME NEW w \in Seq(Bindings)
      PROVE  {w[j].memory : j \in DOMAIN w} \in SUBSET Memory
  <2>1. \A j \in DOMAIN w : w[j] \in Bindings
    BY <1>1
  <2> QED
    BY <2>1 DEF Bindings
<1>2. {<<>>[j].memory : j \in DOMAIN <<>>} \in SUBSET Memory
  OBVIOUS
<1>3. <<>> \in SkipLists /\ 0 \in Nat
  BY BoundsAssumption DEF SkipLists
<1>4. NoNode \in Nodes
  BY <1>2, <1>3 DEF NoNode, NewNode, Nodes
<1>5. ASSUME NEW w \in Seq(Bindings)
      PROVE  NewNode("TornDown", w, "open") \in Nodes /\ NewNode("real", w, "failed") \in Nodes
  BY <1>1, <1>3 DEF NewNode, Nodes
<1> QED
  BY <1>4, <1>5 DEF Forget

\* A write set that can be opened is a short sequence of bindings.
LEMMA WriteSetIsSeq ==
  ASSUME NEW w \in WriteSets
  PROVE  w \in Seq(Bindings) /\ Len(w) <= MaxBindings /\ DOMAIN w = 1 .. Len(w)
<1>1. PICK n \in 0 .. MaxBindings : w \in [1 .. n -> Bindings]
  BY DEF WriteSets
<1>2. n \in Nat /\ n <= MaxBindings
  BY <1>1, BoundsAssumption
<1>3. w \in Seq(Bindings) /\ Len(w) = n
  BY <1>1, <1>2
<1> QED
  BY <1>1, <1>2, <1>3

\* The bytes covered before the next binding, one binding later.
LEMMA CoveredStep ==
  ASSUME TypeOK, next <= Len(written), NEW m, NEW i
  PROVE  Covered(next + 1, m, i) <=>
           (Covered(next, m, i) \/ (written[next].memory = m /\ i \in written[next].range))
<1>1. next \in Nat /\ next >= 1 /\ Len(written) \in Nat
  BY BoundsAssumption DEF TypeOK
<1>2. \A j : j \in 1 .. (next + 1) - 1 <=> (j \in 1 .. next - 1 \/ j = next)
  BY <1>1
<1> QED
  BY <1>1, <1>2 DEF Covered

\* Nothing that is carried is pruned.
LEMMA PruneKeepsCarried ==
  ASSUME TypeOK, TagsCountCarriers, NEW m \in Memory, NEW f \in Carried(m), NEW g
  PROVE  f \notin Untagged(g) /\ tagged[f] > 0
<1>1. f \in Ids
  BY DEF TypeOK, Carried
<1>2. m \in Carriers(f) /\ IsFiniteSet(Carriers(f))
  BY CarriersFinite DEF Carriers
<1>3. Cardinality(Carriers(f)) \in Nat \ {0}
  BY <1>2, OneCarrier, Zenon
<1>4. tagged[f] = Cardinality(Carriers(f))
  BY <1>1 DEF TagsCountCarriers, Carriers
<1> QED
  BY <1>3, <1>4 DEF Untagged

\* A failure that is about to be minted is carried by nothing.
LEMMA FreshUntagged ==
  ASSUME TypeOK, GraphInv, minted < MaxMint
  PROVE  /\ minted + 1 \in Ids /\ minted + 1 \notin nodes
         /\ tagged[minted + 1] = 0
         /\ [tagged EXCEPT ![minted + 1] = 0] = tagged
<1>1. minted + 1 \in Ids /\ minted \in Nat
  BY BoundsAssumption DEF TypeOK, Ids
<1>2. minted + 1 \notin nodes
  BY <1>1 DEF GraphInv, MintedFirst
<1>3. Carriers(minted + 1) = {}
  BY <1>2 DEF Carriers, GraphInv, CarriedHasNode
<1>4. tagged[minted + 1] = 0
  BY <1>1, <1>3, FS_EmptySet DEF GraphInv, TagsCountCarriers, Carriers
<1> QED
  BY <1>1, <1>2, <1>4 DEF TypeOK

\* What processing one binding of a write set does to the claims and the graph.
LEMMA SetBindingFacts ==
  ASSUME TypeOK, GraphInv, UNCHANGED status,
         NEW b \in Bindings, NEW by \in nodes \cup {NoFailure},
         SetBinding(b, by)
  PROVE  /\ claims' \in [Memory -> [Bytes -> Ids \cup {NoFailure}]]
         /\ tagged' \in [Ids -> Nat]
         /\ node' \in [Ids -> Nodes]
         /\ nodes' \subseteq nodes
         /\ TagsCountCarriers' /\ CarriedHasNode'
         /\ \A f \in nodes' : tagged'[f] > 0 \/ (tagged[f] = 0 /\ tagged'[f] = 0)
         /\ by \in nodes => by \in nodes' /\ tagged'[by] >= tagged[by]
         /\ \A m \in Memory, i \in Bytes : status[m] = "live" =>
              claims'[m][i] = IF b.memory = m /\ i \in b.range THEN by ELSE claims[m][i]
         /\ \A m \in Memory : status[m] # "live" => claims'[m] = claims[m]
<1>t. /\ claims \in [Memory -> [Bytes -> Ids \cup {NoFailure}]]
      /\ tagged \in [Ids -> Nat] /\ node \in [Ids -> Nodes] /\ nodes \subseteq Ids
      /\ TagsCountCarriers /\ CarriedHasNode
      /\ b.memory \in Memory
  BY DEF TypeOK, GraphInv, Bindings
<1>1. CASE Resolves(b)
  <2> DEFINE m == b.memory
             after == SetBytes(b, by)
  <2>1. Reclaim(m, after)
    BY <1>1 DEF SetBinding
  <2>2. after \in [Bytes -> Ids \cup {NoFailure}]
    BY <1>t DEF SetBytes
  <2>3. ASSUME NEW f \in Gained(m, after) PROVE f = by /\ f \in nodes
    BY <2>3, <1>t DEF Gained, SetBytes, Carried
  <2>4. by \in nodes => by \notin Lost(m, after)
    <3> SUFFICES ASSUME by \in nodes, by \in Lost(m, after) PROVE FALSE
      OBVIOUS
    <3>1. PICK i \in Bytes : claims[m][i] = by
      BY DEF Lost, Carried
    <3>2. after[i] = by
      BY <3>1 DEF SetBytes
    <3> QED
      BY <3>1, <3>2 DEF Lost
  <2>5. /\ claims' \in [Memory -> [Bytes -> Ids \cup {NoFailure}]]
        /\ claims'[m] = after
        /\ \A n \in Memory : n # m => claims'[n] = claims[n]
    BY <1>t, <2>1, <2>2, ReclaimCarried
  <2>6. TagsCountCarriers' /\ tagged' \in [Ids -> Nat]
    BY <1>t, <2>1, <2>2, ReclaimCounts
  <2>7. /\ CarriedHasNode' /\ nodes' \subseteq nodes
        /\ \A f \in nodes' : tagged'[f] > 0 \/ (tagged[f] = 0 /\ tagged'[f] = 0)
        /\ \A f \in Ids \ Lost(m, after) :
             (f \in nodes' <=> f \in nodes) /\ tagged'[f] >= tagged[f]
    <3>1. Gained(m, after) \subseteq nodes
      BY <2>3
    <3> HIDE DEF m, after
    <3>2. m \in Memory
      BY <1>t DEF m
    <3> QED
      BY <3>1, <3>2, <1>t, <2>1, <2>2, ReclaimNodes
  <2>8. node' \in [Ids -> Nodes]
    <3>1. node' = Forget(LastTag(m, after))
      BY <2>1 DEF Reclaim
    <3> QED
      BY <3>1, <1>t, NodeTypes
  <2>9. by \in nodes => by \in nodes' /\ tagged'[by] >= tagged[by]
    BY <2>4, <2>7, <1>t
  <2>10. ASSUME NEW n \in Memory, NEW i \in Bytes
         PROVE  claims'[n][i] = IF m = n /\ i \in b.range THEN by ELSE claims[n][i]
    <3>1. CASE n = m
      <4>1. after[i] = IF i \in b.range THEN by ELSE claims[m][i]
        BY DEF SetBytes
      <4> QED
        BY <4>1, <3>1, <2>5
    <3>2. CASE n # m
      BY <3>2, <2>5
    <3> QED
      BY <3>1, <3>2
  <2>11. \A n \in Memory : status[n] # "live" => claims'[n] = claims[n]
    BY <2>5, <1>1 DEF Resolves
  <2> QED
    BY <2>5, <2>6, <2>7, <2>8, <2>9, <2>10, <2>11
<1>2. CASE ~Resolves(b)
  <2>1. UNCHANGED <<claims, tagged, nodes, node>>
    BY <1>2 DEF SetBinding
  <2>2. TagsCountCarriers' /\ CarriedHasNode'
    BY <2>1, <1>t DEF TagsCountCarriers, CarriedHasNode, Carried
  <2>3. \A f \in nodes' : tagged'[f] > 0 \/ (tagged[f] = 0 /\ tagged'[f] = 0)
    BY <2>1, <1>t
  <2>4. by \in nodes => by \in nodes' /\ tagged'[by] >= tagged[by]
    BY <2>1, <1>t
  <2>5. \A m \in Memory, i \in Bytes : status[m] = "live" =>
              claims'[m][i] = IF b.memory = m /\ i \in b.range THEN by ELSE claims[m][i]
    BY <2>1, <1>2 DEF Resolves
  <2> QED
    BY <2>1, <2>2, <2>3, <2>4, <2>5, <1>t
<1> QED
  BY <1>1, <1>2

-----------------------------------------------------------------------------

\* The claim loop: the failure of the scope gets the bytes of one binding.
LEMMA TaintBindingStep ==
  ASSUME Inv, TaintBinding
  PROVE  Inv'
<1> USE DEF Inv
<1>t. TypeOK /\ GraphInv /\ ScopeInv /\ LifeInv /\ ClaimsInv
  OBVIOUS
<1>1. /\ phase \in {"enter", "propagate", "taint"} /\ next <= Len(written)
      /\ SetBinding(written[next], failure) /\ next' = next + 1
      /\ status' = status /\ minted' = minted /\ phase' = phase /\ written' = written
      /\ failure' = failure /\ unwritten' = unwritten /\ stranded' = stranded
  BY DEF TaintBinding, history
<1>2. /\ written \in Seq(Bindings) /\ next \in Nat /\ next >= 1
      /\ Len(written) \in Nat /\ Len(written) <= MaxBindings
  BY BoundsAssumption DEF TypeOK
<1>3. written[next] \in Bindings /\ failure \in nodes
  BY <1>1, <1>2 DEF ScopeInv
<1>4. /\ claims' \in [Memory -> [Bytes -> Ids \cup {NoFailure}]]
      /\ tagged' \in [Ids -> Nat] /\ node' \in [Ids -> Nodes] /\ nodes' \subseteq nodes
      /\ TagsCountCarriers' /\ CarriedHasNode'
      /\ \A f \in nodes' : tagged'[f] > 0 \/ (tagged[f] = 0 /\ tagged'[f] = 0)
      /\ failure \in nodes' /\ tagged'[failure] >= tagged[failure]
      /\ \A m \in Memory, i \in Bytes : status[m] = "live" =>
           claims'[m][i] = IF written[next].memory = m /\ i \in written[next].range
                           THEN failure ELSE claims[m][i]
      /\ \A m \in Memory : status[m] # "live" => claims'[m] = claims[m]
  BY <1>1, <1>3, SetBindingFacts
<1>5. nodes \subseteq Ids /\ failure \in Ids /\ tagged \in [Ids -> Nat]
  BY <1>3 DEF TypeOK
<1>6. TypeOK'
  <2>1. next' \in 1 .. MaxBindings + 1
    BY <1>1, <1>2, BoundsAssumption
  <2> QED
    BY <2>1, <1>1, <1>4, <1>5 DEF TypeOK
<1>7. GraphInv'
  <2>1. MintedFirst'
    BY <1>1, <1>4 DEF GraphInv, MintedFirst
  <2>2. NodesAreReachable'
    BY <1>1, <1>4 DEF GraphInv, NodesAreReachable
  <2> QED
    BY <2>1, <2>2, <1>4 DEF GraphInv
<1>8. ScopeInv'
  <2>1. next' <= Len(written') + 1
    BY <1>1, <1>2
  <2>2. \A j \in 1 .. Len(written') : Nameable(written[j].memory)'
    BY <1>1 DEF ScopeInv, Nameable
  <2>3. phase' = "propagate" => tagged'[failure'] > 0
    BY <1>1, <1>4, <1>5 DEF ScopeInv
  <2> QED
    BY <2>1, <2>2, <2>3, <1>1, <1>4 DEF ScopeInv
<1>9. LifeInv'
  BY <1>1, <1>4 DEF LifeInv, Clean
<1>10. ClaimsInv'
  <2> SUFFICES ASSUME NEW m \in Memory, NEW i \in Bytes, status[m] = "live"
               PROVE  claims'[m][i] # NoFailure <=>
                        (i \in unwritten[m] \/ Covered(next + 1, m, i))
    <3>1. \A m, i : Covered(next, m, i)' <=> Covered(next + 1, m, i)
      BY <1>1 DEF Covered
    <3> QED
      BY <1>1, <3>1 DEF ClaimsInv
  <2>1. claims[m][i] # NoFailure <=> (i \in unwritten[m] \/ Covered(next, m, i))
    BY <1>1 DEF ClaimsInv
  <2>2. Covered(next + 1, m, i) <=>
          (Covered(next, m, i) \/ (written[next].memory = m /\ i \in written[next].range))
    BY <1>1, CoveredStep
  <2>3. failure # NoFailure
    BY <1>5 DEF Ids, NoFailure
  <2> QED
    BY <2>1, <2>2, <2>3, <1>4
<1> QED
  BY <1>6, <1>7, <1>8, <1>9, <1>10

\* The release loop: the bytes of one binding have a writer again.
LEMMA ReleaseBindingStep ==
  ASSUME Inv, ReleaseBinding
  PROVE  Inv'
<1> USE DEF Inv
<1>t. TypeOK /\ GraphInv /\ ScopeInv /\ LifeInv /\ ClaimsInv
  OBVIOUS
<1>1. /\ phase = "release" /\ next <= Len(written)
      /\ SetBinding(written[next], NoFailure) /\ next' = next + 1
      /\ status' = status /\ minted' = minted /\ phase' = phase /\ written' = written
      /\ failure' = failure /\ unwritten' = unwritten /\ stranded' = stranded
  BY DEF ReleaseBinding, history
<1>2. /\ written \in Seq(Bindings) /\ next \in Nat /\ next >= 1
      /\ Len(written) \in Nat /\ Len(written) <= MaxBindings
  BY BoundsAssumption DEF TypeOK
<1>3. written[next] \in Bindings
  BY <1>1, <1>2
<1>4. /\ claims' \in [Memory -> [Bytes -> Ids \cup {NoFailure}]]
      /\ tagged' \in [Ids -> Nat] /\ node' \in [Ids -> Nodes] /\ nodes' \subseteq nodes
      /\ TagsCountCarriers' /\ CarriedHasNode'
      /\ \A f \in nodes' : tagged'[f] > 0 \/ (tagged[f] = 0 /\ tagged'[f] = 0)
      /\ \A m \in Memory, i \in Bytes : status[m] = "live" =>
           claims'[m][i] = IF written[next].memory = m /\ i \in written[next].range
                           THEN NoFailure ELSE claims[m][i]
      /\ \A m \in Memory : status[m] # "live" => claims'[m] = claims[m]
  BY <1>1, <1>3, SetBindingFacts
<1>5. nodes \subseteq Ids
  BY DEF TypeOK
<1>6. TypeOK'
  <2>1. next' \in 1 .. MaxBindings + 1
    BY <1>1, <1>2, BoundsAssumption
  <2> QED
    BY <2>1, <1>1, <1>4, <1>5 DEF TypeOK
<1>7. GraphInv'
  <2>1. MintedFirst'
    BY <1>1, <1>4 DEF GraphInv, MintedFirst
  <2>2. NodesAreReachable'
    BY <1>1, <1>4 DEF GraphInv, NodesAreReachable
  <2> QED
    BY <2>1, <2>2, <1>4, SMTT(30) DEF GraphInv
<1>8. ScopeInv'
  <2>1. next' <= Len(written') + 1
    BY <1>1, <1>2
  <2>2. \A j \in 1 .. Len(written') : Nameable(written[j].memory)'
    BY <1>1 DEF ScopeInv, Nameable
  <2> QED
    BY <2>1, <2>2, <1>1 DEF ScopeInv
<1>9. LifeInv'
  BY <1>1, <1>4 DEF LifeInv, Clean
<1>10. ClaimsInv'
  <2> SUFFICES ASSUME NEW m \in Memory, NEW i \in Bytes, status[m] = "live"
               PROVE  claims'[m][i] # NoFailure <=>
                        ((i \in unwritten[m] \/ AllCovered(m, i)) /\ ~Covered(next + 1, m, i))
    <3>1. \A m, i : /\ Covered(next, m, i)' <=> Covered(next + 1, m, i)
                    /\ AllCovered(m, i)' <=> AllCovered(m, i)
      BY <1>1 DEF Covered, AllCovered
    <3> QED
      BY <1>1, <3>1 DEF ClaimsInv
  <2>1. claims[m][i] # NoFailure <=>
          ((i \in unwritten[m] \/ AllCovered(m, i)) /\ ~Covered(next, m, i))
    BY <1>1 DEF ClaimsInv
  <2>2. Covered(next + 1, m, i) <=>
          (Covered(next, m, i) \/ (written[next].memory = m /\ i \in written[next].range))
    BY <1>1, CoveredStep
  <2> QED
    BY <2>1, <2>2, <1>4
<1> QED
  BY <1>6, <1>7, <1>8, <1>9, <1>10

\* What clearing a slice nobody holds does to the claims and the graph.
LEMMA ClearFacts ==
  ASSUME TypeOK, GraphInv, NEW old \in Memory, Reclaim(old, Clean),
         UNCHANGED <<minted, failure, stranded>>
  PROVE  /\ claims' \in [Memory -> [Bytes -> Ids \cup {NoFailure}]]
         /\ tagged' \in [Ids -> Nat] /\ node' \in [Ids -> Nodes] /\ nodes' \subseteq nodes
         /\ GraphInv'
         /\ claims'[old] = Clean
         /\ \A n \in Memory : n # old => claims'[n] = claims[n]
<1>1. TagsCountCarriers /\ CarriedHasNode /\ node \in [Ids -> Nodes]
  BY DEF GraphInv, TypeOK
<1>2. Clean \in [Bytes -> Ids \cup {NoFailure}] /\ Gained(old, Clean) \subseteq nodes
  BY DEF Clean, Gained
<1>3. /\ claims' \in [Memory -> [Bytes -> Ids \cup {NoFailure}]]
      /\ claims'[old] = Clean
      /\ \A n \in Memory : n # old => claims'[n] = claims[n]
  BY <1>2, ReclaimCarried
<1>4. TagsCountCarriers' /\ tagged' \in [Ids -> Nat]
  BY <1>1, <1>2, ReclaimCounts
<1>5. /\ CarriedHasNode' /\ nodes' \subseteq nodes
      /\ \A f \in nodes' : tagged'[f] > 0 \/ (tagged[f] = 0 /\ tagged'[f] = 0)
  BY <1>1, <1>2, ReclaimNodes
<1>6. node' \in [Ids -> Nodes]
  <2>1. node' = Forget(LastTag(old, Clean))
    BY DEF Reclaim
  <2> QED
    BY <2>1, <1>1, NodeTypes
<1>7. MintedFirst' /\ NodesAreReachable'
  BY <1>5 DEF GraphInv, MintedFirst, NodesAreReachable
<1> QED
  BY <1>3, <1>4, <1>5, <1>6, <1>7 DEF GraphInv

\* A step of the allocator between scopes or under a body: the allocations
\* that become live have no claims, and no write set names them.
LEMMA AllocatorFrame ==
  ASSUME Inv, phase \in {"idle", "body"}, UNCHANGED <<minted, scope, stranded>>,
         status' \in [Memory -> Statuses],
         claims' \in [Memory -> [Bytes -> Ids \cup {NoFailure}]],
         tagged' \in [Ids -> Nat], node' \in [Ids -> Nodes], nodes' \subseteq nodes,
         unwritten' \in [Memory -> SUBSET Bytes],
         GraphInv', LifeInv',
         \A j \in 1 .. Len(written) : Nameable(written[j].memory)',
         \A m \in Memory : status'[m] = "live" =>
           /\ claims'[m] = claims[m] /\ unwritten'[m] = unwritten[m]
           /\ status[m] = "live" \/ status[m] = "new"
  PROVE  Inv'
<1> USE DEF Inv
<1>1. phase' = phase /\ written' = written /\ next' = next /\ failure' = failure
      /\ minted' = minted /\ stranded' = stranded
  BY DEF scope
<1>2. TypeOK'
  <2>1. nodes' \subseteq Ids
    BY DEF TypeOK
  <2> QED
    BY <1>1, <2>1 DEF TypeOK
<1>3. ScopeInv'
  BY <1>1 DEF ScopeInv
<1>4. ClaimsInv'
  <2> SUFFICES ASSUME NEW m \in Memory, NEW i \in Bytes, status'[m] = "live"
               PROVE  /\ phase = "idle" => (claims[m][i] # NoFailure <=> i \in unwritten[m])
                      /\ phase = "body" =>
                           (claims[m][i] # NoFailure <=>
                              (i \in unwritten[m] \/ AllCovered(m, i)))
    <3>1. \A m, i : AllCovered(m, i)' <=> AllCovered(m, i)
      BY <1>1 DEF AllCovered, Covered
    <3> QED
      BY <1>1, <3>1 DEF ClaimsInv
  <2>1. CASE status[m] = "live"
    BY <2>1 DEF ClaimsInv
  <2>2. CASE status[m] = "new"
    <3>1. claims[m][i] = NoFailure /\ i \notin unwritten[m]
      BY <2>2 DEF LifeInv, Clean
    <3>2. ~AllCovered(m, i)
      BY <2>2 DEF AllCovered, Covered, ScopeInv, Nameable
    <3> QED
      BY <3>1, <3>2
  <2> QED
    BY <2>1, <2>2, SMTT(30)
<1> QED
  BY <1>2, <1>3, <1>4

\* Allocations come and go: Reserve, FailReserve and DropHandle change no
\* claim; Rebind and Sweep clear those of a slice nobody holds.
LEMMA AllocatorStep ==
  ASSUME Inv, AllocatorNext
  PROVE  Inv'
<1> USE DEF Inv
<1>t. /\ status \in [Memory -> Statuses] /\ unwritten \in [Memory -> SUBSET Bytes]
      /\ claims \in [Memory -> [Bytes -> Ids \cup {NoFailure}]]
      /\ tagged \in [Ids -> Nat] /\ node \in [Ids -> Nodes]
      /\ GraphInv /\ LifeInv
      /\ \A j \in 1 .. Len(written) :
           written[j].memory \in Memory /\ Nameable(written[j].memory)
  <2>1. \A j \in 1 .. Len(written) : written[j] \in Bindings
    BY DEF TypeOK
  <2> QED
    BY <2>1 DEF TypeOK, ScopeInv, Bindings
<1>f. ASSUME UNCHANGED <<claims, graph, scope, stranded>>
      PROVE  GraphInv'
  <2>1. UNCHANGED <<claims, nodes, tagged, minted, failure, stranded>>
    BY <1>f DEF graph, scope
  <2>2. TagsCountCarriers' /\ CarriedHasNode'
    BY <2>1, <1>t DEF GraphInv, TagsCountCarriers, CarriedHasNode, Carried
  <2>3. MintedFirst' /\ NodesAreReachable'
    BY <2>1, <1>t DEF GraphInv, MintedFirst, NodesAreReachable
  <2> QED
    BY <2>2, <2>3 DEF GraphInv
<1>1. ASSUME NEW m \in Memory, Reserve(m) PROVE Inv'
  <2>1. /\ phase \in {"idle", "body"} /\ status[m] = "new"
        /\ status' = [status EXCEPT ![m] = "live"]
        /\ UNCHANGED <<claims, graph, scope, unwritten, stranded>>
    BY <1>1 DEF Reserve, history
  <2>2. UNCHANGED <<nodes, tagged, node, minted, written>>
    BY <2>1 DEF graph, scope
  <2>3. LifeInv'
    BY <2>1, <1>t DEF LifeInv, Clean
  <2>4. \A j \in 1 .. Len(written) : Nameable(written[j].memory)'
    BY <2>1, <2>2, <1>t DEF Nameable
  <2>5. status' \in [Memory -> Statuses]
    BY <2>1, <1>t DEF Statuses
  <2> QED
    BY <2>1, <2>2, <2>3, <2>4, <2>5, <1>t, <1>f, AllocatorFrame
<1>2. ASSUME NEW m \in Memory, FailReserve(m) PROVE Inv'
  <2>1. /\ phase \in {"idle", "body"} /\ status[m] = "new"
        /\ status' = [status EXCEPT ![m] = "lost"]
        /\ UNCHANGED <<claims, graph, scope, unwritten, stranded>>
    BY <1>2 DEF FailReserve, history
  <2>2. UNCHANGED <<nodes, tagged, node, minted, written>>
    BY <2>1 DEF graph, scope
  <2>3. LifeInv'
    BY <2>1, <1>t DEF LifeInv, Clean
  <2>4. \A j \in 1 .. Len(written) : Nameable(written[j].memory)'
    BY <2>1, <2>2, <1>t DEF Nameable
  <2>5. status' \in [Memory -> Statuses]
    BY <2>1, <1>t DEF Statuses
  <2> QED
    BY <2>1, <2>2, <2>3, <2>4, <2>5, <1>t, <1>f, AllocatorFrame
<1>3. ASSUME NEW m \in Memory, DropHandle(m) PROVE Inv'
  <2>1. /\ phase \in {"idle", "body"} /\ status[m] = "live"
        /\ \A j \in DOMAIN written : written[j].memory # m
        /\ status' = [status EXCEPT ![m] = "dropped"]
        /\ unwritten' = [unwritten EXCEPT ![m] = {}]
        /\ UNCHANGED <<claims, graph, scope, stranded>>
    BY <1>3 DEF DropHandle
  <2>2. UNCHANGED <<nodes, tagged, node, minted, written>>
    BY <2>1 DEF graph, scope
  <2>3. LifeInv'
    BY <2>1, <1>t DEF LifeInv, Clean
  <2>4. \A j \in 1 .. Len(written) : Nameable(written[j].memory)'
    <3>1. DOMAIN written = 1 .. Len(written)
      BY DEF TypeOK
    <3> QED
      BY <3>1, <2>1, <2>2, <1>t DEF Nameable
  <2>5. status' \in [Memory -> Statuses] /\ unwritten' \in [Memory -> SUBSET Bytes]
    BY <2>1, <1>t DEF Statuses
  <2> QED
    BY <2>1, <2>2, <2>3, <2>4, <2>5, <1>t, <1>f, AllocatorFrame
<1>4. ASSUME NEW old \in Memory, Sweep(old) PROVE Inv'
  <2>1. /\ phase \in {"idle", "body"} /\ status[old] = "dropped"
        /\ status' = [status EXCEPT ![old] = "gone"]
        /\ Reclaim(old, Clean)
        /\ UNCHANGED <<minted, scope, unwritten, stranded, written, failure>>
    BY <1>4, SMTT(30) DEF Sweep, history, scope
  <2>2. /\ claims' \in [Memory -> [Bytes -> Ids \cup {NoFailure}]]
        /\ tagged' \in [Ids -> Nat] /\ node' \in [Ids -> Nodes] /\ nodes' \subseteq nodes
        /\ GraphInv'
        /\ claims'[old] = Clean
        /\ \A n \in Memory : n # old => claims'[n] = claims[n]
    BY <2>1, ClearFacts, Zenon
  <2>3. LifeInv'
    BY <2>1, <2>2, <1>t DEF LifeInv, Clean
  <2>4. \A j \in 1 .. Len(written) : Nameable(written[j].memory)'
    BY <2>1, <1>t DEF Nameable
  <2>5. status' \in [Memory -> Statuses]
    BY <2>1, <1>t, SMTT(30) DEF Statuses
  <2> QED
    BY <2>1, <2>2, <2>3, <2>4, <2>5, <1>t, AllocatorFrame
<1>5. ASSUME NEW old \in Memory, NEW m \in Memory, Rebind(old, m) PROVE Inv'
  <2>1. /\ phase \in {"idle", "body"} /\ status[old] = "dropped" /\ status[m] = "new"
        /\ status' = [status EXCEPT ![old] = "gone", ![m] = "live"]
        /\ Reclaim(old, Clean)
        /\ UNCHANGED <<minted, scope, unwritten, stranded, written, failure>>
    BY <1>5 DEF Rebind, history, scope
  <2>2. /\ claims' \in [Memory -> [Bytes -> Ids \cup {NoFailure}]]
        /\ tagged' \in [Ids -> Nat] /\ node' \in [Ids -> Nodes] /\ nodes' \subseteq nodes
        /\ GraphInv'
        /\ claims'[old] = Clean
        /\ \A n \in Memory : n # old => claims'[n] = claims[n]
    BY <2>1, ClearFacts
  <2>3. LifeInv'
    BY <2>1, <2>2, <1>t, Zenon DEF LifeInv, Clean
  <2>4. \A j \in 1 .. Len(written) : Nameable(written[j].memory)'
    BY <2>1, <1>t DEF Nameable
  <2>5. status' \in [Memory -> Statuses]
    BY <2>1, <1>t DEF Statuses
  <2> QED
    BY <2>1, <2>2, <2>3, <2>4, <2>5, <1>t, AllocatorFrame, Zenon
<1> QED
  BY <1>1, <1>2, <1>3, <1>4, <1>5 DEF AllocatorNext

-----------------------------------------------------------------------------
\* A scope opens: nothing of its write set is covered yet.
LEMMA OpenFrame ==
  ASSUME Inv, NEW w \in WriteSets, NEW stage, NEW f \in Ids \cup {NoFailure},
         phase = "idle", NameableSet(w), OpenOn(w, stage, f),
         UNCHANGED <<status, claims, tagged, unwritten, stranded>>,
         nodes' \subseteq Ids, node' \in [Ids -> Nodes], minted' \in 0 .. MaxMint,
         nodes \subseteq nodes', \A g \in nodes' : g \in nodes \/ g = f,
         \A g \in nodes' : g <= minted',
         \/ stage \in {"enter", "propagate", "taint"} /\ f \in nodes'
         \/ stage = "body" /\ w = <<>>,
         stage = "propagate" => tagged[f] > 0
  PROVE  Inv'
<1> USE DEF Inv
<1>1. /\ phase' = stage /\ written' = w /\ next' = 1 /\ failure' = f
      /\ written = <<>> /\ failure = NoFailure
  BY DEF OpenOn, ScopeInv
<1>2. w \in Seq(Bindings) /\ Len(w) <= MaxBindings /\ DOMAIN w = 1 .. Len(w) /\ Len(w) \in Nat
  BY WriteSetIsSeq
<1>3. TypeOK'
  <2>1. phase' \in Phases
    BY <1>1 DEF Phases
  <2>2. next' \in 1 .. MaxBindings + 1
    BY <1>1, BoundsAssumption
  <2> QED
    BY <1>1, <1>2, <2>1, <2>2 DEF TypeOK
<1>4. GraphInv'
  <2>1. TagsCountCarriers' /\ CarriedHasNode'
    BY DEF GraphInv, TagsCountCarriers, CarriedHasNode, Carried
  <2>2. NodesAreReachable'
    <3> SUFFICES ASSUME NEW g \in nodes', g # f
                 PROVE  tagged[g] > 0 \/ g \in stranded
      BY <1>1 DEF NodesAreReachable
    <3>1. g \in nodes /\ g # NoFailure
      BY DEF TypeOK, Ids, NoFailure
    <3> QED
      BY <3>1, <1>1 DEF GraphInv, NodesAreReachable
  <2> QED
    BY <2>1, <2>2 DEF GraphInv, MintedFirst
<1>5. ScopeInv'
  <2>1. \A j \in 1 .. Len(w) : Nameable(w[j].memory)'
    BY <1>2 DEF NameableSet, Nameable
  <2> QED
    BY <1>1, <1>2, <2>1 DEF ScopeInv
<1>6. LifeInv'
  BY DEF LifeInv, Clean
<1>7. ClaimsInv'
  <2>1. \A m, i : ~Covered(next, m, i)'
    BY <1>1 DEF Covered
  <2>2. stage = "body" => \A m, i : ~AllCovered(m, i)'
    BY <1>1 DEF AllCovered, Covered
  <2> QED
    BY <1>1, <2>1, <2>2 DEF ClaimsInv
<1> QED
  BY <1>3, <1>4, <1>5, <1>6, <1>7

\* Minting a failure leaves every count as it was.
LEMMA InsertFacts ==
  ASSUME TypeOK, GraphInv, NEW new \in Nodes, Insert(new)
  PROVE  /\ tagged' = tagged /\ minted + 1 \in Ids
         /\ nodes' = nodes \cup {minted + 1} /\ nodes' \subseteq Ids
         /\ node' \in [Ids -> Nodes] /\ minted' \in 0 .. MaxMint
         /\ \A g \in nodes' : g <= minted'
<1>1. minted < MaxMint /\ minted' = minted + 1 /\ nodes' = nodes \cup {minted + 1}
      /\ tagged' = [tagged EXCEPT ![minted + 1] = 0]
      /\ node' = [node EXCEPT ![minted + 1] = new]
  BY DEF Insert
<1>2. minted + 1 \in Ids /\ [tagged EXCEPT ![minted + 1] = 0] = tagged
  BY <1>1, FreshUntagged
<1>3. minted \in Nat /\ nodes \subseteq Ids /\ node \in [Ids -> Nodes]
      /\ \A g \in nodes : g <= minted /\ g \in Nat
  BY BoundsAssumption DEF TypeOK, GraphInv, MintedFirst, Ids
<1>4. minted' \in 0 .. MaxMint
  BY <1>1, <1>3, BoundsAssumption
<1>5. \A g \in nodes' : g <= minted'
  BY <1>1, <1>3
<1> QED
  BY <1>1, <1>2, <1>3, <1>4, <1>5

\* ExecuteScope::over opens on a minted failure, or on none when it writes nothing.
LEMMA OverStep ==
  ASSUME Inv, NEW w \in WriteSets, Over(w)
  PROVE  Inv'
<1> USE DEF Inv
<1>1. phase = "idle" /\ NameableSet(w) /\ UNCHANGED <<status, claims>>
  BY DEF Over
<1>2. CASE w = <<>> /\ OpenOn(w, "body", NoFailure) /\ UNCHANGED <<graph, history>>
  <2>1. UNCHANGED <<nodes, tagged, node, minted, unwritten, stranded>>
    BY <1>2 DEF graph, history
  <2>2. nodes' \subseteq Ids /\ node' \in [Ids -> Nodes] /\ minted' \in 0 .. MaxMint
        /\ \A g \in nodes' : g <= minted'
    BY <2>1 DEF TypeOK, GraphInv, MintedFirst
  <2> QED
    BY <1>1, <1>2, <2>1, <2>2, OpenFrame
<1>3. CASE w # <<>> /\ Insert(NewNode("TornDown", w, "open"))
           /\ OpenOn(w, "enter", minted + 1) /\ UNCHANGED history
  <2>1. UNCHANGED <<unwritten, stranded>>
    BY <1>3 DEF history
  <2>2. NewNode("TornDown", w, "open") \in Nodes
    BY WriteSetIsSeq, NodeTypes
  <2>3. /\ tagged' = tagged /\ minted + 1 \in Ids
        /\ nodes' = nodes \cup {minted + 1} /\ nodes' \subseteq Ids
        /\ node' \in [Ids -> Nodes] /\ minted' \in 0 .. MaxMint
        /\ \A g \in nodes' : g <= minted'
    BY <1>3, <2>2, InsertFacts
  <2> QED
    BY <1>1, <1>3, <2>1, <2>3, OpenFrame
<1> QED
  BY <1>2, <1>3 DEF Over

\* FailureStore::taint opens on a failure minted for its error.
LEMMA TaintForStep ==
  ASSUME Inv, NEW w \in WriteSets, TaintFor(w)
  PROVE  Inv'
<1> USE DEF Inv
<1>1. /\ phase = "idle" /\ NameableSet(w) /\ UNCHANGED <<status, claims, unwritten, stranded>>
      /\ Insert(NewNode("real", w, "failed")) /\ OpenOn(w, "taint", minted + 1)
  BY DEF TaintFor, history
<1>2. NewNode("real", w, "failed") \in Nodes
  BY WriteSetIsSeq, NodeTypes
<1>3. /\ tagged' = tagged /\ minted + 1 \in Ids
      /\ nodes' = nodes \cup {minted + 1} /\ nodes' \subseteq Ids
      /\ node' \in [Ids -> Nodes] /\ minted' \in 0 .. MaxMint
      /\ \A g \in nodes' : g <= minted'
  BY <1>1, <1>2, InsertFacts
<1> QED
  BY <1>1, <1>3, OpenFrame

\* A skip record on a node leaves it a node.
LEMMA NodeUpdate ==
  ASSUME NEW n \in Nodes, NEW records \in SkipLists, NEW count \in Nat
  PROVE  [n EXCEPT !.skipped = records, !.total = count] \in Nodes
BY Zenon DEF Nodes

\* A skipped launch opens on the failure its read carries.
LEMMA SkipStep ==
  ASSUME Inv, NEW w \in WriteSets, NEW read \in Bindings, Skip(read, w)
  PROVE  Inv'
<1> USE DEF Inv
<1>1. /\ phase = "idle" /\ NameableSet(w)
      /\ UNCHANGED <<status, claims, nodes, tagged, minted, unwritten, stranded>>
  BY DEF Skip, history
<1>2. PICK f \in Claimants(read) :
        /\ RecordSkip(f, [needed |-> read.memory,
                          produced |-> {w[j].memory : j \in DOMAIN w}])
        /\ OpenOn(w, "propagate", f)
  BY Zenon DEF Skip
<1>3. read.memory \in Memory /\ f \in Carried(read.memory)
  BY RangesAssumption DEF Claimants, Carried, Bindings
<1>4. f \in nodes /\ f \in Ids /\ tagged[f] > 0
  BY <1>3, PruneKeepsCarried, Zenon DEF GraphInv, CarriedHasNode, TypeOK
<1>5. node' \in [Ids -> Nodes]
  <2> DEFINE record == [needed |-> read.memory, produced |-> {w[j].memory : j \in DOMAIN w}]
  <2>1. \A j \in DOMAIN w : w[j] \in Bindings
    BY WriteSetIsSeq
  <2>2. record \in Records
    BY <1>3, <2>1 DEF Records, Bindings
  <2>3. node[f] \in Nodes
    BY <1>4 DEF TypeOK
  <2>4. /\ node[f].skipped \in Seq(Records) /\ Len(node[f].skipped) <= MaxSkipped
        /\ node[f].total \in Nat
    BY <2>3 DEF Nodes, SkipLists
  <2>5. Newest(node[f].skipped, record) \in SkipLists
    <3> HIDE DEF record
    <3> DEFINE old == node[f].skipped
    <3>1. MaxSkipped \in Nat /\ MaxSkipped # 0 /\ Len(old) \in Nat
      BY BoundsAssumption, <2>4
    <3>2. CASE Len(old) = MaxSkipped
      <4>1. old # <<>>
        BY <3>1, <3>2
      <4>2. Tail(old) \in Seq(Records) /\ Len(Tail(old)) = Len(old) - 1
        BY <4>1, <2>4
      <4>3. Append(Tail(old), record) \in Seq(Records)
            /\ Len(Append(Tail(old), record)) = Len(old)
        BY <4>2, <2>2, <3>1
      <4> QED
        BY <4>3, <3>1, <3>2 DEF Newest, SkipLists
    <3>3. CASE Len(old) # MaxSkipped
      <4>1. Append(old, record) \in Seq(Records) /\ Len(Append(old, record)) = Len(old) + 1
        BY <2>2, <2>4
      <4> QED
        BY <4>1, <3>1, <3>3, <2>4 DEF Newest, SkipLists
    <3> QED
      BY <3>2, <3>3
  <2>6. node' = [node EXCEPT ![f] = [node[f] EXCEPT !.skipped = Newest(node[f].skipped, record),
                                                    !.total = node[f].total + 1]]
    BY <1>2, <1>4, <2>3, Zenon DEF RecordSkip, Nodes, TypeOK
  <2>7. [node[f] EXCEPT !.skipped = Newest(node[f].skipped, record),
                        !.total = node[f].total + 1] \in Nodes
    <3> HIDE DEF record
    <3>1. node[f].total + 1 \in Nat
      BY <2>4
    <3> QED
      BY <3>1, <2>3, <2>5, NodeUpdate, Zenon
  <2> QED
    BY <2>6, <2>7, <1>4 DEF TypeOK
<1>6. nodes' \subseteq Ids /\ minted' \in 0 .. MaxMint /\ \A g \in nodes' : g <= minted'
  BY <1>1 DEF TypeOK, GraphInv, MintedFirst
<1> QED
  BY <1>1, <1>2, <1>4, <1>5, <1>6, OpenFrame

\* A scope closes over bytes nothing wrote: what the write set covers is
\* claimed, and what is left of the graph is reachable.
LEMMA CloseUnwritten ==
  ASSUME Inv, Close, LeaveUnwritten, UNCHANGED <<status, claims, tagged, minted>>,
         \/ phase \in {"propagate", "taint"} /\ next > Len(written)
         \/ phase = "body",
         node' \in [Ids -> Nodes], stranded' \subseteq Ids,
         nodes' \subseteq nodes, nodes \ Untagged(failure) \subseteq nodes',
         stranded \subseteq stranded',
         phase # "propagate" => nodes' \cap Untagged(failure) \subseteq stranded'
  PROVE  Inv'
<1> USE DEF Inv
<1>1. phase' = "idle" /\ written' = <<>> /\ next' = 1 /\ failure' = NoFailure
  BY DEF Close
<1>2. /\ nodes \subseteq Ids /\ tagged \in [Ids -> Nat] /\ Len(written) \in Nat
      /\ next \in Nat /\ next <= Len(written) + 1
      /\ unwritten \in [Memory -> SUBSET Bytes]
  BY BoundsAssumption DEF TypeOK, ScopeInv
<1>3. unwritten' = [m \in Memory |->
        IF status[m] = "live" THEN unwritten[m] \cup {i \in Bytes : AllCovered(m, i)}
                              ELSE unwritten[m]]
  BY DEF LeaveUnwritten
<1>4. TypeOK'
  <2>1. unwritten' \in [Memory -> SUBSET Bytes]
    BY <1>2, <1>3
  <2>2. written' \in Seq(Bindings) /\ Len(written') <= MaxBindings
    BY <1>1, BoundsAssumption
  <2>3. next' \in 1 .. MaxBindings + 1 /\ phase' \in Phases
    BY <1>1, BoundsAssumption DEF Phases
  <2> QED
    BY <1>1, <1>2, <2>1, <2>2, <2>3 DEF TypeOK
<1>5. GraphInv'
  <2>1. TagsCountCarriers'
    BY DEF GraphInv, TagsCountCarriers, Carried
  <2>2. CarriedHasNode'
    <3> SUFFICES ASSUME NEW m \in Memory, NEW f \in Carried(m) PROVE f \in nodes'
      BY DEF CarriedHasNode, Carried
    <3>1. f \in nodes /\ f \notin Untagged(failure)
      BY PruneKeepsCarried DEF GraphInv, CarriedHasNode
    <3> QED
      BY <3>1
  <2>3. NodesAreReachable'
    <3> SUFFICES ASSUME NEW f \in nodes', ~(tagged[f] > 0) PROVE f \in stranded'
      BY <1>1 DEF NodesAreReachable
    <3>1. f \in nodes /\ tagged[f] = 0
      BY <1>2
    <3>2. CASE f = failure
      <4>1. f \in Untagged(failure)
        BY <3>1, <3>2 DEF Untagged
      <4>2. phase # "propagate"
        BY <3>1, <3>2 DEF ScopeInv
      <4> QED
        BY <4>1, <4>2
    <3>3. CASE f # failure
      BY <3>1, <3>3 DEF GraphInv, NodesAreReachable
    <3> QED
      BY <3>2, <3>3
  <2>4. MintedFirst'
    BY DEF GraphInv, MintedFirst
  <2> QED
    BY <2>1, <2>2, <2>3, <2>4 DEF GraphInv
<1>6. ScopeInv'
  BY <1>1 DEF ScopeInv
<1>7. LifeInv'
  BY <1>3 DEF LifeInv, Clean
<1>8. ClaimsInv'
  <2> SUFFICES ASSUME NEW m \in Memory, NEW i \in Bytes, status[m] = "live"
               PROVE  claims[m][i] # NoFailure <=> (i \in unwritten[m] \/ AllCovered(m, i))
    BY <1>1, <1>3 DEF ClaimsInv
  <2>1. CASE phase = "body"
    BY <2>1 DEF ClaimsInv
  <2>2. CASE phase \in {"propagate", "taint"} /\ next > Len(written)
    <3>1. next = Len(written) + 1
      BY <2>2, <1>2
    <3>2. Covered(next, m, i) <=> AllCovered(m, i)
      BY <3>1 DEF AllCovered
    <3> QED
      BY <3>2, <2>2 DEF ClaimsInv
  <2> QED
    BY <2>1, <2>2
<1> QED
  BY <1>4, <1>5, <1>6, <1>7, <1>8

\* A scope closes over bytes its body wrote.
LEMMA ReleasedStep ==
  ASSUME Inv, Released
  PROVE  Inv'
<1> USE DEF Inv
<1>1. /\ phase = "release" /\ next > Len(written)
      /\ phase' = "idle" /\ written' = <<>> /\ next' = 1 /\ failure' = NoFailure
      /\ nodes' = nodes \ Untagged(failure) /\ node' = Forget(Untagged(failure))
      /\ unwritten' = [m \in Memory |->
           IF status[m] = "live" THEN unwritten[m] \ {i \in Bytes : AllCovered(m, i)}
                                 ELSE unwritten[m]]
      /\ UNCHANGED <<status, claims, tagged, minted, stranded>>
  BY DEF Released, Close, Prune
<1>2. /\ nodes \subseteq Ids /\ tagged \in [Ids -> Nat] /\ Len(written) \in Nat
      /\ next \in Nat /\ next <= Len(written) + 1
      /\ unwritten \in [Memory -> SUBSET Bytes]
  BY BoundsAssumption DEF TypeOK, ScopeInv
<1>3. TypeOK'
  <2>1. unwritten' \in [Memory -> SUBSET Bytes]
    BY <1>1, <1>2
  <2>2. written' \in Seq(Bindings) /\ Len(written') <= MaxBindings
    BY <1>1, BoundsAssumption
  <2>3. next' \in 1 .. MaxBindings + 1 /\ phase' \in Phases
    BY <1>1, BoundsAssumption DEF Phases
  <2>4. node' \in [Ids -> Nodes]
    BY <1>1, NodeTypes DEF TypeOK
  <2> QED
    BY <1>1, <1>2, <2>1, <2>2, <2>3, <2>4 DEF TypeOK
<1>4. GraphInv'
  <2>1. TagsCountCarriers'
    BY <1>1 DEF GraphInv, TagsCountCarriers, Carried
  <2>2. CarriedHasNode'
    <3> SUFFICES ASSUME NEW m \in Memory, NEW f \in Carried(m) PROVE f \in nodes'
      BY <1>1 DEF CarriedHasNode, Carried
    <3>1. f \in nodes /\ f \notin Untagged(failure)
      BY PruneKeepsCarried DEF GraphInv, CarriedHasNode
    <3> QED
      BY <3>1, <1>1
  <2>3. NodesAreReachable'
    <3> SUFFICES ASSUME NEW f \in nodes', ~(tagged[f] > 0) PROVE f \in stranded
      BY <1>1 DEF NodesAreReachable
    <3>1. f \in nodes /\ tagged[f] = 0 /\ f \notin Untagged(failure)
      BY <1>1, <1>2
    <3>2. f # failure
      BY <3>1 DEF Untagged
    <3> QED
      BY <3>1, <3>2 DEF GraphInv, NodesAreReachable
  <2>4. MintedFirst'
    BY <1>1 DEF GraphInv, MintedFirst
  <2> QED
    BY <2>1, <2>2, <2>3, <2>4 DEF GraphInv
<1>5. ScopeInv'
  BY <1>1 DEF ScopeInv
<1>6. LifeInv'
  BY <1>1 DEF LifeInv, Clean
<1>7. ClaimsInv'
  <2> SUFFICES ASSUME NEW m \in Memory, NEW i \in Bytes, status[m] = "live"
               PROVE  claims[m][i] # NoFailure <=> (i \in unwritten[m] /\ ~AllCovered(m, i))
    BY <1>1 DEF ClaimsInv
  <2>1. next = Len(written) + 1
    BY <1>1, <1>2
  <2>2. Covered(next, m, i) <=> AllCovered(m, i)
    BY <2>1 DEF AllCovered
  <2> QED
    BY <2>2, <1>1 DEF ClaimsInv
<1> QED
  BY <1>3, <1>4, <1>5, <1>6, <1>7

\* The other steps of a scope: the body starts, is about to be settled, or
\* ends without having written.
LEMMA ScopeStep ==
  ASSUME Inv, ScopeNext
  PROVE  Inv'
<1> USE DEF Inv
<1>1. CASE TaintBinding
  BY <1>1, TaintBindingStep
<1>2. CASE ReleaseBinding
  BY <1>2, ReleaseBindingStep
<1>3. CASE Released
  BY <1>3, ReleasedStep
<1>4. CASE Entered \/ BodySucceeds
  <2>1. /\ UNCHANGED <<status, claims, nodes, tagged, node, minted, written, failure,
                       unwritten, stranded>>
        /\ \/ phase = "enter" /\ next > Len(written) /\ phase' = "body" /\ next' = next
           \/ phase = "body" /\ phase' = "release" /\ next' = 1
    BY <1>4 DEF Entered, BodySucceeds, graph, history
  <2>2. Len(written) \in Nat /\ next \in Nat /\ next <= Len(written) + 1
    BY BoundsAssumption DEF TypeOK, ScopeInv
  <2>3. TypeOK'
    <3>1. next' \in 1 .. MaxBindings + 1 /\ phase' \in Phases
      BY <2>1, BoundsAssumption DEF TypeOK, Phases
    <3> QED
      BY <2>1, <3>1 DEF TypeOK
  <2>4. GraphInv'
    BY <2>1 DEF GraphInv, TagsCountCarriers, CarriedHasNode, Carried, MintedFirst,
                NodesAreReachable
  <2>5. ScopeInv'
    <3>1. \A j \in 1 .. Len(written) : Nameable(written[j].memory)'
      BY <2>1 DEF ScopeInv, Nameable
    <3>2. next' <= Len(written') + 1
      BY <2>1, <2>2
    <3>3. phase' \in {"body", "release"}
      BY <2>1
    <3> QED
      BY <2>1, <3>1, <3>2, <3>3 DEF ScopeInv
  <2>6. LifeInv'
    BY <2>1 DEF LifeInv, Clean
  <2>7. ClaimsInv'
    <3>1. \A m, i : AllCovered(m, i)' <=> AllCovered(m, i)
      BY <2>1 DEF AllCovered, Covered
    <3>2. CASE phase = "enter" /\ next > Len(written) /\ phase' = "body" /\ next' = next
      <4>1. next = Len(written) + 1
        BY <3>2, <2>2
      <4>2. \A m, i : Covered(next, m, i) <=> AllCovered(m, i)
        BY <4>1 DEF AllCovered
      <4> QED
        BY <2>1, <3>1, <3>2, <4>2 DEF ClaimsInv
    <3>3. CASE phase = "body" /\ phase' = "release" /\ next' = 1
      <4>1. \A m, i : ~Covered(next, m, i)'
        BY <3>3 DEF Covered
      <4> QED
        BY <2>1, <3>1, <3>3, <4>1 DEF ClaimsInv
    <3> QED
      BY <2>1, <3>2, <3>3
  <2> QED
    BY <2>3, <2>4, <2>5, <2>6, <2>7
<1>5. CASE Propagated
  <2>1. /\ phase = "propagate" /\ next > Len(written) /\ Close /\ LeaveUnwritten
        /\ UNCHANGED <<status, claims, nodes, tagged, node, minted, stranded>>
    BY <1>5 DEF Propagated, graph
  <2>2. node' \in [Ids -> Nodes] /\ stranded' \subseteq Ids
    BY <2>1 DEF TypeOK
  <2> QED
    BY <2>1, <2>2, CloseUnwritten
<1>6. CASE Tainted
  <2>1. /\ phase = "taint" /\ next > Len(written) /\ Close /\ LeaveUnwritten
        /\ nodes' = nodes \ Untagged(failure) /\ node' = Forget(Untagged(failure))
        /\ UNCHANGED <<status, claims, tagged, minted, stranded>>
    BY <1>6 DEF Tainted, Prune
  <2>2. node' \in [Ids -> Nodes] /\ stranded' \subseteq Ids
    BY <2>1, NodeTypes DEF TypeOK
  <2> QED
    BY <2>1, <2>2, CloseUnwritten
<1>7. CASE BodyFails
  <2>1. /\ phase = "body" /\ Close /\ LeaveUnwritten
        /\ nodes' = nodes \ Untagged(failure) /\ node' = Settled(failure, "real", "failed")
        /\ UNCHANGED <<status, claims, tagged, minted, stranded>>
    BY <1>7, SMTT(30) DEF BodyFails
  <2>2. node' \in [Ids -> Nodes]
    <3>1. NoNode \in Nodes /\ \A g \in Ids : node[g] \in Nodes
      BY NodeTypes DEF TypeOK
    <3>2. \A n \in Nodes : [n EXCEPT !.error = "real", !.ended = "failed"] \in Nodes
      BY Zenon DEF Nodes
    <3> QED
      BY <2>1, <3>1, <3>2, Zenon DEF Settled
  <2>3. stranded' \subseteq Ids
    BY <2>1 DEF TypeOK
  <2> QED
    BY <2>1, <2>2, <2>3, CloseUnwritten
<1>8. CASE BodyPanics
  <2>1. /\ phase = "body" /\ Close /\ LeaveUnwritten
        /\ node' = [f \in Ids |-> IF f = failure /\ f \in nodes
                                  THEN [node[f] EXCEPT !.ended = "panicked"] ELSE node[f]]
        /\ stranded' = stranded \cup Untagged(failure)
        /\ UNCHANGED <<status, claims, nodes, tagged, minted>>
    BY <1>8 DEF BodyPanics
  <2>2. node' \in [Ids -> Nodes]
    <3>1. \A g \in Ids : node[g] \in Nodes
      BY DEF TypeOK
    <3>2. \A n \in Nodes : [n EXCEPT !.ended = "panicked"] \in Nodes
      BY DEF Nodes
    <3> QED
      BY <2>1, <3>1, <3>2
  <2>3. stranded' \subseteq Ids
    BY <2>1 DEF TypeOK, Untagged
  <2> QED
    BY <2>1, <2>2, <2>3, CloseUnwritten
<1> QED
  BY <1>1, <1>2, <1>3, <1>4, <1>5, <1>6, <1>7, <1>8 DEF ScopeNext

\* A device that has not worked yet.
LEMMA InitInv ==
  Init => Inv
<1> SUFFICES ASSUME Init PROVE Inv
  OBVIOUS
<1> USE DEF Init
<1>1. Clean \in [Bytes -> Ids \cup {NoFailure}] /\ \A i \in Bytes : Clean[i] = NoFailure
  BY DEF Clean
<1>2. TypeOK
  <2>1. node \in [Ids -> Nodes]
    BY NodeTypes
  <2>2. written \in Seq(Bindings) /\ Len(written) <= MaxBindings
        /\ next \in 1 .. MaxBindings + 1 /\ minted \in 0 .. MaxMint
    BY BoundsAssumption
  <2>3. status \in [Memory -> Statuses] /\ phase \in Phases
    BY DEF Statuses, Phases
  <2> QED
    BY <1>1, <2>1, <2>2, <2>3 DEF TypeOK
<1>3. \A m \in Memory : Carried(m) = {}
  BY <1>1 DEF Carried
<1>4. GraphInv
  <2>1. \A f \in Ids : {m \in Memory : f \in Carried(m)} = {}
    BY <1>3
  <2>2. TagsCountCarriers
    BY <2>1, FS_EmptySet, Zenon DEF TagsCountCarriers
  <2> QED
    BY <1>3, <2>2 DEF GraphInv, CarriedHasNode, MintedFirst, NodesAreReachable
<1>5. ScopeInv
  BY DEF ScopeInv
<1>6. LifeInv
  BY DEF LifeInv
<1>7. ClaimsInv
  BY <1>1 DEF ClaimsInv
<1> QED
  BY <1>2, <1>4, <1>5, <1>6, <1>7 DEF Inv

\* Every step of the specification keeps the invariant.
LEMMA NextInv ==
  Inv /\ [Next]_vars => Inv'
<1> SUFFICES ASSUME Inv, [Next]_vars PROVE Inv'
  OBVIOUS
<1>1. CASE AllocatorNext
  BY <1>1, AllocatorStep
<1>2. CASE OpenNext
  <2>1. PICK w \in WriteSets :
          Over(w) \/ TaintFor(w) \/ \E read \in Bindings : Launch(read, w)
    BY <1>2 DEF OpenNext
  <2>2. CASE Over(w)
    BY <2>2, OverStep
  <2>3. CASE TaintFor(w)
    BY <2>3, TaintForStep
  <2>4. CASE \E read \in Bindings : Launch(read, w)
    <3>1. PICK read \in Bindings : Launch(read, w)
      BY <2>4
    <3> QED
      BY <3>1, OverStep, SkipStep DEF Launch
  <2> QED
    BY <2>1, <2>2, <2>3, <2>4
<1>3. CASE ScopeNext
  BY <1>3, ScopeStep
<1>4. CASE UNCHANGED vars
  <2>1. UNCHANGED <<status, claims, nodes, tagged, node, minted, phase, written, next, failure,
                    unwritten, stranded>>
    BY <1>4 DEF vars, graph, scope, history
  <2>2. TypeOK'
    BY <2>1 DEF Inv, TypeOK
  <2>3. GraphInv'
    BY <2>1 DEF Inv, GraphInv, TagsCountCarriers, CarriedHasNode, Carried, MintedFirst,
                NodesAreReachable
  <2>4. ScopeInv' /\ LifeInv'
    BY <2>1 DEF Inv, ScopeInv, Nameable, LifeInv, Clean
  <2>5. ClaimsInv'
    BY <2>1 DEF Inv, ClaimsInv, AllCovered, Covered
  <2> QED
    BY <2>2, <2>3, <2>4, <2>5 DEF Inv
<1> QED
  BY <1>1, <1>2, <1>3, <1>4 DEF Next

\* The invariant gives the properties the runs check.
LEMMA InvSafe ==
  Inv => /\ TypeOK /\ TagsCountCarriers /\ CarriedHasNode /\ NodesAreReachable
         /\ ReadsMatchLastWriter /\ BodyRunsClaimed
BY DEF Inv, GraphInv, ClaimsInv, ReadsMatchLastWriter, BodyRunsClaimed

\* The failure store is well typed, whatever the program does. The reference
\* count of every failure is the number of allocations that carry it, and every
\* carried failure has its node: no lookup of a carried id panics, whatever is
\* tainted, released, rebound or swept. The graph keeps nothing unreachable,
\* but for what a scope that claimed nothing and panicked left behind.
THEOREM FailuresKept == Spec => []GraphKept
<1>1. Inv => GraphKept
  BY InvSafe DEF GraphKept
<1> QED
  BY InitInv, NextInv, <1>1, PTL DEF Spec

\* A read returns bytes if and only if their last writer succeeded.
THEOREM ReadsExact == Spec => []ReadsMatchLastWriter
<1>1. Inv => ReadsMatchLastWriter
  BY InvSafe
<1> QED
  BY InitInv, NextInv, <1>1, PTL DEF Spec

\* No body runs with a byte of its write set unclaimed.
THEOREM BodiesClaimed == Spec => []BodyRunsClaimed
<1>1. Inv => BodyRunsClaimed
  BY InvSafe
<1> QED
  BY InitInv, NextInv, <1>1, PTL DEF Spec

-----------------------------------------------------------------------------
(* The errors a read is told *)

Writing == {"enter", "body", "release"}

\* The node of a scope that may still write is provisional.
ProvisionalInv == phase \in Writing /\ failure \in nodes => node[failure].ended = "open"

RealInv == ErrorsAreReal /\ ProvisionalInv

\* Most steps drop nodes at most, and keep the error of the others.
LEMMA ErrorsKept ==
  ASSUME RealInv, nodes' \subseteq nodes,
         \A f \in nodes' : node'[f].error = node[f].error /\ node'[f].ended = node[f].ended,
         phase' \in Writing => phase \in Writing /\ failure' = failure
  PROVE  RealInv'
<1>1. ErrorsAreReal'
  BY DEF RealInv, ErrorsAreReal
<1>2. ProvisionalInv'
  BY DEF RealInv, ProvisionalInv
<1> QED
  BY <1>1, <1>2 DEF RealInv

LEMMA ForgetKeeps ==
  ASSUME Inv, NEW gone, nodes' = nodes \ gone, node' = Forget(gone)
  PROVE  nodes' \subseteq nodes /\ \A f \in nodes' : node'[f] = node[f]
BY DEF Inv, TypeOK, Forget

LEMMA SetBindingKeeps ==
  ASSUME Inv, NEW b, NEW by, SetBinding(b, by)
  PROVE  nodes' \subseteq nodes /\ \A f \in nodes' : node'[f] = node[f]
BY ForgetKeeps DEF SetBinding, Reclaim

LEMMA AllocatorErrors ==
  ASSUME Inv, RealInv, AllocatorNext
  PROVE  RealInv'
<1>1. UNCHANGED <<phase, failure>>
  BY DEF AllocatorNext, Reserve, FailReserve, DropHandle, Sweep, Rebind, scope
<1>2. nodes' \subseteq nodes /\ \A f \in nodes' : node'[f] = node[f]
  <2>1. ASSUME NEW m \in Memory, Reserve(m) \/ FailReserve(m) \/ DropHandle(m)
        PROVE  nodes' = nodes /\ node' = node
    BY <2>1 DEF Reserve, FailReserve, DropHandle, graph
  <2>2. ASSUME NEW old, Reclaim(old, Clean)
        PROVE  nodes' \subseteq nodes /\ \A f \in nodes' : node'[f] = node[f]
    BY <2>2, ForgetKeeps DEF Reclaim
  <2> QED
    BY <2>1, <2>2 DEF AllocatorNext, Sweep, Rebind
<1> QED
  BY <1>1, <1>2, ErrorsKept

LEMMA OpenErrors ==
  ASSUME Inv, RealInv, OpenNext
  PROVE  RealInv'
<1>1. ASSUME NEW w, NEW e, NEW end, NEW stage, Insert(NewNode(e, w, end)), OpenOn(w, stage, minted + 1),
             <<e, end, stage>> \in {<<"TornDown", "open", "enter">>, <<"real", "failed", "taint">>}
      PROVE  RealInv'
  <2>1. minted + 1 \in Ids /\ node \in [Ids -> Nodes] /\ minted + 1 \notin nodes
    <3>1. minted < MaxMint
      BY <1>1 DEF Insert
    <3>2. node \in [Ids -> Nodes]
      BY DEF Inv, TypeOK
    <3> QED
      BY <3>1, <3>2, FreshUntagged DEF Inv
  <2>2. nodes' = nodes \cup {minted + 1} /\ node' = [node EXCEPT ![minted + 1] = NewNode(e, w, end)]
    BY <1>1 DEF Insert
  <2>3. NewNode(e, w, end).error = e /\ NewNode(e, w, end).ended = end
    BY DEF NewNode
  <2>4. node'[minted + 1].error = e /\ node'[minted + 1].ended = end
    BY <2>1, <2>2, <2>3
  <2>5. \A f \in nodes : node'[f] = node[f]
    BY <2>1, <2>2 DEF Inv, TypeOK
  <2>6. ErrorsAreReal'
    BY <1>1, <2>2, <2>4, <2>5 DEF RealInv, ErrorsAreReal
  <2>7. phase' = stage /\ failure' = minted + 1
    BY <1>1 DEF OpenOn
  <2>8. ProvisionalInv'
    BY <1>1, <2>4, <2>7 DEF ProvisionalInv, Writing
  <2> QED
    BY <2>6, <2>8 DEF RealInv
<1>2. ASSUME NEW w \in WriteSets, Over(w) PROVE RealInv'
  <2>1. CASE w = <<>> /\ OpenOn(w, "body", NoFailure) /\ UNCHANGED <<graph, history>>
    <3>1. NoFailure \notin nodes
      BY DEF Inv, TypeOK, NoFailure, Ids
    <3>2. UNCHANGED <<nodes, node>> /\ failure' = NoFailure
      BY <2>1 DEF graph, OpenOn
    <3>3. ErrorsAreReal' /\ ProvisionalInv'
      BY <3>1, <3>2 DEF RealInv, ErrorsAreReal, ProvisionalInv
    <3> QED
      BY <3>3 DEF RealInv
  <2>2. CASE Insert(NewNode("TornDown", w, "open")) /\ OpenOn(w, "enter", minted + 1)
    BY <1>1, <2>2
  <2> QED
    BY <1>2, <2>1, <2>2 DEF Over
<1>3. ASSUME NEW w \in WriteSets, TaintFor(w) PROVE RealInv'
  BY <1>1, <1>3 DEF TaintFor
<1>4. ASSUME NEW w \in WriteSets, NEW read \in Bindings, Skip(read, w) PROVE RealInv'
  <2>1. PICK f \in Claimants(read) :
          /\ RecordSkip(f, [needed |-> read.memory, produced |-> {w[j].memory : j \in DOMAIN w}])
          /\ OpenOn(w, "propagate", f)
    BY <1>4 DEF Skip
  <2>2. nodes' = nodes /\ phase' \notin Writing
    BY <1>4, <2>1 DEF Skip, OpenOn, Writing
  <2>3. node \in [Ids -> Nodes] /\ nodes \subseteq Ids
    BY DEF Inv, TypeOK
  <2>4. ASSUME NEW g \in nodes PROVE node'[g].error = node[g].error /\ node'[g].ended = node[g].ended
    <3>1. node[g] \in Nodes
      BY <2>3
    <3>2. PICK skipped, total : node'[g] = node[g] \/ node'[g] = [node[g] EXCEPT !.skipped = skipped, !.total = total]
      BY <2>1, <2>3 DEF RecordSkip
    <3> QED
      BY <3>1, <3>2 DEF Nodes
  <2> QED
    BY <2>2, <2>4, ErrorsKept
<1> QED
  BY <1>2, <1>3, <1>4 DEF OpenNext, Launch

LEMMA ScopeErrors ==
  ASSUME Inv, RealInv, ScopeNext
  PROVE  RealInv'
<1>1. node \in [Ids -> Nodes] /\ nodes \subseteq Ids
  BY DEF Inv, TypeOK
<1>2. CASE TaintBinding \/ ReleaseBinding
  <2>1. UNCHANGED <<phase, failure>> /\ (SetBinding(written[next], failure) \/ SetBinding(written[next], NoFailure))
    BY <1>2 DEF TaintBinding, ReleaseBinding
  <2> QED
    BY <2>1, SetBindingKeeps, ErrorsKept
<1>3. CASE Entered \/ BodySucceeds \/ Propagated
  <2>1. UNCHANGED <<nodes, node>> /\ (phase' \in Writing => phase \in Writing /\ failure' = failure)
    BY <1>3 DEF Entered, BodySucceeds, Propagated, Close, graph, Writing
  <2> QED
    BY <2>1, ErrorsKept
<1>4. CASE Tainted \/ Released
  <2>1. phase' \notin Writing /\ Prune(failure)
    BY <1>4 DEF Tainted, Released, Close, Writing
  <2> QED
    BY <2>1, ForgetKeeps, ErrorsKept DEF Prune
<1>5. CASE BodyFails \/ BodyPanics
  <2>1. phase = "body" /\ phase' \notin Writing /\ nodes' \subseteq nodes
    BY <1>5 DEF BodyFails, BodyPanics, Close, Writing
  <2>2. ASSUME NEW f \in nodes'
        PROVE  node'[f].error = IF node'[f].ended = "failed" THEN "real" ELSE "TornDown"
    <3>1. f \in Ids /\ node[f] \in Nodes /\ f \in nodes
          /\ node[f].error = IF node[f].ended = "failed" THEN "real" ELSE "TornDown"
      BY <1>1, <2>1, <2>2 DEF RealInv, ErrorsAreReal
    <3>2. CASE f # failure
      <4>1. node'[f] = node[f]
        BY <1>5, <2>2, <3>1, <3>2 DEF BodyFails, BodyPanics, Settled, Untagged
      <4> QED
        BY <3>1, <4>1
    <3>3. CASE f = failure /\ BodyFails
      <4>1. node'[f] = [node[f] EXCEPT !.error = "real", !.ended = "failed"]
        BY <2>2, <3>1, <3>3 DEF BodyFails, Settled
      <4> QED
        BY <3>1, <4>1 DEF Nodes
    <3>4. CASE f = failure /\ BodyPanics
      <4>1. node'[f] = [node[f] EXCEPT !.ended = "panicked"]
        BY <3>1, <3>4 DEF BodyPanics
      <4>2. node[f].ended = "open"
        BY <2>1, <3>1, <3>4 DEF RealInv, ProvisionalInv, Writing
      <4> QED
        BY <3>1, <4>1, <4>2 DEF Nodes
    <3> QED
      BY <1>5, <3>2, <3>3, <3>4
  <2> QED
    BY <2>1, <2>2 DEF RealInv, ErrorsAreReal, ProvisionalInv
<1> QED
  BY <1>2, <1>3, <1>4, <1>5 DEF ScopeNext

\* What a read is told is the error that stopped the work: exit_write puts it in
\* place of the provisional one before the scope ends, and TornDown stands only
\* for a scope that is open or was unwound by a panic, whatever was skipped,
\* swept or rebound meanwhile.
THEOREM ErrorsReal == Spec => []ErrorsAreReal
<1>1. Init => RealInv
  BY DEF Init, RealInv, ErrorsAreReal, ProvisionalInv
<1>2. Inv /\ RealInv /\ [Next]_vars => RealInv'
  <2> SUFFICES ASSUME Inv, RealInv, [Next]_vars PROVE RealInv'
    OBVIOUS
  <2>1. CASE Next
    BY <2>1, AllocatorErrors, OpenErrors, ScopeErrors DEF Next
  <2>2. CASE UNCHANGED vars
    <3>1. UNCHANGED <<nodes, node, phase, failure>>
      BY <2>2 DEF vars, graph, scope
    <3> QED
      BY <3>1, ErrorsKept
  <2> QED
    BY <2>1, <2>2
<1>3. RealInv => ErrorsAreReal
  BY DEF RealInv
<1> QED
  BY InitInv, NextInv, <1>1, <1>2, <1>3, PTL DEF Spec

-----------------------------------------------------------------------------
(* The report of a failed read *)

Claiming == {"enter", "propagate", "taint"}

\* Nothing was dropped from the records of a node.
Whole(n) == n.total = Len(n.skipped)

\* m is of the work that failed, or one of the first k skipped launches was to
\* produce it.
Known(n, k, m) == m \in n.roots \/ \E j \in 1 .. k : m \in n.skipped[j].produced

\* What a skipped launch needed was known before it.
Chained(n) ==
  /\ n.total >= Len(n.skipped)
  /\ Whole(n) => \A k \in 1 .. Len(n.skipped) : Known(n, k - 1, n.skipped[k].needed)

\* What carries a failure, or is about to, is known to its node.
CarriersKnown ==
  \A f \in nodes : Whole(node[f]) =>
    /\ \A m \in Memory : f \in Carried(m) => Known(node[f], Len(node[f].skipped), m)
    /\ phase \in Claiming /\ failure = f =>
         \A j \in 1 .. Len(written) : Known(node[f], Len(node[f].skipped), written[j].memory)

TraceInv == (\A f \in nodes : Chained(node[f])) /\ CarriersKnown

\* Steps that drop nodes at most, and only claim for the failure of the scope.
LEMMA TraceKept ==
  ASSUME Inv, TraceInv, nodes' \subseteq nodes,
         \A f \in nodes' : /\ node'[f].skipped = node[f].skipped
                            /\ node'[f].total = node[f].total /\ node'[f].roots = node[f].roots,
         \A m \in Memory : \A f \in Carried(m)' :
           f \in Carried(m) \/ (phase \in Claiming /\ f = failure
                                 /\ \E j \in 1 .. Len(written) : written[j].memory = m),
         phase' \in Claiming => phase \in Claiming /\ UNCHANGED <<failure, written>>
  PROVE  TraceInv'
<1>1. ASSUME NEW f \in nodes'
      PROVE  /\ Chained(node'[f]) /\ (Whole(node'[f]) <=> Whole(node[f]))
             /\ \A k, m : Known(node'[f], k, m) <=> Known(node[f], k, m)
  <2>1. Chained(node[f])
    BY <1>1 DEF TraceInv
  <2>2. Whole(node'[f]) <=> Whole(node[f])
    BY <1>1 DEF Whole
  <2>3. \A k, m : Known(node'[f], k, m) <=> Known(node[f], k, m)
    BY <1>1 DEF Known
  <2> QED
    BY <1>1, <2>1, <2>2, <2>3 DEF Chained
<1>2. ASSUME NEW f \in nodes', Whole(node'[f]), NEW m \in Memory, f \in Carried(m)'
      PROVE  Known(node'[f], Len(node'[f].skipped), m)
  <2>1. f \in nodes /\ Whole(node[f])
    BY <1>1, <1>2
  <2>2. Known(node[f], Len(node[f].skipped), m)
    BY <1>2, <2>1 DEF TraceInv, CarriersKnown
  <2> QED
    BY <1>1, <1>2, <2>2
<1>3. ASSUME NEW f \in nodes', Whole(node'[f]), phase' \in Claiming, failure' = f,
             NEW j \in 1 .. Len(written')
      PROVE  Known(node'[f], Len(node'[f].skipped), written'[j].memory)
  <2>1. f \in nodes /\ Whole(node[f])
    BY <1>1, <1>3
  <2>2. Known(node[f], Len(node[f].skipped), written[j].memory)
    BY <1>3, <2>1 DEF TraceInv, CarriersKnown
  <2> QED
    BY <1>1, <1>3, <2>2
<1>4. (\A f \in nodes : Chained(node[f]))'
  BY <1>1 DEF Chained, Whole, Known
<1>5. CarriersKnown'
  BY <1>2, <1>3 DEF CarriersKnown, Whole, Known
<1> QED
  BY <1>4, <1>5 DEF TraceInv

LEMMA SetBindingCarries ==
  ASSUME Inv, NEW b \in Bindings, NEW by, SetBinding(b, by), NEW m \in Memory, NEW f \in Carried(m)'
  PROVE  f \in Carried(m) \/ (f = by /\ by # NoFailure /\ b.memory = m)
<1>1. claims \in [Memory -> [Bytes -> Ids \cup {NoFailure}]] /\ b.memory \in Memory
  BY DEF Inv, TypeOK, Bindings
<1>2. PICK i \in Bytes : f = claims'[m][i] /\ f # NoFailure
  BY DEF Carried
<1>3. CASE claims'[m][i] = claims[m][i]
  BY <1>2, <1>3 DEF Carried
<1>4. CASE claims'[m][i] # claims[m][i]
  <2>1. claims' = [claims EXCEPT ![b.memory] = SetBytes(b, by)]
    BY <1>4 DEF SetBinding, Reclaim
  <2>2. m = b.memory /\ claims'[m][i] = SetBytes(b, by)[i]
    BY <1>1, <1>4, <2>1
  <2>3. SetBytes(b, by)[i] = IF i \in b.range THEN by ELSE claims[m][i]
    BY <2>2 DEF SetBytes
  <2> QED
    BY <1>2, <1>4, <2>2, <2>3
<1> QED
  BY <1>3, <1>4

LEMMA AllocatorTraces ==
  ASSUME Inv, TraceInv, AllocatorNext
  PROVE  TraceInv'
<1>1. UNCHANGED <<phase, failure, written>>
  BY DEF AllocatorNext, Reserve, FailReserve, DropHandle, Sweep, Rebind, scope
<1>2. ASSUME NEW m \in Memory, Reserve(m) \/ FailReserve(m) \/ DropHandle(m)
      PROVE  TraceInv'
  <2>1. nodes' = nodes /\ node' = node /\ \A n : Carried(n)' = Carried(n)
    BY <1>2 DEF Reserve, FailReserve, DropHandle, graph, Carried
  <2> QED
    BY <1>1, <2>1, TraceKept
<1>3. ASSUME NEW old \in Memory, Reclaim(old, Clean)
      PROVE  TraceInv'
  <2>1. nodes' \subseteq nodes /\ \A f \in nodes' : node'[f] = node[f]
    BY <1>3, ForgetKeeps DEF Reclaim
  <2>2. claims \in [Memory -> [Bytes -> Ids \cup {NoFailure}]]
    BY DEF Inv, TypeOK
  <2>3. claims' = [claims EXCEPT ![old] = Clean] /\ \A i \in Bytes : Clean[i] = NoFailure
    BY <1>3 DEF Reclaim, Clean
  <2>4. \A m \in Memory : Carried(m)' \subseteq Carried(m)
    BY <2>2, <2>3 DEF Carried
  <2> QED
    BY <1>1, <2>1, <2>4, TraceKept
<1> QED
  BY <1>2, <1>3 DEF AllocatorNext, Sweep, Rebind

LEMMA ScopeTraces ==
  ASSUME Inv, TraceInv, ScopeNext
  PROVE  TraceInv'
<1>1. node \in [Ids -> Nodes] /\ nodes \subseteq Ids /\ written \in Seq(Bindings) /\ next \in Nat \ {0}
  BY BoundsAssumption DEF Inv, TypeOK
<1>2. ASSUME NEW by, SetBinding(written[next], by), next <= Len(written),
             UNCHANGED <<phase, failure, written>>, by = NoFailure \/ (phase \in Claiming /\ by = failure)
      PROVE  TraceInv'
  <2>1. next \in 1 .. Len(written) /\ written[next] \in Bindings
    BY <1>1, <1>2
  <2>2. nodes' \subseteq nodes /\ \A f \in nodes' : node'[f] = node[f]
    BY <1>2, SetBindingKeeps
  <2>3. \A m \in Memory : \A f \in Carried(m)' :
          f \in Carried(m) \/ (f = by /\ by # NoFailure /\ written[next].memory = m)
    BY <1>2, <2>1, SetBindingCarries
  <2> QED
    BY <1>2, <2>1, <2>2, <2>3, TraceKept
<1>3. CASE TaintBinding \/ ReleaseBinding
  BY <1>2, <1>3 DEF TaintBinding, ReleaseBinding, Claiming
<1>4. ASSUME UNCHANGED claims, nodes' \subseteq nodes, phase' \notin Claiming,
             \A f \in nodes' : /\ node'[f].skipped = node[f].skipped
                                /\ node'[f].total = node[f].total /\ node'[f].roots = node[f].roots
      PROVE  TraceInv'
  <2>1. \A m : Carried(m)' = Carried(m)
    BY <1>4 DEF Carried
  <2> QED
    BY <1>4, <2>1, TraceKept
<1>5. CASE Entered \/ BodySucceeds \/ Propagated
  <2>1. UNCHANGED <<claims, nodes, node>> /\ phase' \notin Claiming
    BY <1>5 DEF Entered, BodySucceeds, Propagated, Close, graph, Claiming
  <2> QED
    BY <1>4, <2>1
<1>6. CASE Tainted \/ Released
  <2>1. UNCHANGED claims /\ phase' \notin Claiming /\ Prune(failure)
    BY <1>6 DEF Tainted, Released, Close, Claiming
  <2>2. nodes' \subseteq nodes /\ \A f \in nodes' : node'[f] = node[f]
    BY <2>1, ForgetKeeps DEF Prune
  <2> QED
    BY <1>4, <2>1, <2>2
<1>7. CASE BodyFails \/ BodyPanics
  <2>1. UNCHANGED claims /\ phase' \notin Claiming /\ nodes' \subseteq nodes
    BY <1>7 DEF BodyFails, BodyPanics, Close, Claiming
  <2>2. ASSUME NEW f \in nodes'
        PROVE  /\ node'[f].skipped = node[f].skipped
               /\ node'[f].total = node[f].total /\ node'[f].roots = node[f].roots
    <3>1. f \in Ids /\ node[f] \in Nodes /\ f \in nodes
      BY <1>1, <2>1, <2>2
    <3>2. \/ node'[f] = node[f]
          \/ node'[f] = [node[f] EXCEPT !.error = "real", !.ended = "failed"]
          \/ node'[f] = [node[f] EXCEPT !.ended = "panicked"]
      BY <1>7, <2>2, <3>1 DEF BodyFails, BodyPanics, Settled, Untagged
    <3> QED
      BY <3>1, <3>2 DEF Nodes
  <2> QED
    BY <1>4, <2>1, <2>2
<1> QED
  BY <1>3, <1>5, <1>6, <1>7 DEF ScopeNext

\* One more skip on the records of a node.
LEMMA SkipExtends ==
  ASSUME NEW n \in Nodes, Chained(n), NEW record \in Records, NEW new \in Nodes,
         new.skipped = Newest(n.skipped, record), new.total = n.total + 1, new.roots = n.roots,
         Whole(n) => Known(n, Len(n.skipped), record.needed)
  PROVE  /\ Chained(new)
         /\ Whole(new) => /\ Whole(n)
                          /\ \A m : Known(n, Len(n.skipped), m) => Known(new, Len(new.skipped), m)
                          /\ \A m \in record.produced : Known(new, Len(new.skipped), m)
<1> DEFINE s == n.skipped
<1>1. s \in Seq(Records) /\ Len(s) \in Nat /\ Len(s) <= MaxSkipped /\ n.total \in Nat
  BY DEF Nodes, SkipLists
<1>2. n.total >= Len(s)
  BY DEF Chained
<1>3. CASE Len(s) = MaxSkipped
  <2>1. Tail(s) \in Seq(Records) /\ Len(Tail(s)) = Len(s) - 1
    BY <1>1, <1>3, BoundsAssumption
  <2>2. Len(new.skipped) = Len(s)
    BY <1>1, <1>3, <2>1 DEF Newest
  <2>3. ~Whole(new) /\ new.total >= Len(new.skipped)
    BY <1>1, <1>2, <2>2 DEF Whole
  <2> QED
    BY <2>3 DEF Chained
<1>4. CASE Len(s) # MaxSkipped
  <2>1. new.skipped = Append(s, record)
    BY <1>4 DEF Newest
  <2>2. /\ Len(new.skipped) = Len(s) + 1
        /\ \A k \in 1 .. Len(s) : new.skipped[k] = s[k]
        /\ new.skipped[Len(s) + 1] = record
    BY <1>1, <2>1
  <2>3. Whole(new) <=> Whole(n)
    BY <1>1, <2>2 DEF Whole
  <2>4. ASSUME NEW k \in 0 .. Len(s), NEW l \in Nat, k <= l, NEW m, Known(n, k, m)
        PROVE  Known(new, l, m)
    <3>1. CASE m \in n.roots
      BY <3>1 DEF Known
    <3>2. CASE \E j \in 1 .. k : m \in n.skipped[j].produced
      <4>1. PICK j \in 1 .. k : m \in n.skipped[j].produced
        BY <3>2
      <4>2. j \in 1 .. l /\ j \in 1 .. Len(s)
        BY <1>1, <2>4
      <4> QED
        BY <2>2, <4>1, <4>2 DEF Known
    <3> QED
      BY <2>4, <3>1, <3>2 DEF Known
  <2>5. ASSUME Whole(new), NEW k \in 1 .. Len(new.skipped)
        PROVE  Known(new, k - 1, new.skipped[k].needed)
    <3>1. k - 1 \in 0 .. Len(s) /\ k - 1 \in Nat
      BY <1>1, <2>2
    <3>2. CASE k <= Len(s)
      <4>1. k \in 1 .. Len(s)
        BY <1>1, <2>2, <3>2
      <4>2. \A i \in 1 .. Len(s) : Known(n, i - 1, s[i].needed)
        BY <2>3, <2>5 DEF Chained
      <4>3. Known(n, k - 1, s[k].needed) /\ new.skipped[k] = s[k]
        BY <2>2, <4>1, <4>2
      <4> QED
        BY <2>4, <3>1, <4>3
    <3>3. CASE k = Len(s) + 1
      <4>1. Known(n, k - 1, new.skipped[k].needed)
        BY <1>1, <2>2, <2>3, <2>5, <3>3
      <4> QED
        BY <2>4, <3>1, <4>1
    <3> QED
      BY <1>1, <2>2, <3>2, <3>3
  <2>6. Chained(new)
    <3>1. new.total >= Len(new.skipped)
      BY <1>1, <1>2, <2>2
    <3> QED
      BY <2>5, <3>1 DEF Chained
  <2>7. \A m : Known(n, Len(s), m) => Known(new, Len(new.skipped), m)
    <3>1. Len(s) \in 0 .. Len(s) /\ Len(new.skipped) \in Nat /\ Len(s) <= Len(new.skipped)
      BY <1>1, <2>2
    <3> QED
      BY <2>4, <3>1
  <2>8. \A m \in record.produced : Known(new, Len(new.skipped), m)
    <3>1. Len(s) + 1 \in 1 .. Len(new.skipped)
      BY <1>1, <2>2
    <3> QED
      BY <2>2, <3>1 DEF Known
  <2> QED
    BY <2>3, <2>6, <2>7, <2>8
<1> QED
  BY <1>3, <1>4

\* A step that gives one node f new records and claims no byte, and opens its
\* scope for f.
LEMMA TraceOpened ==
  ASSUME Inv, TraceInv, NEW f, UNCHANGED claims, nodes' \subseteq nodes \cup {f},
         \A g \in nodes' \ {f} : node'[g] = node[g],
         Chained(node'[f]), failure' = f,
         Whole(node'[f]) =>
           /\ \A m \in Memory : f \in Carried(m) => Known(node'[f], Len(node'[f].skipped), m)
           /\ \A j \in 1 .. Len(written') : Known(node'[f], Len(node'[f].skipped), written'[j].memory)
  PROVE  TraceInv'
<1>1. \A m : Carried(m)' = Carried(m)
  BY DEF Carried
<1>2. ASSUME NEW g \in nodes'
      PROVE  /\ Chained(node'[g])
             /\ Whole(node'[g]) =>
                  /\ \A m \in Memory : g \in Carried(m)' => Known(node'[g], Len(node'[g].skipped), m)
                  /\ phase' \in Claiming /\ failure' = g =>
                       \A j \in 1 .. Len(written') : Known(node'[g], Len(node'[g].skipped), written'[j].memory)
  <2>1. CASE g = f
    BY <1>1, <2>1
  <2>2. CASE g # f
    <3>1. g \in nodes /\ node'[g] = node[g]
      BY <1>2, <2>2
    <3> QED
      BY <1>1, <2>2, <3>1 DEF TraceInv, CarriersKnown
  <2> QED
    BY <2>1, <2>2
<1>3. (\A g \in nodes : Chained(node[g]))'
  BY <1>2 DEF Chained, Whole, Known
<1>4. CarriersKnown'
  BY <1>2 DEF CarriersKnown, Whole, Known
<1> QED
  BY <1>3, <1>4 DEF TraceInv

LEMMA InsertTraces ==
  ASSUME Inv, TraceInv, NEW w \in WriteSets, NEW e, NEW end, NEW stage,
         Insert(NewNode(e, w, end)), OpenOn(w, stage, minted + 1), UNCHANGED claims
  PROVE  TraceInv'
<1> DEFINE f == minted + 1
           new == NewNode(e, w, end)
<1>1. f \in Ids /\ node \in [Ids -> Nodes] /\ f \notin nodes
  <2>1. minted < MaxMint
    BY DEF Insert
  <2>2. node \in [Ids -> Nodes]
    BY DEF Inv, TypeOK
  <2> QED
    BY <2>1, <2>2, FreshUntagged DEF Inv
<1>2. nodes' = nodes \cup {f} /\ node' = [node EXCEPT ![f] = new]
  BY DEF Insert
<1>3. node'[f] = new /\ \A g \in nodes : node'[g] = node[g]
  BY <1>1, <1>2 DEF Inv, TypeOK
<1>4. new.skipped = <<>> /\ new.total = 0 /\ new.roots = {w[j].memory : j \in DOMAIN w}
  BY DEF NewNode
<1>5. Chained(new)
  BY <1>4 DEF Chained
<1>6. \A m \in Memory : f \notin Carried(m)
  BY <1>1 DEF Inv, GraphInv, CarriedHasNode
<1>7. failure' = f /\ written' = w
  BY DEF OpenOn
<1>8. \A j \in 1 .. Len(w) : Known(new, Len(new.skipped), w[j].memory)
  <2>1. DOMAIN w = 1 .. Len(w)
    BY WriteSetIsSeq
  <2> QED
    BY <1>4, <2>1 DEF Known
<1> HIDE DEF f, new
<1> QED
  BY <1>2, <1>3, <1>5, <1>6, <1>7, <1>8, TraceOpened

LEMMA SkipTraces ==
  ASSUME Inv, TraceInv, NEW read \in Bindings, NEW w \in WriteSets, Skip(read, w)
  PROVE  TraceInv'
<1> DEFINE record == [needed |-> read.memory, produced |-> {w[j].memory : j \in DOMAIN w}]
<1>1. PICK f \in Claimants(read) : RecordSkip(f, record) /\ OpenOn(w, "propagate", f)
  BY DEF Skip
<1>2. UNCHANGED <<claims, nodes>>
  BY DEF Skip
<1>3. read.memory \in Memory /\ f \in Carried(read.memory)
  BY RangesAssumption DEF Bindings, Claimants, Carried
<1>4. f \in nodes /\ nodes \subseteq Ids /\ node \in [Ids -> Nodes]
  BY <1>3 DEF Inv, TypeOK, GraphInv, CarriedHasNode
<1>5. w \in Seq(Bindings) /\ DOMAIN w = 1 .. Len(w)
  BY WriteSetIsSeq
<1>6. record \in Records
  <2>1. \A j \in DOMAIN w : w[j] \in Bindings
    BY <1>5
  <2>2. \A b \in Bindings : b.memory \in Memory
    BY DEF Bindings
  <2>3. {w[j].memory : j \in DOMAIN w} \subseteq Memory
    BY <2>1, <2>2
  <2> QED
    BY <1>3, <2>3 DEF Records
<1>7. record.needed = read.memory /\ \A j \in 1 .. Len(w) : w[j].memory \in record.produced
  BY <1>5
<1> HIDE DEF record
<1>8. /\ node'[f].skipped = Newest(node[f].skipped, record)
      /\ node'[f].total = node[f].total + 1 /\ node'[f].roots = node[f].roots
      /\ \A g \in nodes \ {f} : node'[g] = node[g]
  <2>1. node[f] \in Nodes
    BY <1>4
  <2>2. node'[f] = [node[f] EXCEPT !.skipped = Newest(node[f].skipped, record), !.total = node[f].total + 1]
    BY <1>1, <1>4, <2>1, Zenon DEF RecordSkip, Nodes
  <2>3. \A g \in nodes \ {f} : node'[g] = node[g]
    BY <1>1, <1>4 DEF RecordSkip
  <2> QED
    BY <2>1, <2>2, <2>3 DEF Nodes
<1>9. node'[f] \in Nodes
  <2>1. Inv'
    BY NextInv DEF OpenNext, Launch, Next
  <2> QED
    BY <1>4, <2>1 DEF Inv, TypeOK
<1>10. Chained(node[f]) /\ node[f] \in Nodes
       /\ (Whole(node[f]) => \A m \in Memory : f \in Carried(m) => Known(node[f], Len(node[f].skipped), m))
  BY <1>4 DEF TraceInv, CarriersKnown
<1>11. /\ Chained(node'[f])
       /\ Whole(node'[f]) =>
            /\ Whole(node[f])
            /\ \A m : Known(node[f], Len(node[f].skipped), m) => Known(node'[f], Len(node'[f].skipped), m)
            /\ \A m \in record.produced : Known(node'[f], Len(node'[f].skipped), m)
  BY <1>3, <1>6, <1>7, <1>8, <1>9, <1>10, SkipExtends
<1>12. failure' = f /\ written' = w
  BY <1>1 DEF OpenOn
<1>13. nodes' \subseteq nodes \cup {f} /\ \A g \in nodes' \ {f} : node'[g] = node[g]
  BY <1>2, <1>8
<1>14. Whole(node'[f]) =>
         /\ \A m \in Memory : f \in Carried(m) => Known(node'[f], Len(node'[f].skipped), m)
         /\ \A j \in 1 .. Len(written') : Known(node'[f], Len(node'[f].skipped), written'[j].memory)
  BY <1>7, <1>10, <1>11, <1>12
<1> QED
  BY <1>2, <1>11, <1>12, <1>13, <1>14, TraceOpened

LEMMA OpenTraces ==
  ASSUME Inv, TraceInv, OpenNext
  PROVE  TraceInv'
<1>1. ASSUME NEW w \in WriteSets, Over(w) PROVE TraceInv'
  <2>1. UNCHANGED claims
    BY <1>1 DEF Over
  <2>2. CASE OpenOn(w, "body", NoFailure) /\ UNCHANGED <<graph, history>>
    <3>1. UNCHANGED <<nodes, node>> /\ phase' \notin Claiming
      BY <2>2 DEF graph, OpenOn, Claiming
    <3>2. \A m : Carried(m)' = Carried(m)
      BY <2>1 DEF Carried
    <3> QED
      BY <3>1, <3>2, TraceKept
  <2>3. CASE Insert(NewNode("TornDown", w, "open")) /\ OpenOn(w, "enter", minted + 1)
    BY <2>1, <2>3, InsertTraces
  <2> QED
    BY <1>1, <2>2, <2>3 DEF Over
<1>2. ASSUME NEW w \in WriteSets, TaintFor(w) PROVE TraceInv'
  BY <1>2, InsertTraces DEF TaintFor
<1>3. ASSUME NEW w \in WriteSets, NEW read \in Bindings, Skip(read, w) PROVE TraceInv'
  BY <1>3, SkipTraces
<1> QED
  BY <1>1, <1>2, <1>3 DEF OpenNext, Launch

LEMMA TraceInductive ==
  Inv /\ TraceInv /\ [Next]_vars => TraceInv'
<1> SUFFICES ASSUME Inv, TraceInv, [Next]_vars PROVE TraceInv'
  OBVIOUS
<1>1. CASE Next
  BY <1>1, AllocatorTraces, OpenTraces, ScopeTraces DEF Next
<1>2. CASE UNCHANGED vars
  <2>1. UNCHANGED <<nodes, node, claims, phase, failure, written>>
    BY <1>2 DEF vars, graph, scope
  <2>2. \A m : Carried(m)' = Carried(m)
    BY <2>1 DEF Carried
  <2> QED
    BY <2>1, <2>2, TraceKept
<1> QED
  BY <1>1, <1>2

\* The least element of a set of numbers, from which every induction over the
\* records follows.
LEMMA Least ==
  ASSUME NEW T, T \subseteq Nat, T # {}
  PROVE  \E n \in T : \A m \in T : n <= m
<1> DEFINE R == {ss \in Nat \X Nat : ss[1] < ss[2]}
<1>1. IsWellFoundedOn(R, Nat)
  BY NatLessThanWellFounded DEF OpToRel
<1> HIDE DEF R
<1>2. PICK n \in T : \A m \in T : ~(<<m, n>> \in R)
  BY <1>1, WFMin
<1>3. \A m \in T : ~(m < n)
  BY <1>2 DEF R
<1> QED
  BY <1>3

LEMMA Greatest ==
  ASSUME NEW n \in Nat, NEW S, S \subseteq 1 .. n, S # {}
  PROVE  \E k \in S : \A j \in S : j <= k
<1> DEFINE T == {n - k : k \in S}
<1>1. T \subseteq Nat /\ T # {}
  <2>1. \A k \in S : n - k \in Nat
    OBVIOUS
  <2> QED
    BY <2>1, Zenon
<1> HIDE DEF T
<1>2. PICK d \in T : \A e \in T : d <= e
  BY <1>1, Least
<1>3. PICK k \in S : d = n - k
  BY <1>2 DEF T
<1>4. ASSUME NEW j \in S PROVE j <= k
  <2>1. n - j \in T
    BY DEF T
  <2>2. n - k <= n - j
    BY <1>2, <1>3, <2>1
  <2> QED
    BY <1>3, <2>2
<1> QED
  BY <1>4

\* Each step of the walk looks only at shorter walks.
LEMMA BeforeShorter ==
  ASSUME NEW f, NEW n \in Nat, NEW g, NEW h, \A k \in 0 .. n - 1 : g[k] = h[k]
  PROVE  Before(f, g, n) = Before(f, h, n)
<1> DEFINE makers(t) == {k \in 1 .. n : t \in node[f].skipped[k].produced}
           newest(t) == CHOOSE k \in makers(t) : \A j \in makers(t) : j <= k
<1>1. ASSUME NEW t \in Memory, makers(t) # {}
      PROVE  g[newest(t) - 1] = h[newest(t) - 1]
  <2>1. makers(t) \subseteq 1 .. n
    OBVIOUS
  <2>2. newest(t) \in makers(t)
    <3> HIDE DEF makers
    <3>1. \E k \in makers(t) : \A j \in makers(t) : j <= k
      BY <1>1, <2>1, Greatest
    <3> QED
      BY <3>1
  <2> HIDE DEF newest, makers
  <2>3. newest(t) - 1 \in 0 .. n - 1
    BY <2>1, <2>2
  <2> QED
    BY <2>3
<1> HIDE DEF newest, makers
<1>2. \A t \in Memory :
        (IF makers(t) = {} THEN t ELSE g[newest(t) - 1][node[f].skipped[newest(t)].needed])
        = (IF makers(t) = {} THEN t ELSE h[newest(t) - 1][node[f].skipped[newest(t)].needed])
  BY <1>1
<1> QED
  BY <1>2, Zenon DEF Before, makers, newest

\* The walks of every length exist.
LEMMA WalksExist ==
  ASSUME NEW f
  PROVE  \A n \in Nat : \E g : g = [k \in 0 .. n |-> Before(f, g, k)]
<1> DEFINE Bad == {n \in Nat : ~ \E g : g = [k \in 0 .. n |-> Before(f, g, k)]}
<1> SUFFICES ASSUME Bad # {} PROVE FALSE
  OBVIOUS
<1>1. PICK n \in Bad : \A m \in Bad : n <= m
  BY Least
<1>2. n \in Nat /\ ~ \E g : g = [k \in 0 .. n |-> Before(f, g, k)]
  BY <1>1
<1>3. n # 0 => \E h : h = [k \in 0 .. n - 1 |-> Before(f, h, k)]
  BY <1>1
<1> HIDE DEF Bad
<1>4. PICK h : \A k \in 0 .. n - 1 : h[k] = Before(f, h, k)
  <2>1. CASE n = 0
    BY <1>2, <2>1
  <2>2. CASE n # 0
    <3>1. PICK h : h = [k \in 0 .. n - 1 |-> Before(f, h, k)]
      BY <1>3, <2>2
    <3>2. \A k \in 0 .. n - 1 : h[k] = Before(f, h, k)
      BY <3>1, Zenon
    <3> QED
      BY <3>2
  <2> QED
    BY <2>1, <2>2
<1> DEFINE g == [k \in 0 .. n |-> IF k = n THEN Before(f, h, n) ELSE h[k]]
<1>5. \A k \in 0 .. n - 1 : g[k] = h[k]
  BY <1>2
<1>6. g[n] = Before(f, h, n) /\ g = [k \in 0 .. n |-> g[k]]
  BY <1>2
<1> HIDE DEF g
<1>7. ASSUME NEW k \in 0 .. n PROVE g[k] = Before(f, g, k)
  <2>1. k \in Nat /\ \A j \in 0 .. k - 1 : g[j] = h[j]
    BY <1>2, <1>5
  <2>2. Before(f, g, k) = Before(f, h, k)
    BY <2>1, BeforeShorter
  <2>3. CASE k = n
    BY <1>6, <2>2, <2>3
  <2>4. CASE k # n
    <3>1. k \in 0 .. n - 1
      BY <1>2, <2>4
    <3> QED
      BY <1>4, <1>5, <2>2, <3>1
  <2> QED
    BY <2>3, <2>4
<1>8. g = [k \in 0 .. n |-> Before(f, g, k)]
  BY <1>6, <1>7
<1> QED
  BY <1>2, <1>8

\* The recursion of the walk, as an equation.
LEMMA WalkUnfolds ==
  ASSUME NEW f, node[f] \in Nodes
  PROVE  \E g : /\ \A n \in 0 .. MaxSkipped : g[n] = Before(f, g, n)
               /\ Walk(f) = g[Len(node[f].skipped)]
<1> DEFINE From == CHOOSE g : g = [n \in 0 .. MaxSkipped |-> Before(f, g, n)]
<1>1. \E g : g = [n \in 0 .. MaxSkipped |-> Before(f, g, n)]
  BY WalksExist, BoundsAssumption
<1>2. From = [n \in 0 .. MaxSkipped |-> Before(f, From, n)]
  BY <1>1, Zenon
<1>3. Walk(f) = From[Len(node[f].skipped)]
  BY Zenon DEF Walk
<1> HIDE DEF From
<1>4. \A n \in 0 .. MaxSkipped : From[n] = Before(f, From, n)
  BY <1>2, Zenon
<1> QED
  BY <1>3, <1>4

\* From a buffer that is known to the first n records, the walk over them ends
\* at a buffer of the work that failed.
LEMMA WalkReaches ==
  ASSUME NEW f, node[f] \in Nodes, Chained(node[f]), Whole(node[f]),
         NEW g, \A n \in 0 .. MaxSkipped : g[n] = Before(f, g, n)
  PROVE  \A n \in 0 .. Len(node[f].skipped) : \A t \in Memory :
           Known(node[f], n, t) => g[n][t] \in node[f].roots
<1> DEFINE s == node[f].skipped
           Reached(n) == \A t \in Memory : Known(node[f], n, t) => g[n][t] \in node[f].roots
           Bad == {n \in 0 .. Len(s) : ~Reached(n)}
<1> SUFFICES ASSUME Bad # {} PROVE FALSE
  BY Zenon
<1>1. Len(s) \in Nat /\ Len(s) <= MaxSkipped /\ s \in Seq(Records)
  BY DEF Nodes, SkipLists
<1>2. Bad \subseteq Nat
  <2>1. 0 .. Len(s) \subseteq Nat
    BY <1>1
  <2> QED
    BY <2>1, Zenon
<1>3. \E n \in Bad : \A m \in Bad : n <= m
  <2> HIDE DEF Bad
  <2> QED
    BY <1>2, Least
<1>4. PICK n \in 0 .. Len(s) : ~Reached(n) /\ \A m \in 0 .. Len(s) : ~Reached(m) => n <= m
  <2> HIDE DEF Reached
  <2> QED
    BY <1>3, Zenon
<1>5. \A m \in 0 .. n - 1 : Reached(m)
  <2> HIDE DEF Reached
  <2> QED
    BY <1>1, <1>4
<1>6. PICK t \in Memory : Known(node[f], n, t) /\ g[n][t] \notin node[f].roots
  BY <1>4, Zenon
<1> DEFINE makers == {k \in 1 .. n : t \in s[k].produced}
           newest == CHOOSE k \in makers : \A j \in makers : j <= k
<1>7. g[n][t] = IF makers = {} THEN t ELSE g[newest - 1][s[newest].needed]
  <2>1. g[n] = Before(f, g, n)
    BY <1>1, <1>4, BoundsAssumption
  <2> QED
    BY <2>1, Zenon DEF Before
<1>8. CASE makers = {}
  <2>1. t \in node[f].roots
    BY <1>6, <1>8 DEF Known
  <2> HIDE DEF makers, newest
  <2> QED
    BY <1>6, <1>7, <1>8, <2>1
<1>9. CASE makers # {}
  <2>1. makers \subseteq 1 .. n /\ n \in Nat
    BY <1>1
  <2>2. newest \in makers
    <3> HIDE DEF makers
    <3>1. \E k \in makers : \A j \in makers : j <= k
      BY <1>9, <2>1, Greatest
    <3> QED
      BY <3>1
  <2> HIDE DEF makers, newest
  <2>3. newest \in 1 .. Len(s) /\ newest - 1 \in 0 .. n - 1
    BY <1>1, <2>1, <2>2
  <2>4. Known(node[f], newest - 1, s[newest].needed)
    BY <2>3 DEF Chained
  <2>5. s[newest].needed \in Memory
    <3>1. s[newest] \in Records
      BY <1>1, <2>3
    <3> QED
      BY <3>1 DEF Records
  <2>6. g[newest - 1][s[newest].needed] \in node[f].roots
    BY <1>5, <2>3, <2>4, <2>5
  <2> QED
    BY <1>6, <1>7, <1>9, <2>6
<1> QED
  BY <1>8, <1>9

\* The report of a failed read leads back to the work that failed: as long as no
\* record was dropped, following needed and produced from any buffer that
\* carries a failure ends at a buffer of the write set the failure was minted
\* for (ErrorGraph::report), whatever was skipped, overwritten, swept or
\* rebound meanwhile.
THEOREM ReportsReach == Spec => []ReportsReachRoot
<1>1. Init => TraceInv
  <2> SUFFICES ASSUME Init PROVE TraceInv
    OBVIOUS
  <2>1. nodes = {}
    BY DEF Init
  <2> QED
    BY <2>1 DEF TraceInv, CarriersKnown
<1>2. Inv /\ TraceInv => ReportsReachRoot
  <2> SUFFICES ASSUME Inv, TraceInv, NEW m \in Memory, NEW f \in Carried(m), Whole(node[f])
               PROVE  Walk(f)[m] \in node[f].roots
    BY DEF ReportsReachRoot, Whole
  <2>1. f \in nodes /\ node[f] \in Nodes
    BY DEF Inv, TypeOK, GraphInv, CarriedHasNode
  <2>2. Chained(node[f]) /\ Known(node[f], Len(node[f].skipped), m)
    BY <2>1 DEF TraceInv, CarriersKnown
  <2>3. PICK g : /\ \A n \in 0 .. MaxSkipped : g[n] = Before(f, g, n)
                 /\ Walk(f) = g[Len(node[f].skipped)]
    BY <2>1, WalkUnfolds
  <2>4. Len(node[f].skipped) \in 0 .. Len(node[f].skipped)
    BY <2>1 DEF Nodes, SkipLists
  <2>5. g[Len(node[f].skipped)][m] \in node[f].roots
    BY <2>1, <2>2, <2>3, <2>4, WalkReaches
  <2> QED
    BY <2>3, <2>5
<1> QED
  BY InitInv, NextInv, TraceInductive, <1>1, <1>2, PTL DEF Spec
=============================================================================
