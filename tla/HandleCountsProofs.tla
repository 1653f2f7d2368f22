-------------------------- MODULE HandleCountsProofs --------------------------
(***************************************************************************)
(* The reference counts of an allocation balance, whatever the threads do   *)
(* between their atomic steps, so a slice is never free while it is owned   *)
(* and a handle that may be written in place is the only one. Proved for    *)
(* any finite set of threads.                                               *)
(***************************************************************************)
EXTENDS HandleCounts, FiniteSetTheorems, TLAPS

USE ZenonT(3), SMTT(20)

Labels == {"idle", "cloning", "dropping", "bound"}
Amounts == [Threads -> 0 .. MaxOwned]

\* What a thread has while it clones a handle: the handle, and room for one
\* more.
CloningInv ==
  \A t \in Threads :
    /\ Owned(t) <= MaxOwned
    /\ pc[t] = "cloning" => handles[t] > 0 /\ Owned(t) < MaxOwned

Inv == TypeOK /\ CloningInv

-----------------------------------------------------------------------------
(* Counting tokens *)

LEMMA TokensFinite ==
  ASSUME NEW f \in Amounts
  PROVE  IsFiniteSet(Tokens(f)) /\ Total(f) \in Nat
<1>1. IsFiniteSet(1 .. MaxOwned)
  BY CountsAssumption, FS_Interval
<1>2. IsFiniteSet(Threads \X (1 .. MaxOwned))
  BY <1>1, CountsAssumption, FS_Product
<1>3. Tokens(f) \subseteq Threads \X (1 .. MaxOwned)
  BY DEF Tokens
<1>4. IsFiniteSet(Tokens(f))
  BY <1>2, <1>3, FS_Subset
<1> QED
  BY <1>4, FS_CardinalityType DEF Total

\* One more for a thread is one more token.
LEMMA TotalGains ==
  ASSUME NEW f \in Amounts, NEW t \in Threads, f[t] < MaxOwned
  PROVE  /\ [f EXCEPT ![t] = @ + 1] \in Amounts
         /\ Total([f EXCEPT ![t] = @ + 1]) = Total(f) + 1
<1> DEFINE g == [f EXCEPT ![t] = @ + 1]
           token == <<t, f[t] + 1>>
<1>1. f[t] \in 0 .. MaxOwned /\ MaxOwned \in Nat
  BY CountsAssumption DEF Amounts
<1>2. g \in Amounts
  BY <1>1 DEF Amounts
<1>3. g[t] = f[t] + 1 /\ \A u \in Threads : u # t => g[u] = f[u]
  BY DEF Amounts
<1>4. token \notin Tokens(f)
  BY <1>1 DEF Tokens
<1>5. ASSUME NEW u \in Threads, NEW n \in 1 .. MaxOwned
      PROVE  <<u, n>> \in Tokens(g) <=> <<u, n>> \in Tokens(f) \cup {token}
  <2>1. f[u] \in 0 .. MaxOwned
    BY DEF Amounts
  <2>2. CASE u = t
    BY <1>1, <1>3, <2>2 DEF Tokens
  <2>3. CASE u # t
    BY <1>1, <1>3, <2>1, <2>3 DEF Tokens
  <2> QED
    BY <2>2, <2>3
<1>6. token \in Threads \X (1 .. MaxOwned)
  BY <1>1
<1>7. Tokens(g) = Tokens(f) \cup {token}
  BY <1>5, <1>6 DEF Tokens
<1>8. Cardinality(Tokens(f) \cup {token}) = Cardinality(Tokens(f)) + 1
  BY <1>4, TokensFinite, FS_AddElement
<1> QED
  BY <1>2, <1>7, <1>8 DEF Total

\* One less for a thread is one token less.
LEMMA TotalLoses ==
  ASSUME NEW f \in Amounts, NEW t \in Threads, f[t] > 0
  PROVE  /\ [f EXCEPT ![t] = @ - 1] \in Amounts
         /\ Total([f EXCEPT ![t] = @ - 1]) = Total(f) - 1
<1> DEFINE g == [f EXCEPT ![t] = @ - 1]
<1>1. f[t] \in 0 .. MaxOwned /\ MaxOwned \in Nat
  BY CountsAssumption DEF Amounts
<1>2. g \in Amounts
  BY <1>1 DEF Amounts
<1>3. g[t] = f[t] - 1
  BY DEF Amounts
<1>4. g[t] < MaxOwned
  BY <1>1, <1>3
<1> HIDE DEF g
<1>5. Total([g EXCEPT ![t] = @ + 1]) = Total(g) + 1
  BY <1>2, <1>4, TotalGains
<1>6. [g EXCEPT ![t] = @ + 1] = f
  <2>1. \A u \in Threads : [g EXCEPT ![t] = @ + 1][u] = f[u]
    BY <1>1 DEF g, Amounts
  <2> QED
    BY <1>2, <2>1 DEF Amounts
<1>7. Total(g) \in Nat
  BY <1>2, TokensFinite
<1> QED
  BY <1>2, <1>5, <1>6, <1>7 DEF g

\* Nothing is counted only when nobody has any.
LEMMA TotalZero ==
  ASSUME NEW f \in Amounts, Total(f) = 0, NEW t \in Threads
  PROVE  f[t] = 0
<1>1. Tokens(f) = {}
  BY TokensFinite, FS_EmptySet DEF Total
<1>2. f[t] \in 0 .. MaxOwned /\ MaxOwned \in Nat
  BY CountsAssumption DEF Amounts
<1>3. f[t] > 0 => <<t, f[t]>> \in Tokens(f)
  BY <1>2 DEF Tokens
<1> QED
  BY <1>1, <1>2, <1>3

\* Two threads that have some are counted twice.
LEMMA TotalTwo ==
  ASSUME NEW f \in Amounts, NEW t \in Threads, NEW u \in Threads, t # u,
         f[t] > 0, f[u] > 0
  PROVE  Total(f) >= 2
<1> DEFINE g == [f EXCEPT ![t] = @ - 1]
<1>1. g \in Amounts /\ Total(g) = Total(f) - 1
  BY TotalLoses
<1>2. g[u] = f[u] /\ f[u] # 0
  BY DEF Amounts
<1> HIDE DEF g
<1>3. Total(g) # 0
  BY <1>1, <1>2, TotalZero
<1>4. Total(f) \in Nat /\ Total(g) \in Nat
  BY <1>1, TokensFinite
<1> QED
  BY <1>1, <1>3, <1>4

-----------------------------------------------------------------------------
(* Counting threads *)

LEMMA AtFinite ==
  ASSUME NEW label
  PROVE  IsFiniteSet(At(label)) /\ In(label) \in Nat
<1>1. At(label) \subseteq Threads
  BY DEF At
<1>2. IsFiniteSet(At(label))
  BY <1>1, CountsAssumption, FS_Subset
<1> QED
  BY <1>2, FS_CardinalityType DEF In

\* A thread that goes from one label to another is counted there, and not here.
LEMMA InMoves ==
  ASSUME pc \in [Threads -> Labels], NEW t \in Threads, NEW from \in Labels,
         NEW to \in Labels, from # to, pc[t] = from, pc' = [pc EXCEPT ![t] = to]
  PROVE  /\ pc' \in [Threads -> Labels]
         /\ In(to)' = In(to) + 1 /\ In(from)' = In(from) - 1
         /\ \A label \in Labels \ {from, to} : In(label)' = In(label)
<1>1. At(to)' = At(to) \cup {t} /\ t \notin At(to)
  BY DEF At
<1>2. At(from)' = At(from) \ {t} /\ t \in At(from)
  BY DEF At
<1>3. \A label \in Labels \ {from, to} : At(label)' = At(label)
  BY DEF At
<1>4. Cardinality(At(to) \cup {t}) = Cardinality(At(to)) + 1
  BY <1>1, AtFinite, FS_AddElement
<1>5. Cardinality(At(from) \ {t}) = Cardinality(At(from)) - 1
  BY <1>2, AtFinite, FS_RemoveElement
<1> QED
  BY <1>1, <1>2, <1>3, <1>4, <1>5 DEF In

LEMMA InStays ==
  ASSUME UNCHANGED pc
  PROVE  \A label : In(label)' = In(label)
  BY DEF In, At

LEMMA InZero ==
  ASSUME NEW label, In(label) = 0, NEW t \in Threads
  PROVE  pc[t] # label
<1>1. At(label) = {}
  BY AtFinite, FS_EmptySet DEF In
<1> QED
  BY <1>1 DEF At

-----------------------------------------------------------------------------
(* The counts balance *)

Out == IF resolved THEN 1 ELSE 0

\* What the counts are, as numbers.
LEMMA CountsAre ==
  ASSUME TypeOK
  PROVE  /\ Total(handles) \in Nat /\ Total(bindings) \in Nat /\ Out \in 0 .. 1
         /\ In("cloning") \in Nat /\ In("bound") \in Nat /\ In("dropping") \in Nat
         /\ descriptor = 1 + Total(handles) + Total(bindings) + Out + In("cloning") + In("bound")
         /\ handleCount = 1 + Total(handles) + In("dropping") + In("bound")
         /\ handles \in Amounts /\ bindings \in Amounts /\ pc \in [Threads -> Labels]
         /\ resolved \in BOOLEAN
<1>1. handles \in Amounts /\ bindings \in Amounts
  BY DEF TypeOK, Amounts
<1>2. Total(handles) \in Nat /\ Total(bindings) \in Nat
  BY <1>1, TokensFinite
<1>3. In("cloning") \in Nat /\ In("bound") \in Nat /\ In("dropping") \in Nat
  BY AtFinite
<1> QED
  BY <1>1, <1>2, <1>3 DEF TypeOK, Out, Labels

LEMMA AmountsAre ==
  ASSUME TypeOK, NEW t \in Threads
  PROVE  handles[t] \in 0 .. MaxOwned /\ bindings[t] \in 0 .. MaxOwned /\ MaxOwned \in Nat
  BY CountsAssumption DEF TypeOK

LEMMA InitOK == Init => Inv
<1> SUFFICES ASSUME Init PROVE Inv
  OBVIOUS
<1>1. PICK t \in Threads : handles = [u \in Threads |-> IF u = t THEN 1 ELSE 0]
  BY DEF Init
<1> DEFINE none == [u \in Threads |-> 0]
<1>2. MaxOwned \in Nat \ {0}
  BY CountsAssumption
<1>3. none \in Amounts /\ handles \in Amounts /\ bindings = none
  BY <1>1, <1>2 DEF Amounts, Init
<1>4. Total(none) = 0
  <2>1. Tokens(none) = {}
    BY <1>2 DEF Tokens
  <2> QED
    BY <2>1, FS_EmptySet DEF Total
<1>5. handles = [none EXCEPT ![t] = @ + 1]
  BY <1>1
<1>6. none[t] < MaxOwned
  BY <1>2
<1> HIDE DEF none
<1>7. Total(handles) = 1
  <2>1. Total([none EXCEPT ![t] = @ + 1]) = Total(none) + 1
    BY <1>3, <1>6, TotalGains
  <2> QED
    BY <1>4, <1>5, <2>1
<1>8. \A label \in {"cloning", "bound", "dropping"} : In(label) = 0
  <2>1. \A label \in {"cloning", "bound", "dropping"} : At(label) = {}
    BY DEF Init, At
  <2> QED
    BY <2>1, FS_EmptySet DEF In
<1>9. TypeOK
  <2>1. In("cloning") = 0 /\ In("bound") = 0 /\ In("dropping") = 0 /\ Total(bindings) = 0
    BY <1>3, <1>4, <1>8
  <2>2. descriptor = 2 /\ handleCount = 2 /\ resolved = FALSE /\ pc = [u \in Threads |-> "idle"]
    BY DEF Init
  <2>3. pc \in [Threads -> {"idle", "cloning", "dropping", "bound"}]
    BY <2>2
  <2>4. resolved \in BOOLEAN /\ (IF resolved THEN 1 ELSE 0) = 0
    BY <2>2
  <2> QED
    BY <1>3, <1>7, <2>1, <2>2, <2>3, <2>4 DEF TypeOK, Amounts
<1>10. CloningInv
  BY <1>1, <1>2 DEF Init, CloningInv, Owned
<1> QED
  BY <1>9, <1>10 DEF Inv

\* Sets both counts from what the owners are, for the steps below.
LEMMA Balanced ==
  ASSUME handles' \in Amounts, bindings' \in Amounts, pc' \in [Threads -> Labels],
         resolved' \in BOOLEAN,
         descriptor' = 1 + Total(handles') + Total(bindings') + Out' + In("cloning")' + In("bound")',
         handleCount' = 1 + Total(handles') + In("dropping")' + In("bound")'
  PROVE  TypeOK'
  BY DEF TypeOK, Amounts, Labels, Out, Total, Tokens

\* What a step of one thread has to show of what it leaves that thread.
LEMMA CloningKept ==
  ASSUME Inv, NEW t \in Threads,
         \A u \in Threads \ {t} :
           handles'[u] = handles[u] /\ bindings'[u] = bindings[u] /\ pc'[u] = pc[u],
         handles'[t] + bindings'[t] <= MaxOwned,
         pc'[t] = "cloning" => handles'[t] > 0 /\ handles'[t] + bindings'[t] < MaxOwned
  PROVE  CloningInv'
  BY DEF Inv, CloningInv, Owned

LEMMA CloneDescriptorOK ==
  ASSUME Inv, NEW t \in Threads, CloneDescriptor(t)
  PROVE  Inv'
<1> USE DEF Inv
<1>1. /\ pc[t] = "idle" /\ handles[t] > 0 /\ Owned(t) < MaxOwned
      /\ descriptor' = descriptor + 1 /\ pc' = [pc EXCEPT ![t] = "cloning"]
      /\ UNCHANGED <<handleCount, handles, bindings, resolved>>
  BY DEF CloneDescriptor, device
<1>2. /\ pc' \in [Threads -> Labels]
      /\ In("cloning")' = In("cloning") + 1 /\ In("bound")' = In("bound")
      /\ In("dropping")' = In("dropping")
  BY <1>1, CountsAre, InMoves DEF Labels
<1>3. TypeOK'
  BY <1>1, <1>2, CountsAre, Balanced DEF Out
<1>4. CloningInv'
  BY <1>1, AmountsAre, CountsAre, CloningKept DEF Owned, CloningInv
<1> QED
  BY <1>3, <1>4

LEMMA CloneCountOK ==
  ASSUME Inv, NEW t \in Threads, CloneCount(t)
  PROVE  Inv'
<1> USE DEF Inv
<1>1. /\ pc[t] = "cloning" /\ handleCount' = handleCount + 1
      /\ handles' = [handles EXCEPT ![t] = @ + 1] /\ pc' = [pc EXCEPT ![t] = "idle"]
      /\ UNCHANGED <<descriptor, bindings, resolved>>
  BY DEF CloneCount, device
<1>2. Owned(t) < MaxOwned /\ handles[t] < MaxOwned
  BY <1>1, AmountsAre DEF CloningInv, Owned
<1>3. /\ pc' \in [Threads -> Labels]
      /\ In("cloning")' = In("cloning") - 1 /\ In("bound")' = In("bound")
      /\ In("dropping")' = In("dropping")
  BY <1>1, CountsAre, InMoves DEF Labels
<1>4. handles' \in Amounts /\ Total(handles') = Total(handles) + 1
  BY <1>1, <1>2, CountsAre, TotalGains
<1>5. TypeOK'
  BY <1>1, <1>3, <1>4, CountsAre, Balanced DEF Out
<1>6. CloningInv'
  BY <1>1, <1>2, AmountsAre, CountsAre, CloningKept DEF Owned, CloningInv, Amounts
<1> QED
  BY <1>5, <1>6

LEMMA DropDescriptorOK ==
  ASSUME Inv, NEW t \in Threads, DropDescriptor(t)
  PROVE  Inv'
<1> USE DEF Inv
<1>1. /\ pc[t] = "idle" /\ handles[t] > 0 /\ descriptor' = descriptor - 1
      /\ handles' = [handles EXCEPT ![t] = @ - 1] /\ pc' = [pc EXCEPT ![t] = "dropping"]
      /\ UNCHANGED <<handleCount, bindings, resolved>>
  BY DEF DropDescriptor, device
<1>2. /\ pc' \in [Threads -> Labels]
      /\ In("cloning")' = In("cloning") /\ In("bound")' = In("bound")
      /\ In("dropping")' = In("dropping") + 1
  BY <1>1, CountsAre, InMoves DEF Labels
<1>3. handles' \in Amounts /\ Total(handles') = Total(handles) - 1
  BY <1>1, CountsAre, TotalLoses
<1>4. TypeOK'
  BY <1>1, <1>2, <1>3, CountsAre, Balanced DEF Out
<1>5. CloningInv'
  BY <1>1, AmountsAre, CountsAre, CloningKept DEF Owned, CloningInv, Amounts
<1> QED
  BY <1>4, <1>5

LEMMA DropCountOK ==
  ASSUME Inv, NEW t \in Threads, DropCount(t)
  PROVE  Inv'
<1> USE DEF Inv
<1>1. /\ pc[t] = "dropping" /\ handleCount' = handleCount - 1
      /\ pc' = [pc EXCEPT ![t] = "idle"]
      /\ UNCHANGED <<descriptor, handles, bindings, resolved>>
  BY DEF DropCount, device
<1>2. /\ pc' \in [Threads -> Labels]
      /\ In("cloning")' = In("cloning") /\ In("bound")' = In("bound")
      /\ In("dropping")' = In("dropping") - 1
  BY <1>1, CountsAre, InMoves DEF Labels
<1>3. TypeOK'
  BY <1>1, <1>2, CountsAre, Balanced DEF Out
<1>4. CloningInv'
  BY <1>1, AmountsAre, CountsAre, CloningKept DEF Owned, CloningInv
<1> QED
  BY <1>3, <1>4

LEMMA BindingOK ==
  ASSUME Inv, NEW t \in Threads, Binding(t)
  PROVE  Inv'
<1> USE DEF Inv
<1>1. /\ pc[t] = "idle" /\ handles[t] > 0 /\ descriptor' = descriptor + 1
      /\ handles' = [handles EXCEPT ![t] = @ - 1]
      /\ bindings' = [bindings EXCEPT ![t] = @ + 1]
      /\ pc' = [pc EXCEPT ![t] = "bound"] /\ UNCHANGED <<handleCount, resolved>>
  BY DEF Binding, device
<1>2. bindings[t] < MaxOwned
  BY <1>1, AmountsAre DEF CloningInv, Owned
<1>3. /\ pc' \in [Threads -> Labels]
      /\ In("cloning")' = In("cloning") /\ In("bound")' = In("bound") + 1
      /\ In("dropping")' = In("dropping")
  BY <1>1, CountsAre, InMoves DEF Labels
<1>4. handles' \in Amounts /\ Total(handles') = Total(handles) - 1
  BY <1>1, CountsAre, TotalLoses
<1>5. bindings' \in Amounts /\ Total(bindings') = Total(bindings) + 1
  BY <1>1, <1>2, CountsAre, TotalGains
<1>6. TypeOK'
  BY <1>1, <1>3, <1>4, <1>5, CountsAre, Balanced DEF Out
<1>7. CloningInv'
  BY <1>1, AmountsAre, CountsAre, CloningKept DEF Owned, CloningInv, Amounts
<1> QED
  BY <1>6, <1>7

LEMMA BindingDropsOK ==
  ASSUME Inv, NEW t \in Threads, BindingDrops(t)
  PROVE  Inv'
<1> USE DEF Inv
<1>1. /\ pc[t] = "bound" /\ descriptor' = descriptor - 1
      /\ pc' = [pc EXCEPT ![t] = "dropping"]
      /\ UNCHANGED <<handleCount, handles, bindings, resolved>>
  BY DEF BindingDrops, device
<1>2. /\ pc' \in [Threads -> Labels]
      /\ In("cloning")' = In("cloning") /\ In("bound")' = In("bound") - 1
      /\ In("dropping")' = In("dropping") + 1
  BY <1>1, CountsAre, InMoves DEF Labels
<1>3. TypeOK'
  BY <1>1, <1>2, CountsAre, Balanced DEF Out
<1>4. CloningInv'
  BY <1>1, AmountsAre, CountsAre, CloningKept DEF Owned, CloningInv
<1> QED
  BY <1>3, <1>4

LEMMA CloneBindingOK ==
  ASSUME Inv, NEW t \in Threads, CloneBinding(t)
  PROVE  Inv'
<1> USE DEF Inv
<1>1. /\ pc[t] = "idle" /\ Owned(t) < MaxOwned /\ descriptor' = descriptor + 1
      /\ bindings' = [bindings EXCEPT ![t] = @ + 1]
      /\ UNCHANGED <<handleCount, handles, pc, resolved>>
  BY DEF CloneBinding, device
<1>2. bindings[t] < MaxOwned
  BY <1>1, AmountsAre DEF Owned
<1>3. bindings' \in Amounts /\ Total(bindings') = Total(bindings) + 1
  BY <1>1, <1>2, CountsAre, TotalGains
<1>4. TypeOK'
  BY <1>1, <1>3, CountsAre, InStays, Balanced DEF Out
<1>5. CloningInv'
  BY <1>1, AmountsAre, CountsAre, CloningKept DEF Owned, Amounts
<1> QED
  BY <1>4, <1>5

LEMMA DropBindingOK ==
  ASSUME Inv, NEW t \in Threads, DropBinding(t)
  PROVE  Inv'
<1> USE DEF Inv
<1>1. /\ pc[t] = "idle" /\ bindings[t] > 0 /\ descriptor' = descriptor - 1
      /\ bindings' = [bindings EXCEPT ![t] = @ - 1]
      /\ UNCHANGED <<handleCount, handles, pc, resolved>>
  BY DEF DropBinding, device
<1>2. bindings' \in Amounts /\ Total(bindings') = Total(bindings) - 1
  BY <1>1, CountsAre, TotalLoses
<1>3. TypeOK'
  BY <1>1, <1>2, CountsAre, InStays, Balanced DEF Out
<1>4. CloningInv'
  BY <1>1, AmountsAre, CountsAre, CloningKept DEF Owned, CloningInv, Amounts
<1> QED
  BY <1>3, <1>4

LEMMA ResolveOK ==
  ASSUME Inv, NEW t \in Threads, Resolve(t)
  PROVE  Inv'
<1> USE DEF Inv
<1>1. /\ pc[t] = "idle" /\ bindings[t] > 0 /\ ~resolved /\ resolved' = TRUE
      /\ bindings' = [bindings EXCEPT ![t] = @ - 1]
      /\ UNCHANGED <<descriptor, handleCount, handles, pc>>
  BY DEF Resolve
<1>2. bindings' \in Amounts /\ Total(bindings') = Total(bindings) - 1
  BY <1>1, CountsAre, TotalLoses
<1>3. Out' = Out + 1 /\ resolved' \in BOOLEAN
  BY <1>1 DEF Out
<1>4. TypeOK'
  BY <1>1, <1>2, <1>3, CountsAre, InStays, Balanced
<1>5. CloningInv'
  BY <1>1, AmountsAre, CountsAre, CloningKept DEF Owned, CloningInv, Amounts
<1> QED
  BY <1>4, <1>5

LEMMA SendOK ==
  ASSUME Inv, NEW t \in Threads, NEW u \in Threads, Send(t, u)
  PROVE  Inv'
<1> USE DEF Inv
<1> DEFINE sent == [handles EXCEPT ![t] = @ - 1]
<1>1. /\ pc[t] = "idle" /\ pc[u] = "idle" /\ t # u /\ handles[t] > 0 /\ Owned(u) < MaxOwned
      /\ handles' = [sent EXCEPT ![u] = @ + 1]
      /\ UNCHANGED <<descriptor, handleCount, bindings, pc, resolved>>
  BY DEF Send, device
<1>2. sent \in Amounts /\ Total(sent) = Total(handles) - 1
  BY <1>1, CountsAre, TotalLoses
<1>3. sent[u] < MaxOwned
  BY <1>1, AmountsAre, CountsAre DEF Owned, Amounts
<1> HIDE DEF sent
<1>4. handles' \in Amounts /\ Total(handles') = Total(sent) + 1
  BY <1>1, <1>2, <1>3, TotalGains
<1>5. TypeOK'
  BY <1>1, <1>2, <1>4, CountsAre, InStays, Balanced DEF Out
<1>6. CloningInv'
  <2> SUFFICES ASSUME NEW v \in Threads
               PROVE  /\ Owned(v)' <= MaxOwned
                      /\ pc'[v] = "cloning" => handles'[v] > 0 /\ Owned(v)' < MaxOwned
    BY DEF CloningInv
  <2>1. handles[v] \in 0 .. MaxOwned /\ bindings[v] \in 0 .. MaxOwned /\ MaxOwned \in Nat
    BY AmountsAre
  <2>2. /\ Owned(v) <= MaxOwned
        /\ pc[v] = "cloning" => handles[v] > 0 /\ Owned(v) < MaxOwned
    BY DEF CloningInv
  <2>3. handles'[v] = IF v = t THEN handles[v] - 1 ELSE IF v = u THEN handles[v] + 1 ELSE handles[v]
    BY <1>1, CountsAre DEF sent, Amounts
  <2> QED
    BY <1>1, <2>1, <2>2, <2>3 DEF Owned
<1> QED
  BY <1>5, <1>6

LEMMA DropResourceOK ==
  ASSUME Inv, DropResource
  PROVE  Inv'
<1> USE DEF Inv
<1>1. /\ resolved /\ resolved' = FALSE /\ descriptor' = descriptor - 1
      /\ UNCHANGED <<handleCount, handles, bindings, pc>>
  BY DEF DropResource
<1>2. Out = 1 /\ Out' = 0 /\ resolved' \in BOOLEAN
  BY <1>1, Zenon DEF Out
<1>3. TypeOK'
  BY <1>1, <1>2, CountsAre, InStays, Balanced
<1>4. CloningInv'
  BY <1>1 DEF CloningInv, Owned
<1> QED
  BY <1>3, <1>4

\* is_bound only reads the counts.
LEMMA ReadsOK ==
  ASSUME Inv, UNCHANGED <<descriptor, handleCount, handles, bindings, resolved, pc>>
  PROVE  Inv'
<1>1. TypeOK'
  BY CountsAre, InStays, Balanced DEF Inv, Out
<1>2. CloningInv'
  BY DEF Inv, CloningInv, Owned
<1> QED
  BY <1>1, <1>2 DEF Inv

LEMMA NextOK ==
  ASSUME Inv, [Next]_vars
  PROVE  Inv'
<1>1. ASSUME NEW t \in Threads, Thread(t) PROVE Inv'
  BY <1>1, CloneDescriptorOK, CloneCountOK, DropDescriptorOK, DropCountOK, BindingOK,
     BindingDropsOK, CloneBindingOK, DropBindingOK, ResolveOK, SendOK DEF Thread
<1>2. CASE LoadDescriptor
  BY <1>2, ReadsOK DEF LoadDescriptor
<1>3. CASE LoadCount
  BY <1>3, ReadsOK DEF LoadCount
<1>4. CASE UNCHANGED vars
  BY <1>4, ReadsOK DEF vars, device
<1> QED
  BY <1>1, <1>2, <1>3, <1>4, DropResourceOK DEF Next

LEMMA CountsInductive == Spec => []Inv
  BY InitOK, NextOK, PTL DEF Spec

-----------------------------------------------------------------------------

\* The strong counts are those of the owners, and when the descriptor has one
\* reference left, the pool's own, nobody else owns the allocation or is about
\* to: is_free never gives a slice away early.
THEOREM CountsBalance == Spec => []CountsInv
<1>1. ASSUME Inv PROVE CountsInv
  <2>1. TypeOK
    BY <1>1 DEF Inv
  <2>2. ASSUME descriptor <= 1
        PROVE  /\ Total(handles) = 0 /\ Total(bindings) = 0 /\ Out = 0
               /\ In("cloning") = 0 /\ In("bound") = 0
    BY <2>1, <2>2, CountsAre
  <2>3. ASSUME descriptor <= 1 PROVE ~resolved
    BY <2>2, <2>3 DEF Out
  <2>4. ASSUME descriptor <= 1, NEW t \in Threads
        PROVE  Owned(t) = 0 /\ pc[t] \in {"idle", "dropping"}
    <3>1. handles[t] = 0 /\ bindings[t] = 0
      BY <2>1, <2>2, <2>4, CountsAre, TotalZero
    <3>2. pc[t] # "cloning" /\ pc[t] # "bound"
      BY <2>2, <2>4, InZero
    <3> QED
      BY <2>1, <3>1, <3>2 DEF TypeOK, Owned
  <2> QED
    BY <2>1, <2>3, <2>4 DEF CountsInv, FreeIsUnowned, IsFreeNow
<1> QED
  BY <1>1, CountsInductive, PTL

\* When can_mut answers true to the owner of a handle, it is the only handle
\* and no other thread is in the middle of cloning one.
THEOREM CanMutIsExclusive == Spec => []CanMutExclusive
<1>1. ASSUME Inv PROVE CanMutExclusive
  <2> SUFFICES ASSUME NEW t \in Threads, NEW u \in Threads, CanMut, handles[t] > 0, t # u
               PROVE  handles[u] = 0 /\ pc[u] # "cloning"
    BY DEF CanMutExclusive
  <2>1. TypeOK
    BY <1>1 DEF Inv
  <2>2. Total(handles) <= 1
    BY <2>1, CountsAre DEF CanMut
  <2>3. ~(handles[u] > 0)
    BY <2>1, <2>2, CountsAre, TotalTwo
  <2> QED
    BY <1>1, <2>1, <2>3, AmountsAre DEF Inv, CloningInv
<1> QED
  BY <1>1, CountsInductive, PTL
=============================================================================
