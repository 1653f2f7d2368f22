----------------------------- MODULE TaintProofs -----------------------------
(***************************************************************************)
(* Proofs about Taint: the lists of ranges stay normal, hold one tag for    *)
(* each claim and are read exactly, for any size of the allocation and any  *)
(* number of failures, and they implement one claim for each byte.          *)
(***************************************************************************)
EXTENDS Taint, FiniteSetTheorems, TLAPS

USE ZenonT(3), SMTT(20)

AnyRange == [start : Nat, end : Nat]

Lists == Seq(AnyRange)

\* A byte of a range, and of a list of ranges.
In(b, r) == r.start <= b /\ b < r.end

InList(b, list) == \E j \in 1 .. Len(list) : In(b, list[j])

\* No range is empty, and each ends before the next one starts.
Normal(list) ==
  /\ \A j \in 1 .. Len(list) : list[j].start < list[j].end
  /\ \A j, k \in 1 .. Len(list) : j < k => list[j].end < list[k].start

-----------------------------------------------------------------------------
(* Induction and recursion over the positions of a list *)

LEMMA LeastElement ==
  ASSUME NEW T, T \subseteq Nat, T # {}
  PROVE  \E n \in T : \A m \in T : n <= m
<1> DEFINE R == {ss \in Nat \X Nat : ss[1] < ss[2]}
<1>1. IsWellFoundedOn(R, Nat)
  BY NatLessThanWellFounded DEF OpToRel
<1> HIDE DEF R
<1>2. PICK n \in T : \A m \in T : ~(<<m, n>> \in R)
  BY <1>1, WFMin
<1>3. \A m \in T : ~(m < n)
  BY <1>2 DEF R
<1> QED
  BY <1>3

\* Induction up to N, for the set P of the numbers with the property.
LEMMA Induct ==
  ASSUME NEW N \in Nat, NEW P, 0 \in P, \A n \in 1 .. N : n - 1 \in P => n \in P
  PROVE  \A n \in 0 .. N : n \in P
<1> DEFINE Bad == {n \in 0 .. N : n \notin P}
<1> SUFFICES ASSUME Bad # {} PROVE FALSE
  OBVIOUS
<1>1. Bad \subseteq Nat
  OBVIOUS
<1>2. PICK n \in Bad : \A m \in Bad : n <= m
  <2> HIDE DEF Bad
  <2> QED
    BY <1>1, LeastElement
<1>3. n \in 1 .. N /\ n - 1 \in 0 .. N
  BY <1>2
<1>4. n - 1 \notin Bad
  <2> HIDE DEF Bad
  <2> QED
    BY <1>2, <1>3
<1> QED
  BY <1>2, <1>3, <1>4

\* A walk along a list: from base, one step of G for each position.
HasWalk(S, base, G, N) ==
  \E w \in [0 .. N -> S] : w[0] = base /\ \A n \in 1 .. N : w[n] = G[n][w[n - 1]]

LEMMA WalkExists ==
  ASSUME NEW S, NEW base \in S, NEW G \in [Nat -> [S -> S]], NEW N \in Nat
  PROVE  HasWalk(S, base, G, N)
<1> DEFINE Walks(n) == {w \in [0 .. n -> S] : w[0] = base /\ \A k \in 1 .. n : w[k] = G[k][w[k - 1]]}
           P == {n \in Nat : Walks(n) # {}}
<1>1. 0 \in P
  <2>1. [k \in 0 .. 0 |-> base] \in Walks(0)
    OBVIOUS
  <2> QED
    BY <2>1
<1>2. ASSUME NEW n \in 1 .. N, n - 1 \in P PROVE n \in P
  <2>1. PICK w \in [0 .. n - 1 -> S] : w[0] = base /\ \A k \in 1 .. n - 1 : w[k] = G[k][w[k - 1]]
    BY <1>2
  <2> DEFINE v == [k \in 0 .. n |-> IF k = n THEN G[n][w[n - 1]] ELSE w[k]]
  <2>2. w[n - 1] \in S /\ G[n] \in [S -> S]
    BY <2>1
  <2>3. \A k \in 0 .. n - 1 : v[k] = w[k] /\ w[k] \in S
    BY <2>1
  <2>4. v[n] = G[n][w[n - 1]] /\ v[n] \in S
    BY <2>2
  <2>5. v \in [0 .. n -> S]
    BY <2>2, <2>3, <2>4
  <2> HIDE DEF v
  <2>6. v[0] = base
    BY <2>1, <2>3
  <2>7. ASSUME NEW k \in 1 .. n PROVE v[k] = G[k][v[k - 1]]
    <3>1. k - 1 \in 0 .. n - 1 /\ v[k - 1] = w[k - 1]
      BY <2>3
    <3>2. CASE k = n
      BY <2>4, <3>1, <3>2
    <3>3. CASE k # n
      <4>1. k \in 1 .. n - 1 /\ k \in 0 .. n - 1
        BY <3>3
      <4> QED
        BY <2>1, <2>3, <3>1, <4>1
    <3> QED
      BY <3>2, <3>3
  <2>8. v \in Walks(n)
    BY <2>5, <2>6, <2>7
  <2> QED
    BY <2>8
<1>3. N \in P
  <2> HIDE DEF P
  <2> QED
    BY <1>1, <1>2, Induct
<1> QED
  BY <1>3 DEF HasWalk

-----------------------------------------------------------------------------
(* subtract *)

LEMMA ConcatElements ==
  ASSUME NEW s \in Lists, NEW t \in Lists
  PROVE  /\ s \o t \in Lists /\ Len(s \o t) = Len(s) + Len(t) /\ Len(s) \in Nat /\ Len(t) \in Nat
         /\ \A j \in 1 .. Len(s) : (s \o t)[j] = s[j]
         /\ \A k \in 1 .. Len(t) : (s \o t)[Len(s) + k] = t[k]
BY DEF Lists

LEMMA ConcatNormal ==
  ASSUME NEW s \in Lists, NEW t \in Lists, Normal(s), Normal(t),
         \A j \in 1 .. Len(s), k \in 1 .. Len(t) : s[j].end < t[k].start
  PROVE  /\ s \o t \in Lists /\ Normal(s \o t)
         /\ \A b : InList(b, s \o t) <=> (InList(b, s) \/ InList(b, t))
<1> DEFINE u == s \o t
<1>1. /\ u \in Lists /\ Len(u) = Len(s) + Len(t) /\ Len(s) \in Nat /\ Len(t) \in Nat
      /\ \A j \in 1 .. Len(s) : u[j] = s[j]
      /\ \A k \in 1 .. Len(t) : u[Len(s) + k] = t[k]
  BY ConcatElements
<1> HIDE DEF u
<1>2. \A i \in 1 .. Len(u) : i \in 1 .. Len(s) \/ \E k \in 1 .. Len(t) : i = Len(s) + k
  <2> SUFFICES ASSUME NEW i \in 1 .. Len(u), i \notin 1 .. Len(s)
               PROVE  \E k \in 1 .. Len(t) : i = Len(s) + k
    OBVIOUS
  <2>1. i - Len(s) \in 1 .. Len(t) /\ i = Len(s) + (i - Len(s))
    BY <1>1
  <2> QED
    BY <2>1
<1>3. \A i \in 1 .. Len(u) : u[i].start < u[i].end
  BY <1>1, <1>2 DEF Normal
<1>4. ASSUME NEW i \in 1 .. Len(u), NEW k \in 1 .. Len(u), i < k PROVE u[i].end < u[k].start
  <2>1. CASE k \in 1 .. Len(s)
    <3>1. i \in 1 .. Len(s)
      BY <1>1, <1>4, <2>1
    <3> QED
      BY <1>1, <1>4, <2>1, <3>1 DEF Normal
  <2>2. ASSUME NEW l \in 1 .. Len(t), k = Len(s) + l PROVE u[i].end < u[k].start
    <3>1. CASE i \in 1 .. Len(s)
      BY <1>1, <2>2, <3>1
    <3>2. ASSUME NEW m \in 1 .. Len(t), i = Len(s) + m PROVE u[i].end < u[k].start
      <4>1. m < l
        BY <1>1, <1>4, <2>2, <3>2
      <4> QED
        BY <1>1, <2>2, <3>2, <4>1 DEF Normal
    <3> QED
      BY <1>2, <3>1, <3>2
  <2> QED
    BY <1>2, <2>1, <2>2
<1>5. ASSUME NEW b PROVE InList(b, u) <=> (InList(b, s) \/ InList(b, t))
  <2>1. ASSUME NEW j \in 1 .. Len(s) PROVE j \in 1 .. Len(u) /\ u[j] = s[j]
    BY <1>1
  <2>2. ASSUME NEW k \in 1 .. Len(t) PROVE Len(s) + k \in 1 .. Len(u) /\ u[Len(s) + k] = t[k]
    BY <1>1
  <2> QED
    BY <1>2, <2>1, <2>2 DEF InList
<1> QED
  BY <1>1, <1>3, <1>4, <1>5 DEF Normal, u

LEMMA NonEmptyFacts ==
  ASSUME NEW r \in AnyRange
  PROVE  /\ NonEmpty(r) \in Lists /\ Normal(NonEmpty(r))
         /\ \A j \in 1 .. Len(NonEmpty(r)) : NonEmpty(r)[j] = r
         /\ \A b \in Nat : InList(b, NonEmpty(r)) <=> In(b, r)
<1>1. CASE IsEmpty(r)
  <2>1. NonEmpty(r) = <<>> /\ r.start >= r.end
    BY <1>1 DEF NonEmpty, IsEmpty
  <2>2. \A b \in Nat : ~In(b, r)
    BY <2>1 DEF In, AnyRange
  <2> QED
    BY <2>1, <2>2 DEF Lists, Normal, InList
<1>2. CASE ~IsEmpty(r)
  <2>1. NonEmpty(r) = <<r>> /\ r.start < r.end
    BY <1>2 DEF NonEmpty, IsEmpty, AnyRange
  <2>2. Len(<<r>>) = 1 /\ <<r>>[1] = r /\ <<r>> \in Lists
    BY DEF Lists
  <2> QED
    BY <2>1, <2>2 DEF Normal, InList
<1> QED
  BY <1>1, <1>2

LEMMA RemainderFacts ==
  ASSUME NEW held \in AnyRange, held.start < held.end, NEW cut \in AnyRange
  PROVE  /\ Remainder(held, cut) \in Lists /\ Normal(Remainder(held, cut))
         /\ \A j \in 1 .. Len(Remainder(held, cut)) :
              held.start <= Remainder(held, cut)[j].start /\ Remainder(held, cut)[j].end <= held.end
         /\ \A b \in Nat : InList(b, Remainder(held, cut)) <=> (In(b, held) /\ ~In(b, cut))
<1> DEFINE rest == Remainder(held, cut)
           left == Span(held.start, Least(cut.start, held.end))
           right == Span(Greatest(cut.end, held.start), held.end)
<1>1. CASE ~Overlaps(held, cut)
  <2>1. rest = <<held>>
    BY <1>1 DEF Remainder
  <2>2. Len(rest) = 1 /\ rest[1] = held /\ rest \in Lists
    BY <2>1 DEF Lists
  <2>3. \A b \in Nat : ~(In(b, held) /\ In(b, cut))
    BY <1>1 DEF Overlaps, Least, Greatest, In, AnyRange
  <2> HIDE DEF rest
  <2>4. held.start <= held.start /\ held.end <= held.end
    BY DEF AnyRange
  <2>5. \A b \in Nat : InList(b, rest) <=> In(b, held)
    BY <2>2 DEF InList
  <2>6. Normal(rest)
    BY <2>2 DEF Normal
  <2>7. \A j \in 1 .. Len(rest) : held.start <= rest[j].start /\ rest[j].end <= held.end
    BY <2>2, <2>4
  <2> QED
    BY <2>2, <2>3, <2>5, <2>6, <2>7 DEF rest
<1>2. CASE Overlaps(held, cut)
  <2>1. /\ left \in AnyRange /\ left.start = held.start /\ left.end <= held.end /\ left.end <= cut.start
        /\ right \in AnyRange /\ right.end = held.end /\ held.start <= right.start /\ cut.end <= right.start
        /\ cut.start < cut.end
        /\ \A b \in Nat : (In(b, left) \/ In(b, right)) <=> (In(b, held) /\ ~In(b, cut))
    BY <1>2 DEF Overlaps, Least, Greatest, Span, In, AnyRange
  <2> HIDE DEF left, right
  <2> DEFINE s == NonEmpty(left)
             t == NonEmpty(right)
  <2>2. rest = s \o t
    BY <1>2 DEF Remainder, left, right
  <2>3. /\ s \in Lists /\ Normal(s) /\ (\A j \in 1 .. Len(s) : s[j] = left)
        /\ \A b \in Nat : InList(b, s) <=> In(b, left)
    BY <2>1, NonEmptyFacts
  <2>4. /\ t \in Lists /\ Normal(t) /\ (\A j \in 1 .. Len(t) : t[j] = right)
        /\ \A b \in Nat : InList(b, t) <=> In(b, right)
    BY <2>1, NonEmptyFacts
  <2> HIDE DEF s, t, rest
  <2>5. left.end < right.start
    BY <2>1 DEF AnyRange
  <2>6. /\ s \o t \in Lists /\ Normal(s \o t)
        /\ \A b : InList(b, s \o t) <=> (InList(b, s) \/ InList(b, t))
    BY <2>3, <2>4, <2>5, ConcatNormal
  <2>7. ASSUME NEW j \in 1 .. Len(s \o t) PROVE (s \o t)[j] = left \/ (s \o t)[j] = right
    <3>1. Len(s) \in Nat /\ Len(t) \in Nat /\ Len(s \o t) = Len(s) + Len(t)
      BY <2>3, <2>4 DEF Lists
    <3>2. CASE j <= Len(s)
      <4>1. j \in 1 .. Len(s) /\ (s \o t)[j] = s[j]
        BY <2>3, <2>4, <2>7, <3>1, <3>2 DEF Lists
      <4> QED
        BY <2>3, <4>1
    <3>3. CASE j > Len(s)
      <4>1. j - Len(s) \in 1 .. Len(t) /\ (s \o t)[j] = t[j - Len(s)]
        BY <2>3, <2>4, <2>7, <3>1, <3>3 DEF Lists
      <4> QED
        BY <2>4, <4>1
    <3> QED
      BY <3>1, <3>2, <3>3
  <2>8. \A j \in 1 .. Len(rest) : held.start <= rest[j].start /\ rest[j].end <= held.end
    <3>1. held.start <= left.start /\ left.end <= held.end /\ held.start <= right.start /\ right.end <= held.end
      BY <2>1 DEF AnyRange
    <3> QED
      BY <2>2, <2>7, <3>1
  <2> QED
    BY <2>1, <2>2, <2>3, <2>4, <2>6, <2>8 DEF rest
<1> QED
  BY <1>1, <1>2

LEMMA SubtractWalk ==
  ASSUME NEW ranges \in Lists, Normal(ranges), NEW cut \in AnyRange
  PROVE  \E w \in [0 .. Len(ranges) -> Lists] :
           /\ w[0] = <<>>
           /\ \A n \in 1 .. Len(ranges) : w[n] = w[n - 1] \o Remainder(ranges[n], cut)
           /\ Subtract(ranges, cut) = w[Len(ranges)]
<1> DEFINE N == Len(ranges)
           G == [n \in Nat |-> [s \in Lists |->
                   IF n \in 1 .. N THEN s \o Remainder(ranges[n], cut) ELSE s]]
           Is(w) == w = [n \in 0 .. N |-> IF n = 0 THEN <<>> ELSE w[n - 1] \o Remainder(ranges[n], cut)]
           walk == CHOOSE w : Is(w)
<1>1. N \in Nat /\ <<>> \in Lists
  BY DEF Lists
<1>2. \A n \in 1 .. N : Remainder(ranges[n], cut) \in Lists
  <2>1. \A n \in 1 .. N : ranges[n] \in AnyRange /\ ranges[n].start < ranges[n].end
    BY DEF Lists, Normal
  <2> QED
    BY <2>1, RemainderFacts
<1>3. \A s, t \in Lists : s \o t \in Lists
  BY DEF Lists
<1>4. G \in [Nat -> [Lists -> Lists]]
  BY <1>2, <1>3
<1>5. \A n \in 1 .. N, s \in Lists : G[n][s] = s \o Remainder(ranges[n], cut)
  BY <1>1
<1>6. PICK w \in [0 .. N -> Lists] : w[0] = <<>> /\ \A n \in 1 .. N : w[n] = G[n][w[n - 1]]
  <2> HIDE DEF G, N
  <2>1. HasWalk(Lists, <<>>, G, N)
    BY <1>1, <1>4, WalkExists, Zenon
  <2> QED
    BY <2>1, Zenon DEF HasWalk
<1> HIDE DEF G, N
<1>7. \A n \in 1 .. N : w[n] = w[n - 1] \o Remainder(ranges[n], cut)
  <2> SUFFICES ASSUME NEW n \in 1 .. N PROVE w[n] = w[n - 1] \o Remainder(ranges[n], cut)
    OBVIOUS
  <2>1. n - 1 \in 0 .. N
    BY <1>1
  <2> QED
    BY <1>5, <1>6, <2>1
<1>8. Is(w)
  <2>1. \A n \in 0 .. N : n = 0 \/ (n \in 1 .. N /\ n # 0)
    BY <1>1
  <2>2. \A n \in 0 .. N : w[n] = IF n = 0 THEN <<>> ELSE w[n - 1] \o Remainder(ranges[n], cut)
    BY <1>6, <1>7, <2>1, Zenon
  <2> QED
    BY <1>6, <2>2
<1>9. Is(walk)
  <2> HIDE DEF Is
  <2> QED
    BY <1>8
<1>10. Subtract(ranges, cut) = walk[N]
  BY Zenon DEF Subtract, N
<1> HIDE DEF walk
<1>11. /\ walk[0] = <<>>
       /\ \A n \in 1 .. N : walk[n] = walk[n - 1] \o Remainder(ranges[n], cut)
       /\ walk = [n \in 0 .. N |-> walk[n]]
  <2>1. \A n \in 0 .. N : walk[n] = IF n = 0 THEN <<>> ELSE walk[n - 1] \o Remainder(ranges[n], cut)
    BY <1>9, Zenon
  <2>2. walk = [n \in 0 .. N |-> walk[n]]
    BY <1>9, <2>1
  <2> QED
    BY <1>1, <2>1, <2>2
<1>12. \A n \in 0 .. N : walk[n] \in Lists
  <2> DEFINE P == {n \in Nat : walk[n] \in Lists}
  <2>1. 0 \in P
    BY <1>1, <1>11
  <2>2. \A n \in 1 .. N : n - 1 \in P => n \in P
    BY <1>1, <1>2, <1>3, <1>11
  <2>3. \A n \in 0 .. N : n \in P
    <3> HIDE DEF P
    <3> QED
      BY <1>1, <2>1, <2>2, Induct
  <2> QED
    BY <2>3
<1>13. walk \in [0 .. N -> Lists]
  BY <1>11, <1>12
<1> QED
  BY <1>10, <1>11, <1>13 DEF N

\* subtract keeps a list normal and takes exactly the bytes of the cut from it.
LEMMA SubtractFacts ==
  ASSUME NEW ranges \in Lists, Normal(ranges), NEW cut \in AnyRange
  PROVE  /\ Subtract(ranges, cut) \in Lists /\ Normal(Subtract(ranges, cut))
         /\ \A b \in Nat : InList(b, Subtract(ranges, cut)) <=> (InList(b, ranges) /\ ~In(b, cut))
<1> DEFINE N == Len(ranges)
<1>1. N \in Nat /\ \A n \in 1 .. N : ranges[n] \in AnyRange /\ ranges[n].start < ranges[n].end
  BY DEF Lists, Normal
<1>2. PICK w \in [0 .. N -> Lists] :
        /\ w[0] = <<>>
        /\ \A n \in 1 .. N : w[n] = w[n - 1] \o Remainder(ranges[n], cut)
        /\ Subtract(ranges, cut) = w[N]
  BY SubtractWalk
<1> HIDE DEF N
<1> DEFINE Inside(n) == \A k \in 1 .. Len(w[n]) : \E j \in 1 .. n :
                          ranges[j].start <= w[n][k].start /\ w[n][k].end <= ranges[j].end
           Exact(n) == \A b \in Nat :
                         InList(b, w[n]) <=> ((\E j \in 1 .. n : In(b, ranges[j])) /\ ~In(b, cut))
           P == {n \in Nat : Normal(w[n]) /\ Inside(n) /\ Exact(n)}
<1>3. 0 \in P
  <2>1. Len(w[0]) = 0
    BY <1>2
  <2>2. Normal(w[0]) /\ Inside(0) /\ Exact(0)
    BY <2>1 DEF Normal, InList
  <2> QED
    BY <2>2
<1>4. ASSUME NEW n \in 1 .. N, n - 1 \in P PROVE n \in P
  <2> DEFINE s == w[n - 1]
             t == Remainder(ranges[n], cut)
  <2>1. n \in Nat /\ n - 1 \in 0 .. N /\ Normal(s) /\ Inside(n - 1) /\ Exact(n - 1)
    BY <1>1, <1>4
  <2>2. s \in Lists /\ w[n] = s \o t
    BY <1>2, <2>1
  <2>3. /\ t \in Lists /\ Normal(t)
        /\ \A j \in 1 .. Len(t) : ranges[n].start <= t[j].start /\ t[j].end <= ranges[n].end
        /\ \A b \in Nat : InList(b, t) <=> (In(b, ranges[n]) /\ ~In(b, cut))
    BY <1>1, RemainderFacts
  <2>4. \A k \in 1 .. Len(s) : \E j \in 1 .. n - 1 : ranges[j].start <= s[k].start /\ s[k].end <= ranges[j].end
    BY <2>1
  <2> HIDE DEF s, t
  <2>5. /\ \A k \in 1 .. Len(s) : s[k] \in AnyRange
        /\ \A k \in 1 .. Len(t) : t[k] \in AnyRange
    BY <2>2, <2>3 DEF Lists
  <2>6. \A j \in 1 .. n - 1 : j \in 1 .. N /\ j \in 1 .. n /\ ranges[j].end < ranges[n].start
    BY <1>1 DEF Normal, N
  <2>7. ASSUME NEW k \in 1 .. Len(s), NEW l \in 1 .. Len(t) PROVE s[k].end < t[l].start
    <3>1. PICK j \in 1 .. n - 1 : s[k].end <= ranges[j].end
      BY <2>4
    <3>2. ranges[j].end < ranges[n].start /\ ranges[n].start <= t[l].start
      BY <2>3, <2>6
    <3>3. s[k].end \in Nat /\ ranges[j].end \in Nat /\ ranges[n].start \in Nat /\ t[l].start \in Nat
      BY <1>1, <2>5, <2>6 DEF AnyRange
    <3>4. \A a, b, c, d \in Nat : a <= b /\ b < c /\ c <= d => a < d
      OBVIOUS
    <3> QED
      BY <3>1, <3>2, <3>3, <3>4, Zenon
  <2>8. /\ s \o t \in Lists /\ Normal(s \o t)
        /\ \A b : InList(b, s \o t) <=> (InList(b, s) \/ InList(b, t))
    BY <2>1, <2>2, <2>3, <2>7, ConcatNormal DEF s
  <2>9. Inside(n)
    <3> SUFFICES ASSUME NEW k \in 1 .. Len(s \o t)
                 PROVE  \E j \in 1 .. n : /\ ranges[j].start <= (s \o t)[k].start
                                          /\ (s \o t)[k].end <= ranges[j].end
      BY <2>2
    <3>1. Len(s) \in Nat /\ Len(t) \in Nat /\ Len(s \o t) = Len(s) + Len(t)
      BY <2>2, <2>3 DEF Lists
    <3>2. CASE k <= Len(s)
      <4>1. k \in 1 .. Len(s) /\ (s \o t)[k] = s[k]
        BY <2>2, <2>3, <3>1, <3>2 DEF Lists
      <4> QED
        BY <2>4, <2>6, <4>1
    <3>3. CASE k > Len(s)
      <4>1. k - Len(s) \in 1 .. Len(t) /\ (s \o t)[k] = t[k - Len(s)]
        BY <2>2, <2>3, <3>1, <3>3 DEF Lists
      <4>2. n \in 1 .. n
        BY <1>1
      <4> QED
        BY <2>3, <4>1, <4>2
    <3> QED
      BY <3>1, <3>2, <3>3
  <2>10. Exact(n)
    <3> SUFFICES ASSUME NEW b \in Nat
                 PROVE  InList(b, s \o t) <=> ((\E j \in 1 .. n : In(b, ranges[j])) /\ ~In(b, cut))
      BY <2>2
    <3>1. (\E j \in 1 .. n : In(b, ranges[j])) <=> ((\E j \in 1 .. n - 1 : In(b, ranges[j])) \/ In(b, ranges[n]))
      <4>1. \A j \in 1 .. n : j \in 1 .. n - 1 \/ j = n
        BY <1>1
      <4>2. n \in 1 .. n
        BY <1>1
      <4> QED
        BY <2>6, <4>1, <4>2
    <3>2. InList(b, s) <=> ((\E j \in 1 .. n - 1 : In(b, ranges[j])) /\ ~In(b, cut))
      BY <2>1 DEF s
    <3> QED
      BY <2>3, <2>8, <3>1, <3>2
  <2> QED
    BY <2>1, <2>2, <2>8, <2>9, <2>10
<1>5. N \in P
  <2>1. \A n \in 0 .. N : n \in P
    <3> HIDE DEF P
    <3> QED
      BY <1>1, <1>3, <1>4, Induct
  <2> QED
    BY <1>1, <2>1
<1>6. w[N] \in Lists
  BY <1>1, <1>2
<1> QED
  BY <1>2, <1>5, <1>6 DEF InList, N

-----------------------------------------------------------------------------
(* add *)

FuseStates == [new : AnyRange, kept : Lists]

LEMMA FuseType ==
  ASSUME NEW acc \in FuseStates, NEW held \in AnyRange
  PROVE  /\ Fuse(acc, held) \in FuseStates
         /\ Fuses(held, acc.new) =>
              /\ Fuse(acc, held).kept = acc.kept
              /\ Fuse(acc, held).new.start = Least(held.start, acc.new.start)
              /\ Fuse(acc, held).new.end = Greatest(held.end, acc.new.end)
         /\ ~Fuses(held, acc.new) =>
              Fuse(acc, held).kept = Append(acc.kept, held) /\ Fuse(acc, held).new = acc.new
<1>1. acc.new \in AnyRange /\ acc.kept \in Lists
  BY DEF FuseStates
<1>2. CASE Fuses(held, acc.new)
  <2> DEFINE grown == Span(Least(held.start, acc.new.start), Greatest(held.end, acc.new.end))
  <2>1. Fuse(acc, held) = [acc EXCEPT !.new = grown]
    BY <1>2 DEF Fuse
  <2>2. /\ grown \in AnyRange
        /\ grown.start = Least(held.start, acc.new.start) /\ grown.end = Greatest(held.end, acc.new.end)
    BY <1>1 DEF AnyRange, Span, Least, Greatest
  <2> HIDE DEF grown
  <2> QED
    BY <1>1, <1>2, <2>1, <2>2 DEF FuseStates
<1>3. CASE ~Fuses(held, acc.new)
  <2>1. Fuse(acc, held) = [acc EXCEPT !.kept = Append(acc.kept, held)]
    BY <1>3 DEF Fuse
  <2>2. Append(acc.kept, held) \in Lists
    BY <1>1 DEF Lists
  <2> QED
    BY <1>1, <1>3, <2>1, <2>2 DEF FuseStates
<1> QED
  BY <1>2, <1>3

LEMMA FusedWalk ==
  ASSUME NEW ranges \in Lists, NEW new \in AnyRange
  PROVE  \E w \in [0 .. Len(ranges) -> FuseStates] :
           /\ w[0] = [new |-> new, kept |-> <<>>]
           /\ \A n \in 1 .. Len(ranges) : w[n] = Fuse(w[n - 1], ranges[n])
           /\ Fused(ranges, new) = w[Len(ranges)]
<1> DEFINE N == Len(ranges)
           base == [new |-> new, kept |-> <<>>]
           G == [n \in Nat |-> [s \in FuseStates |-> IF n \in 1 .. N THEN Fuse(s, ranges[n]) ELSE s]]
           Is(w) == w = [n \in 0 .. N |-> IF n = 0 THEN base ELSE Fuse(w[n - 1], ranges[n])]
           walk == CHOOSE w : Is(w)
<1>1. N \in Nat /\ base \in FuseStates
  BY DEF Lists, FuseStates
<1>2. \A n \in 1 .. N, s \in FuseStates : Fuse(s, ranges[n]) \in FuseStates
  <2>1. \A n \in 1 .. N : ranges[n] \in AnyRange
    BY DEF Lists
  <2> QED
    BY <2>1, FuseType
<1>3. G \in [Nat -> [FuseStates -> FuseStates]]
  BY <1>2
<1>4. \A n \in 1 .. N, s \in FuseStates : G[n][s] = Fuse(s, ranges[n])
  BY <1>1
<1> HIDE DEF G, N, base
<1>5. PICK w \in [0 .. N -> FuseStates] : w[0] = base /\ \A n \in 1 .. N : w[n] = G[n][w[n - 1]]
  <2>1. HasWalk(FuseStates, base, G, N)
    BY <1>1, <1>3, WalkExists, Zenon
  <2> QED
    BY <2>1, Zenon DEF HasWalk
<1>6. \A n \in 1 .. N : w[n] = Fuse(w[n - 1], ranges[n])
  <2> SUFFICES ASSUME NEW n \in 1 .. N PROVE w[n] = Fuse(w[n - 1], ranges[n])
    OBVIOUS
  <2>1. n - 1 \in 0 .. N
    BY <1>1
  <2> QED
    BY <1>4, <1>5, <2>1
<1>7. /\ \A n \in 0 .. N : n = 0 \/ (n \in 1 .. N /\ n # 0)
      /\ 0 \in 0 .. N /\ \A n \in 1 .. N : n \in Nat /\ n \in 0 .. N /\ n # 0
  BY <1>1
<1>8. Is(w)
  <2>1. \A n \in 0 .. N : w[n] = IF n = 0 THEN base ELSE Fuse(w[n - 1], ranges[n])
    BY <1>5, <1>6, <1>7, Zenon
  <2> QED
    BY <1>5, <2>1
<1>9. Is(walk)
  <2> HIDE DEF Is
  <2> QED
    BY <1>8
<1>10. Fused(ranges, new) = walk[N]
  BY Zenon DEF Fused, N, base
<1> HIDE DEF walk
<1>11. /\ walk[0] = base
       /\ \A n \in 1 .. N : walk[n] = Fuse(walk[n - 1], ranges[n])
       /\ walk = [n \in 0 .. N |-> walk[n]]
  <2>1. \A n \in 0 .. N : walk[n] = IF n = 0 THEN base ELSE Fuse(walk[n - 1], ranges[n])
    BY <1>9, Zenon
  <2>2. walk = [n \in 0 .. N |-> walk[n]]
    BY <1>9, <2>1
  <2> QED
    BY <1>7, <2>1, <2>2, Zenon
<1>12. \A n \in 0 .. N : walk[n] \in FuseStates
  <2> DEFINE P == {n \in Nat : walk[n] \in FuseStates}
  <2>1. 0 \in P
    BY <1>1, <1>11
  <2>2. \A n \in 1 .. N : n - 1 \in P => n \in P
    BY <1>2, <1>7, <1>11, Zenon
  <2>3. \A n \in 0 .. N : n \in P
    <3> HIDE DEF P
    <3> QED
      BY <1>1, <2>1, <2>2, Induct
  <2> QED
    BY <2>3
<1>13. walk \in [0 .. N -> FuseStates]
  BY <1>11, <1>12
<1> QED
  BY <1>10, <1>11, <1>13 DEF N, base

\* The new range is apart from every kept one: they neither overlap nor touch.
Apart(kept, new) == \A k \in 1 .. Len(kept) : kept[k].end < new.start \/ new.end < kept[k].start

LEMMA FuseStep ==
  ASSUME NEW acc \in FuseStates, acc.new.start < acc.new.end, Normal(acc.kept), Apart(acc.kept, acc.new),
         NEW held \in AnyRange, held.start < held.end,
         \A k \in 1 .. Len(acc.kept) : acc.kept[k].end < held.start
  PROVE  /\ Fuse(acc, held).new.start < Fuse(acc, held).new.end
         /\ Normal(Fuse(acc, held).kept) /\ Apart(Fuse(acc, held).kept, Fuse(acc, held).new)
         /\ \A k \in 1 .. Len(Fuse(acc, held).kept) :
              \/ Fuse(acc, held).kept[k] = held
              \/ \E l \in 1 .. Len(acc.kept) : Fuse(acc, held).kept[k] = acc.kept[l]
         /\ \A b \in Nat : (InList(b, Fuse(acc, held).kept) \/ In(b, Fuse(acc, held).new))
                            <=> (InList(b, acc.kept) \/ In(b, acc.new) \/ In(b, held))
<1> DEFINE s == acc.kept
           new == acc.new
           r == Fuse(acc, held)
<1>1. /\ s \in Lists /\ new \in AnyRange /\ r \in FuseStates /\ r.new \in AnyRange
      /\ \A k \in 1 .. Len(s) : s[k] \in AnyRange
  BY FuseType DEF FuseStates, Lists
<1>2. CASE Fuses(held, new)
  <2>1. /\ r.kept = s
        /\ r.new.start = Least(held.start, new.start) /\ r.new.end = Greatest(held.end, new.end)
    BY <1>2, FuseType
  <2>2. held.start <= new.end /\ new.start <= held.end
    BY <1>2 DEF Fuses
  <2> HIDE DEF r
  <2>3. r.new.start < r.new.end
    BY <1>1, <2>1 DEF AnyRange, Least, Greatest
  <2>4. Apart(s, r.new)
    <3> SUFFICES ASSUME NEW k \in 1 .. Len(s) PROVE s[k].end < r.new.start
      BY DEF Apart
    <3>1. s[k].end < held.start /\ (s[k].end < new.start \/ new.end < s[k].start) /\ s[k].start < s[k].end
      BY DEF Apart, Normal
    <3>2. s[k].start \in Nat /\ s[k].end \in Nat
      BY <1>1 DEF AnyRange
    <3> HIDE DEF s, new
    <3> QED
      BY <1>1, <2>1, <2>2, <3>1, <3>2 DEF AnyRange, Least
  <2>5. \A b \in Nat : In(b, r.new) <=> (In(b, new) \/ In(b, held))
    BY <1>1, <2>1, <2>2 DEF AnyRange, Least, Greatest, In
  <2> QED
    BY <2>1, <2>3, <2>4, <2>5 DEF r
<1>3. CASE ~Fuses(held, new)
  <2>1. r.kept = Append(s, held) /\ r.new = new
    BY <1>3, FuseType
  <2>2. held.end < new.start \/ new.end < held.start
    BY <1>1, <1>3 DEF Fuses, AnyRange
  <2> DEFINE u == Append(s, held)
  <2>3. /\ Len(s) \in Nat /\ Len(u) = Len(s) + 1 /\ u[Len(s) + 1] = held
        /\ \A k \in 1 .. Len(s) : u[k] = s[k]
    BY <1>1 DEF Lists
  <2> HIDE DEF u, r, s, new
  <2>4. \A k \in 1 .. Len(u) : k \in 1 .. Len(s) \/ k = Len(s) + 1
    BY <2>3
  <2>5. \A k \in 1 .. Len(s) : k \in 1 .. Len(u)
    BY <2>3
  <2>6. Len(s) + 1 \in 1 .. Len(u)
    BY <2>3
  <2>7. \A j \in 1 .. Len(u) : u[j].start < u[j].end
    BY <2>3, <2>4 DEF Normal, s
  <2>8. ASSUME NEW j \in 1 .. Len(u), NEW k \in 1 .. Len(u), j < k PROVE u[j].end < u[k].start
    <3>1. j \in 1 .. Len(s) /\ u[j] = s[j]
      BY <2>3, <2>4, <2>8
    <3>2. CASE k = Len(s) + 1
      BY <2>3, <3>1, <3>2 DEF s
    <3>3. CASE k \in 1 .. Len(s)
      BY <2>3, <2>8, <3>1, <3>3 DEF Normal, s
    <3> QED
      BY <2>4, <3>2, <3>3
  <2>9. Normal(u)
    BY <2>7, <2>8 DEF Normal
  <2>10. Apart(u, new)
    BY <2>2, <2>3, <2>4 DEF Apart, s, new
  <2>11. \A b : InList(b, u) <=> (InList(b, s) \/ In(b, held))
    BY <2>3, <2>4, <2>5, <2>6 DEF InList
  <2>12. \A k \in 1 .. Len(u) : u[k] = held \/ \E l \in 1 .. Len(s) : u[k] = s[l]
    BY <2>3, <2>4
  <2>13. r.kept = u /\ r.new = new
    BY <2>1 DEF u
  <2> QED
    BY <2>9, <2>10, <2>11, <2>12, <2>13 DEF r, s, new
<1> QED
  BY <1>2, <1>3

LEMMA FusedFacts ==
  ASSUME NEW ranges \in Lists, Normal(ranges), NEW new \in AnyRange, new.start < new.end
  PROVE  /\ Fused(ranges, new) \in FuseStates
         /\ Fused(ranges, new).new.start < Fused(ranges, new).new.end
         /\ Normal(Fused(ranges, new).kept) /\ Apart(Fused(ranges, new).kept, Fused(ranges, new).new)
         /\ \A b \in Nat : (InList(b, Fused(ranges, new).kept) \/ In(b, Fused(ranges, new).new))
                            <=> (InList(b, ranges) \/ In(b, new))
<1> DEFINE N == Len(ranges)
<1>1. N \in Nat /\ \A n \in 1 .. N : ranges[n] \in AnyRange /\ ranges[n].start < ranges[n].end
  BY DEF Lists, Normal
<1>2. PICK w \in [0 .. N -> FuseStates] :
        /\ w[0] = [new |-> new, kept |-> <<>>]
        /\ \A n \in 1 .. N : w[n] = Fuse(w[n - 1], ranges[n])
        /\ Fused(ranges, new) = w[N]
  BY FusedWalk
<1> DEFINE Sound(n) == w[n].new.start < w[n].new.end /\ Normal(w[n].kept) /\ Apart(w[n].kept, w[n].new)
           Old(n) == \A k \in 1 .. Len(w[n].kept) : \E j \in 1 .. n : w[n].kept[k] = ranges[j]
           Exact(n) == \A b \in Nat : (InList(b, w[n].kept) \/ In(b, w[n].new))
                                       <=> ((\E j \in 1 .. n : In(b, ranges[j])) \/ In(b, new))
           P == {n \in Nat : Sound(n) /\ Old(n) /\ Exact(n)}
<1>3. 0 \in P
  <2>1. w[0].new = new /\ w[0].kept = <<>> /\ Len(w[0].kept) = 0
    BY <1>2
  <2>2. Sound(0)
    BY <2>1 DEF Normal, Apart
  <2>3. Old(0) /\ Exact(0)
    BY <2>1 DEF InList
  <2> QED
    BY <2>2, <2>3
<1>4. ASSUME NEW n \in 1 .. N, n - 1 \in P PROVE n \in P
  <2>1. n \in Nat /\ n - 1 \in 0 .. N /\ Sound(n - 1) /\ Old(n - 1) /\ Exact(n - 1)
    BY <1>1, <1>4
  <2> DEFINE acc == w[n - 1]
             held == ranges[n]
  <2>2. acc \in FuseStates /\ held \in AnyRange /\ held.start < held.end /\ w[n] = Fuse(acc, held)
    BY <1>1, <1>2, <2>1
  <2>3. \A j \in 1 .. n - 1 : j \in 1 .. N /\ j \in 1 .. n /\ ranges[j].end < held.start
    BY <1>1 DEF Normal
  <2>4. \A j \in 1 .. n : j \in 1 .. n - 1 \/ j = n
    BY <1>1
  <2>5. n \in 1 .. n
    BY <1>1
  <2>6. /\ acc.new.start < acc.new.end /\ Normal(acc.kept) /\ Apart(acc.kept, acc.new)
        /\ \A k \in 1 .. Len(acc.kept) : \E j \in 1 .. n - 1 : acc.kept[k] = ranges[j]
        /\ \A b \in Nat : (InList(b, acc.kept) \/ In(b, acc.new))
                           <=> ((\E j \in 1 .. n - 1 : In(b, ranges[j])) \/ In(b, new))
    BY <2>1
  <2> HIDE DEF acc, held, N
  <2>7. \A k \in 1 .. Len(acc.kept) : acc.kept[k].end < held.start
    BY <2>3, <2>6
  <2>8. /\ w[n].new.start < w[n].new.end
        /\ Normal(w[n].kept) /\ Apart(w[n].kept, w[n].new)
        /\ \A k \in 1 .. Len(w[n].kept) :
             w[n].kept[k] = held \/ \E l \in 1 .. Len(acc.kept) : w[n].kept[k] = acc.kept[l]
        /\ \A b \in Nat : (InList(b, w[n].kept) \/ In(b, w[n].new))
                           <=> (InList(b, acc.kept) \/ In(b, acc.new) \/ In(b, held))
    BY <2>2, <2>6, <2>7, FuseStep
  <2>9. Old(n)
    BY <2>3, <2>5, <2>6, <2>8 DEF held
  <2>10. Exact(n)
    <3> SUFFICES ASSUME NEW b \in Nat
                 PROVE  (InList(b, w[n].kept) \/ In(b, w[n].new))
                          <=> ((\E j \in 1 .. n : In(b, ranges[j])) \/ In(b, new))
      OBVIOUS
    <3>1. (\E j \in 1 .. n : In(b, ranges[j])) <=> ((\E j \in 1 .. n - 1 : In(b, ranges[j])) \/ In(b, held))
      BY <2>3, <2>4, <2>5, Zenon DEF held
    <3> QED
      BY <2>6, <2>8, <3>1, Zenon
  <2> QED
    BY <2>1, <2>8, <2>9, <2>10
<1>5. N \in P
  <2>1. \A n \in 0 .. N : n \in P
    <3> HIDE DEF P, N
    <3> QED
      BY <1>1, <1>3, <1>4, Induct
  <2> QED
    BY <1>1, <2>1
<1>6. w[N] \in FuseStates
  BY <1>1, <1>2
<1> QED
  BY <1>2, <1>5, <1>6 DEF InList

LEMMA MinIsLeast ==
  ASSUME NEW T, T \subseteq Nat, T # {}
  PROVE  Min(T) \in T /\ \A m \in T : Min(T) <= m
BY LeastElement, Zenon DEF Min

\* A part of a normal list is normal.
LEMMA PartNormal ==
  ASSUME NEW s \in Lists, Normal(s), NEW m \in 1 .. Len(s) + 1, NEW n \in 0 .. Len(s), m <= n + 1
  PROVE  /\ SubSeq(s, m, n) \in Lists /\ Normal(SubSeq(s, m, n))
         /\ \A k \in 1 .. Len(SubSeq(s, m, n)) :
              \E j \in 1 .. Len(s) : m <= j /\ j <= n /\ SubSeq(s, m, n)[k] = s[j]
         /\ \A j \in 1 .. Len(s) : m <= j /\ j <= n =>
              \E k \in 1 .. Len(SubSeq(s, m, n)) : SubSeq(s, m, n)[k] = s[j]
<1> DEFINE part == SubSeq(s, m, n)
<1>1. Len(s) \in Nat /\ \A i \in 1 .. Len(s) : s[i] \in AnyRange
  BY DEF Lists
<1>2. m \in Int /\ n \in Int /\ \A i \in m .. n : i \in 1 .. Len(s)
  BY <1>1
<1>3. part \in Lists /\ Len(part) = n - m + 1 /\ \A i \in 1 .. n - m + 1 : part[i] = s[m + i - 1]
  <2>1. \A i \in m .. n : s[i] \in AnyRange
    BY <1>1, <1>2
  <2>2. /\ part \in Seq(AnyRange) /\ Len(part) = IF m <= n THEN n - m + 1 ELSE 0
        /\ \A i \in 1 .. n - m + 1 : part[i] = s[m + i - 1]
    <3> HIDE DEF part
    <3> QED
      BY <1>2, <2>1 DEF part
  <2>3. ~(m <= n) => n - m + 1 = 0
    BY <1>1, <1>2
  <2> HIDE DEF part
  <2> QED
    BY <2>2, <2>3 DEF Lists
<1> HIDE DEF part
<1>4. \A k \in 1 .. Len(part) : m + k - 1 \in 1 .. Len(s) /\ m <= m + k - 1 /\ m + k - 1 <= n /\ part[k] = s[m + k - 1]
  BY <1>1, <1>3
<1>5. ASSUME NEW j \in 1 .. Len(s), m <= j, j <= n
      PROVE  j - m + 1 \in 1 .. Len(part) /\ part[j - m + 1] = s[j]
  <2>1. j - m + 1 \in 1 .. Len(part) /\ m + (j - m + 1) - 1 = j
    BY <1>1, <1>3, <1>5
  <2> QED
    BY <1>4, <2>1
<1>6. Normal(part)
  <2>1. \A k \in 1 .. Len(part) : part[k].start < part[k].end
    BY <1>4 DEF Normal
  <2>2. ASSUME NEW j \in 1 .. Len(part), NEW k \in 1 .. Len(part), j < k
        PROVE  part[j].end < part[k].start
    <3>1. m + j - 1 < m + k - 1
      BY <1>2, <1>3, <2>2
    <3> QED
      BY <1>4, <3>1 DEF Normal
  <2> QED
    BY <2>1, <2>2 DEF Normal
<1> QED
  BY <1>3, <1>4, <1>5, <1>6 DEF part

\* add keeps a list normal and puts exactly the bytes of the new range into it.
LEMMA AddFacts ==
  ASSUME NEW ranges \in Lists, Normal(ranges), NEW new \in AnyRange, new.start < new.end
  PROVE  /\ Add(ranges, new) \in Lists /\ Normal(Add(ranges, new))
         /\ \A b \in Nat : InList(b, Add(ranges, new)) <=> (InList(b, ranges) \/ In(b, new))
<1> DEFINE fused == Fused(ranges, new)
           kept == fused.kept
           grown == fused.new
           behind == {i \in 1 .. Len(kept) : grown.end < kept[i].start}
           after == IF behind # {} THEN Min(behind) ELSE 0
           at == IF after = 0 THEN Len(kept) + 1 ELSE after
<1>1. /\ kept \in Lists /\ grown \in AnyRange /\ grown.start < grown.end
      /\ Normal(kept) /\ Apart(kept, grown)
      /\ \A b \in Nat : (InList(b, kept) \/ In(b, grown)) <=> (InList(b, ranges) \/ In(b, new))
  BY FusedFacts DEF FuseStates
<1>2. Add(ranges, new) = SubSeq(kept, 1, at - 1) \o <<grown>> \o SubSeq(kept, at, Len(kept))
  BY DEF Add, FirstIndex
<1> HIDE DEF fused
<1>3. Len(kept) \in Nat /\ \A k \in 1 .. Len(kept) : kept[k] \in AnyRange /\ kept[k].start < kept[k].end
  BY <1>1 DEF Lists, Normal
<1> HIDE DEF kept, grown
<1>4. /\ at \in 1 .. Len(kept) + 1
      /\ \A k \in 1 .. Len(kept) : k < at => ~(grown.end < kept[k].start)
      /\ at \in 1 .. Len(kept) => grown.end < kept[at].start
  <2>1. behind \subseteq Nat /\ behind \subseteq 1 .. Len(kept)
    BY <1>3
  <2>2. CASE behind = {}
    <3>1. at = Len(kept) + 1
      BY <2>2
    <3>2. \A k \in 1 .. Len(kept) : ~(grown.end < kept[k].start)
      BY <2>2
    <3> HIDE DEF at
    <3> QED
      BY <1>3, <3>1, <3>2
  <2>3. CASE behind # {}
    <3> HIDE DEF behind
    <3>1. Min(behind) \in behind /\ \A m \in behind : Min(behind) <= m
      BY <2>1, <2>3, MinIsLeast
    <3>2. at = Min(behind)
      BY <2>1, <2>3, <3>1
    <3>3. at \in 1 .. Len(kept) /\ grown.end < kept[at].start
      BY <2>1, <3>1, <3>2 DEF behind
    <3> HIDE DEF at
    <3>4. \A m \in behind : ~(m < at)
      <4>1. at \in Nat /\ \A m \in behind : m \in Nat /\ at <= m
        BY <2>1, <3>1, <3>2
      <4> QED
        BY <4>1
    <3>5. \A k \in 1 .. Len(kept) : k < at => ~(grown.end < kept[k].start)
      BY <3>4, Zenon DEF behind
    <3> QED
      BY <1>3, <3>3, <3>5
  <2> QED
    BY <2>2, <2>3
<1> HIDE DEF at
<1>5. \A k \in 1 .. Len(kept) : k < at => kept[k].end < grown.start
  BY <1>1, <1>4 DEF Apart
<1>6. ASSUME NEW k \in 1 .. Len(kept), at <= k PROVE grown.end < kept[k].start
  <2>1. at \in 1 .. Len(kept) /\ grown.end < kept[at].start
    BY <1>3, <1>4, <1>6
  <2>2. at = k \/ (at < k /\ kept[at].end < kept[k].start)
    BY <1>1, <1>6, <2>1 DEF Normal
  <2> QED
    BY <1>1, <1>3, <2>1, <2>2 DEF AnyRange
<1> DEFINE left == SubSeq(kept, 1, at - 1)
           right == SubSeq(kept, at, Len(kept))
<1>7. /\ left \in Lists /\ Normal(left)
      /\ \A k \in 1 .. Len(left) : \E j \in 1 .. Len(kept) : 1 <= j /\ j <= at - 1 /\ left[k] = kept[j]
      /\ \A j \in 1 .. Len(kept) : 1 <= j /\ j <= at - 1 => \E k \in 1 .. Len(left) : left[k] = kept[j]
  <2>1. 1 \in 1 .. Len(kept) + 1 /\ at - 1 \in 0 .. Len(kept) /\ 1 <= (at - 1) + 1
    BY <1>3, <1>4
  <2> QED
    BY <1>1, <2>1, PartNormal
<1>8. /\ right \in Lists /\ Normal(right)
      /\ \A k \in 1 .. Len(right) : \E j \in 1 .. Len(kept) : at <= j /\ j <= Len(kept) /\ right[k] = kept[j]
      /\ \A j \in 1 .. Len(kept) : at <= j /\ j <= Len(kept) => \E k \in 1 .. Len(right) : right[k] = kept[j]
  <2>1. Len(kept) \in 0 .. Len(kept) /\ at <= Len(kept) + 1
    BY <1>3, <1>4
  <2> QED
    BY <1>1, <1>4, <2>1, PartNormal
<1> DEFINE one == <<grown>>
<1>9. one \in Lists /\ Len(one) = 1 /\ one[1] = grown /\ Normal(one) /\ \A b : InList(b, one) <=> In(b, grown)
  <2>1. one \in Lists /\ Len(one) = 1 /\ one[1] = grown
    BY <1>1 DEF Lists
  <2> HIDE DEF one
  <2> QED
    BY <1>1, <2>1 DEF Normal, InList
<1>10. Add(ranges, new) = (left \o one) \o right
  BY <1>2
<1> HIDE DEF left, right, one
<1>11. \A j \in 1 .. Len(left) : left[j].end < grown.start
  <2>1. \A j \in 1 .. Len(kept) : j <= at - 1 => j < at
    BY <1>3, <1>4
  <2> QED
    BY <1>5, <1>7, <2>1
<1>12. \A k \in 1 .. Len(right) : grown.end < right[k].start
  BY <1>6, <1>8
<1> DEFINE front == left \o one
<1>13. /\ front \in Lists /\ Normal(front)
       /\ \A b : InList(b, front) <=> (InList(b, left) \/ InList(b, one))
  <2>1. \A j \in 1 .. Len(left), k \in 1 .. Len(one) : left[j].end < one[k].start
    BY <1>9, <1>11
  <2> QED
    BY <1>7, <1>9, <2>1, ConcatNormal
<1>14. \A j \in 1 .. Len(front), k \in 1 .. Len(right) : front[j].end < right[k].start
  <2> SUFFICES ASSUME NEW j \in 1 .. Len(front), NEW k \in 1 .. Len(right)
               PROVE  front[j].end < right[k].start
    OBVIOUS
  <2>1. /\ Len(left) \in Nat /\ Len(front) = Len(left) + 1 /\ front[Len(left) + 1] = grown
        /\ \A i \in 1 .. Len(left) : front[i] = left[i]
    <3>1. /\ Len(front) = Len(left) + Len(one) /\ Len(left) \in Nat
          /\ \A i \in 1 .. Len(left) : front[i] = left[i]
          /\ \A i \in 1 .. Len(one) : front[Len(left) + i] = one[i]
      BY <1>7, <1>9, ConcatElements
    <3> HIDE DEF front
    <3>2. Len(one) = 1 /\ one[1] = grown
      BY <1>9
    <3> QED
      BY <3>1, <3>2
  <2>2. CASE j \in 1 .. Len(left)
    <3>1. front[j] = left[j]
      BY <2>1, <2>2
    <3>2. left[j].end < grown.start /\ grown.end < right[k].start
      BY <1>11, <1>12, <2>2
    <3>3. left[j] \in AnyRange /\ right[k] \in AnyRange /\ grown \in AnyRange /\ grown.start < grown.end
      <4>1. left \in Seq(AnyRange) /\ right \in Seq(AnyRange)
        BY <1>7, <1>8 DEF Lists
      <4> QED
        BY <1>1, <2>2, <4>1
    <3>4. left[j].end < right[k].start
      BY <3>2, <3>3 DEF AnyRange
    <3> QED
      BY <3>1, <3>4
  <2>3. CASE j = Len(left) + 1
    <3>1. front[j] = grown
      BY <2>1, <2>3
    <3> QED
      BY <1>12, <3>1
  <2> QED
    BY <2>1, <2>2, <2>3
<1>15. /\ front \o right \in Lists /\ Normal(front \o right)
       /\ \A b : InList(b, front \o right) <=> (InList(b, front) \/ InList(b, right))
  <2> HIDE DEF front
  <2> QED
    BY <1>8, <1>13, <1>14, ConcatNormal
<1>16. \A b : InList(b, kept) <=> (InList(b, left) \/ InList(b, right))
  <2>1. \A j \in 1 .. Len(kept) : (1 <= j /\ j <= at - 1) \/ (at <= j /\ j <= Len(kept))
    BY <1>3, <1>4
  <2> QED
    BY <1>7, <1>8, <2>1 DEF InList
<1> QED
  BY <1>1, <1>9, <1>10, <1>13, <1>15, <1>16

-----------------------------------------------------------------------------
(* The lists of claims *)

Entries == [failure : FailureIds, ranges : Lists]

\* A failure has a claim in a list, and has one on a byte.
Has(list, f) == \E i \in 1 .. Len(list) : list[i].failure = f

Holds(list, f, b) == \E i \in 1 .. Len(list) : list[i].failure = f /\ InList(b, list[i].ranges)

\* Every claim is a normal list with something in it, and no failure has two.
WellFormed(list) ==
  /\ \A i \in 1 .. Len(list) : list[i].ranges # <<>> /\ Normal(list[i].ranges)
  /\ \A i, j \in 1 .. Len(list) : i # j => list[i].failure # list[j].failure

RetainStates == [kept : Seq(Entries), tagged : [FailureIds -> Int]]

\* What is left of one claim, or the tag that goes with its last byte.
Left(r, acc, entry, range, keep, e) ==
  /\ e.failure = entry.failure /\ e.ranges # <<>> /\ Normal(e.ranges)
  /\ \A b \in Nat : InList(b, e.ranges)
                    <=> (InList(b, entry.ranges) /\ (entry.failure = keep \/ ~In(b, range)))
  /\ r.kept = Append(acc.kept, e)
  /\ r.tagged = acc.tagged

Shed(r, acc, entry, range, keep) ==
  /\ \A b \in Nat : ~(InList(b, entry.ranges) /\ (entry.failure = keep \/ ~In(b, range)))
  /\ r.kept = acc.kept
  /\ r.tagged = [acc.tagged EXCEPT ![entry.failure] = acc.tagged[entry.failure] - 1]

LEMMA RetainCases ==
  ASSUME NEW acc \in RetainStates, NEW entry \in Entries, Normal(entry.ranges), entry.ranges # <<>>,
         NEW range \in AnyRange, NEW keep
  PROVE  \/ \E e \in Entries : Left(Retain(acc, entry, range, keep), acc, entry, range, keep, e)
         \/ Shed(Retain(acc, entry, range, keep), acc, entry, range, keep)
<1> DEFINE left == Subtract(entry.ranges, range)
           r == Retain(acc, entry, range, keep)
<1>1. entry.failure \in FailureIds /\ entry.ranges \in Lists
  BY DEF Entries
<1>2. /\ left \in Lists /\ Normal(left)
      /\ \A b \in Nat : InList(b, left) <=> (InList(b, entry.ranges) /\ ~In(b, range))
  BY <1>1, SubtractFacts
<1>3. acc.kept \in Seq(Entries) /\ acc.tagged \in [FailureIds -> Int] /\ acc = [kept |-> acc.kept, tagged |-> acc.tagged]
  BY DEF RetainStates
<1>4. CASE entry.failure = keep
  <2>1. r = [acc EXCEPT !.kept = Append(acc.kept, entry)]
    BY <1>4 DEF Retain
  <2>2. r.kept = Append(acc.kept, entry) /\ r.tagged = acc.tagged
    BY <1>3, <2>1
  <2> HIDE DEF r
  <2>3. Left(r, acc, entry, range, keep, entry)
    BY <1>4, <2>2 DEF Left
  <2> QED
    BY <2>3 DEF r
<1>5. CASE entry.failure # keep /\ left = <<>>
  <2>1. r = [acc EXCEPT !.tagged[entry.failure] = acc.tagged[entry.failure] - 1]
    BY <1>5, Zenon DEF Retain
  <2>2. r.kept = acc.kept /\ r.tagged = [acc.tagged EXCEPT ![entry.failure] = acc.tagged[entry.failure] - 1]
    BY <1>3, <2>1
  <2>3. \A b \in Nat : ~InList(b, left)
    <3>1. Len(left) = 0
      BY <1>5
    <3> HIDE DEF left
    <3> QED
      BY <3>1 DEF InList
  <2> HIDE DEF r, left
  <2> QED
    BY <1>2, <1>5, <2>2, <2>3 DEF r, Shed
<1>6. CASE entry.failure # keep /\ left # <<>>
  <2> DEFINE e == [entry EXCEPT !.ranges = left]
  <2>1. r = [acc EXCEPT !.kept = Append(acc.kept, e)]
    BY <1>6 DEF Retain
  <2>2. r.kept = Append(acc.kept, e) /\ r.tagged = acc.tagged
    BY <1>3, <2>1
  <2> HIDE DEF left
  <2>3. e \in Entries /\ e.failure = entry.failure /\ e.ranges = left
    BY <1>1, <1>2 DEF Entries
  <2>4. e.ranges # <<>> /\ Normal(e.ranges)
    BY <1>2, <1>6, <2>3
  <2> HIDE DEF r, e
  <2>5. \A b \in Nat : InList(b, e.ranges)
          <=> (InList(b, entry.ranges) /\ (entry.failure = keep \/ ~In(b, range)))
    BY <1>2, <1>6, <2>3
  <2>6. Left(r, acc, entry, range, keep, e)
    BY <2>2, <2>3, <2>4, <2>5 DEF Left
  <2> QED
    BY <2>3, <2>6 DEF r
<1> QED
  BY <1>4, <1>5, <1>6

LEMMA RetainType ==
  ASSUME NEW acc \in RetainStates, NEW entry \in Entries, Normal(entry.ranges), entry.ranges # <<>>,
         NEW range \in AnyRange, NEW keep
  PROVE  Retain(acc, entry, range, keep) \in RetainStates
<1> DEFINE left == Subtract(entry.ranges, range)
<1>1. /\ entry.failure \in FailureIds /\ entry.ranges \in Lists
      /\ acc.kept \in Seq(Entries) /\ acc.tagged \in [FailureIds -> Int]
  BY DEF Entries, RetainStates
<1>2. left \in Lists
  BY <1>1, SubtractFacts
<1> HIDE DEF left
<1>3. [entry EXCEPT !.ranges = left] \in Entries
  BY <1>2 DEF Entries
<1>4. \A e \in Entries : [acc EXCEPT !.kept = Append(acc.kept, e)] \in RetainStates
  <2>1. \A e \in Entries : Append(acc.kept, e) \in Seq(Entries)
    BY <1>1
  <2>2. \A s \in Seq(Entries) : [acc EXCEPT !.kept = s] \in RetainStates
    BY <1>1 DEF RetainStates
  <2> QED
    BY <2>1, <2>2
<1>5. [acc EXCEPT !.tagged[entry.failure] = acc.tagged[entry.failure] - 1] \in RetainStates
  <2> DEFINE less == [acc.tagged EXCEPT ![entry.failure] = acc.tagged[entry.failure] - 1]
  <2>1. less \in [FailureIds -> Int]
    BY <1>1
  <2>2. acc = [kept |-> acc.kept, tagged |-> acc.tagged]
    BY DEF RetainStates
  <2>3. [acc EXCEPT !.tagged[entry.failure] = acc.tagged[entry.failure] - 1] = [kept |-> acc.kept, tagged |-> less]
    BY <2>2
  <2> HIDE DEF less
  <2> QED
    BY <1>1, <2>1, <2>3 DEF RetainStates
<1>6. \/ Retain(acc, entry, range, keep) = [acc EXCEPT !.kept = Append(acc.kept, entry)]
      \/ Retain(acc, entry, range, keep) = [acc EXCEPT !.tagged[entry.failure] = acc.tagged[entry.failure] - 1]
      \/ Retain(acc, entry, range, keep) = [acc EXCEPT !.kept = Append(acc.kept, [entry EXCEPT !.ranges = left])]
  BY Zenon DEF Retain, left
<1> QED
  BY <1>3, <1>4, <1>5, <1>6, Zenon

\* A failure has one tag while it has a claim.
TaggedOnce(list, tags) == \A f \in FailureIds : tags[f] = IF Has(list, f) THEN 1 ELSE 0

LEMMA ReleasedWalk ==
  ASSUME entries \in Seq(Entries), tagged \in [FailureIds -> Int], WellFormed(entries),
         NEW range \in AnyRange, NEW keep
  PROVE  \E w \in [0 .. Len(entries) -> RetainStates] :
           /\ w[0] = [kept |-> <<>>, tagged |-> tagged]
           /\ \A n \in 1 .. Len(entries) : w[n] = Retain(w[n - 1], entries[n], range, keep)
           /\ Released(range, keep) = w[Len(entries)]
<1> DEFINE N == Len(entries)
           base == [kept |-> <<>>, tagged |-> tagged]
           G == [n \in Nat |-> [s \in RetainStates |->
                   IF n \in 1 .. N THEN Retain(s, entries[n], range, keep) ELSE s]]
           Is(w) == w = [n \in 0 .. N |-> IF n = 0 THEN base ELSE Retain(w[n - 1], entries[n], range, keep)]
           walk == CHOOSE w : Is(w)
<1>1. N \in Nat /\ base \in RetainStates
  BY DEF RetainStates
<1>2. \A n \in 1 .. N, s \in RetainStates : Retain(s, entries[n], range, keep) \in RetainStates
  <2>1. \A n \in 1 .. N : entries[n] \in Entries /\ Normal(entries[n].ranges) /\ entries[n].ranges # <<>>
    BY DEF WellFormed
  <2> QED
    BY <2>1, RetainType
<1>3. G \in [Nat -> [RetainStates -> RetainStates]]
  BY <1>2
<1>4. \A n \in 1 .. N, s \in RetainStates : G[n][s] = Retain(s, entries[n], range, keep)
  BY <1>1
<1> HIDE DEF G, N, base
<1>5. PICK w \in [0 .. N -> RetainStates] : w[0] = base /\ \A n \in 1 .. N : w[n] = G[n][w[n - 1]]
  <2>1. HasWalk(RetainStates, base, G, N)
    BY <1>1, <1>3, WalkExists, Zenon
  <2> QED
    BY <2>1, Zenon DEF HasWalk
<1>6. \A n \in 1 .. N : w[n] = Retain(w[n - 1], entries[n], range, keep)
  <2> SUFFICES ASSUME NEW n \in 1 .. N PROVE w[n] = Retain(w[n - 1], entries[n], range, keep)
    OBVIOUS
  <2>1. n - 1 \in 0 .. N
    BY <1>1
  <2> QED
    BY <1>4, <1>5, <2>1
<1>7. /\ \A n \in 0 .. N : n = 0 \/ (n \in 1 .. N /\ n # 0)
      /\ 0 \in 0 .. N /\ \A n \in 1 .. N : n \in Nat /\ n \in 0 .. N /\ n # 0
  BY <1>1
<1>8. Is(w)
  <2>1. \A n \in 0 .. N : w[n] = IF n = 0 THEN base ELSE Retain(w[n - 1], entries[n], range, keep)
    BY <1>5, <1>6, <1>7, Zenon
  <2> QED
    BY <1>5, <2>1
<1>9. Is(walk)
  <2> HIDE DEF Is
  <2> QED
    BY <1>8
<1>10. Released(range, keep) = walk[N]
  BY Zenon DEF Released, N, base
<1> HIDE DEF walk
<1>11. /\ walk[0] = base
       /\ \A n \in 1 .. N : walk[n] = Retain(walk[n - 1], entries[n], range, keep)
       /\ walk = [n \in 0 .. N |-> walk[n]]
  <2>1. \A n \in 0 .. N : walk[n] = IF n = 0 THEN base ELSE Retain(walk[n - 1], entries[n], range, keep)
    BY <1>9, Zenon
  <2>2. walk = [n \in 0 .. N |-> walk[n]]
    BY <1>9, <2>1
  <2> QED
    BY <1>7, <2>1, <2>2, Zenon
<1>12. \A n \in 0 .. N : walk[n] \in RetainStates
  <2> DEFINE P == {n \in Nat : walk[n] \in RetainStates}
  <2>1. 0 \in P
    BY <1>1, <1>11
  <2>2. \A n \in 1 .. N : n - 1 \in P => n \in P
    BY <1>2, <1>7, <1>11, Zenon
  <2>3. \A n \in 0 .. N : n \in P
    <3> HIDE DEF P
    <3> QED
      BY <1>1, <2>1, <2>2, Induct
  <2> QED
    BY <2>3
<1>13. walk \in [0 .. N -> RetainStates]
  BY <1>11, <1>12
<1> QED
  BY <1>10, <1>11, <1>13 DEF N, base

\* A claim of another failure at the end of a list.
LEMMA AppendClaim ==
  ASSUME NEW list \in Seq(Entries), WellFormed(list), NEW e \in Entries,
         e.ranges # <<>>, Normal(e.ranges), ~Has(list, e.failure)
  PROVE  /\ Append(list, e) \in Seq(Entries) /\ WellFormed(Append(list, e))
         /\ \A f : Has(Append(list, e), f) <=> (Has(list, f) \/ f = e.failure)
         /\ \A f, b : Holds(Append(list, e), f, b)
                        <=> (Holds(list, f, b) \/ (f = e.failure /\ InList(b, e.ranges)))
<1> DEFINE u == Append(list, e)
           N == Len(list)
<1>1. /\ N \in Nat /\ u \in Seq(Entries) /\ Len(u) = N + 1 /\ u[N + 1] = e
      /\ \A i \in 1 .. N : u[i] = list[i]
  OBVIOUS
<1> HIDE DEF u
<1>2. \A i \in 1 .. Len(u) : i \in 1 .. N \/ i = N + 1
  BY <1>1
<1>3. (\A i \in 1 .. N : i \in 1 .. Len(u)) /\ N + 1 \in 1 .. Len(u)
  BY <1>1
<1>4. WellFormed(u)
  <2>1. \A i \in 1 .. Len(u) : u[i].ranges # <<>> /\ Normal(u[i].ranges)
    BY <1>1, <1>2 DEF WellFormed
  <2>2. ASSUME NEW i \in 1 .. Len(u), NEW j \in 1 .. Len(u), i # j PROVE u[i].failure # u[j].failure
    <3>1. CASE i \in 1 .. N /\ j \in 1 .. N
      BY <1>1, <2>2, <3>1 DEF WellFormed
    <3>2. CASE i \in 1 .. N /\ j = N + 1
      BY <1>1, <3>2 DEF Has
    <3>3. CASE i = N + 1 /\ j \in 1 .. N
      BY <1>1, <3>3 DEF Has
    <3> QED
      BY <1>2, <2>2, <3>1, <3>2, <3>3
  <2> QED
    BY <2>1, <2>2 DEF WellFormed
<1>5. \A f : Has(u, f) <=> (Has(list, f) \/ f = e.failure)
  BY <1>1, <1>2, <1>3 DEF Has
<1>6. \A f, b : Holds(u, f, b) <=> (Holds(list, f, b) \/ (f = e.failure /\ InList(b, e.ranges)))
  BY <1>1, <1>2, <1>3 DEF Holds
<1> QED
  BY <1>1, <1>4, <1>5, <1>6 DEF u

\* The retain_mut of taint and written: the claims of the other failures lose
\* exactly the bytes of the range, and each one that loses its last loses its tag.
LEMMA ReleasedFacts ==
  ASSUME entries \in Seq(Entries), tagged \in [FailureIds -> Int], WellFormed(entries),
         TaggedOnce(entries, tagged), NEW range \in AnyRange, NEW keep
  PROVE  /\ Released(range, keep) \in RetainStates
         /\ WellFormed(Released(range, keep).kept)
         /\ \A f \in FailureIds, b \in Nat :
              Holds(Released(range, keep).kept, f, b) <=> (Holds(entries, f, b) /\ (f = keep \/ ~In(b, range)))
         /\ TaggedOnce(Released(range, keep).kept, Released(range, keep).tagged)
<1> DEFINE N == Len(entries)
<1>1. /\ N \in Nat
      /\ \A n \in 1 .. N : /\ entries[n] \in Entries /\ entries[n].failure \in FailureIds
                             /\ Normal(entries[n].ranges) /\ entries[n].ranges # <<>>
      /\ \A i, j \in 1 .. N : i # j => entries[i].failure # entries[j].failure
  <2>1. N \in Nat /\ \A n \in 1 .. N : entries[n] \in Entries
    OBVIOUS
  <2>2. \A e \in Entries : e.failure \in FailureIds
    BY DEF Entries
  <2> QED
    BY <2>1, <2>2, Zenon DEF WellFormed
<1>2. PICK w \in [0 .. N -> RetainStates] :
        /\ w[0] = [kept |-> <<>>, tagged |-> tagged]
        /\ \A n \in 1 .. N : w[n] = Retain(w[n - 1], entries[n], range, keep)
        /\ Released(range, keep) = w[N]
  BY ReleasedWalk
<1> DEFINE Seen(n, f) == \E i \in 1 .. n : entries[i].failure = f
           Ahead(n, f) == \E i \in n + 1 .. N : entries[i].failure = f
           Held(n, f, b) == \E i \in 1 .. n : entries[i].failure = f /\ InList(b, entries[i].ranges)
           Stays(f, b) == f = keep \/ ~In(b, range)
           Old(n) == WellFormed(w[n].kept) /\ \A f \in FailureIds : Has(w[n].kept, f) => Seen(n, f)
           Exact(n) == \A f \in FailureIds, b \in Nat : Holds(w[n].kept, f, b) <=> (Held(n, f, b) /\ Stays(f, b))
           Tags(n) == \A f \in FailureIds :
                        w[n].tagged[f] = IF Has(w[n].kept, f) \/ Ahead(n, f) THEN 1 ELSE 0
           P == {n \in Nat : Old(n) /\ Exact(n) /\ Tags(n)}
<1>3. 0 \in P
  <2>1. w[0].kept = <<>> /\ w[0].tagged = tagged /\ Len(w[0].kept) = 0
    BY <1>2
  <2>2. \A f : ~Has(w[0].kept, f) /\ \A b : ~Holds(w[0].kept, f, b)
    BY <2>1 DEF Has, Holds
  <2>3. Old(0)
    BY <2>1, <2>2 DEF WellFormed
  <2>4. Exact(0)
    <3>1. \A f, b : ~Held(0, f, b)
      OBVIOUS
    <3> QED
      BY <2>2, <3>1
  <2>5. Tags(0)
    <3>1. \A f : Has(entries, f) <=> Ahead(0, f)
      BY DEF Has
    <3> HIDE DEF Ahead
    <3> QED
      BY <2>1, <2>2, <3>1 DEF TaggedOnce
  <2> QED
    BY <2>3, <2>4, <2>5
<1>4. ASSUME NEW n \in 1 .. N, n - 1 \in P PROVE n \in P
  <2> DEFINE acc == w[n - 1]
             entry == entries[n]
             me == entry.failure
  <2>1. n \in Nat /\ n - 1 \in 0 .. N /\ n \in 0 .. N /\ Old(n - 1) /\ Exact(n - 1) /\ Tags(n - 1)
    <3>1. n \in Nat /\ n - 1 \in 0 .. N /\ n \in 0 .. N
      BY <1>1
    <3>2. Old(n - 1) /\ Exact(n - 1) /\ Tags(n - 1)
      BY <1>4, Zenon
    <3> QED
      BY <3>1, <3>2, Zenon
  <2>2. /\ acc \in RetainStates /\ w[n] \in RetainStates /\ w[n] = Retain(acc, entry, range, keep)
        /\ entry \in Entries /\ me \in FailureIds /\ Normal(entry.ranges) /\ entry.ranges # <<>>
    BY <1>1, <1>2, <2>1
  <2>3. acc.kept \in Seq(Entries) /\ acc.tagged \in [FailureIds -> Int]
    BY <2>2 DEF RetainStates
  <2>4. /\ \A i \in 1 .. n : i \in 1 .. n - 1 \/ i = n
        /\ \A i \in 1 .. n - 1 : i \in 1 .. n /\ i \in 1 .. N /\ i # n
        /\ n \in 1 .. n
    BY <1>1
  <2>5. \A f : Seen(n, f) <=> (Seen(n - 1, f) \/ f = me)
    BY <2>4
  <2>6. \A f, b : Held(n, f, b) <=> (Held(n - 1, f, b) \/ (f = me /\ InList(b, entry.ranges)))
    BY <2>4
  <2>7. \A f : Ahead(n - 1, f) <=> (Ahead(n, f) \/ f = me)
    <3>1. /\ \A i \in (n - 1) + 1 .. N : i \in n + 1 .. N \/ i = n
          /\ \A i \in n + 1 .. N : i \in (n - 1) + 1 .. N
          /\ n \in (n - 1) + 1 .. N
      BY <1>1
    <3> QED
      BY <3>1
  <2>8. ~Seen(n - 1, me)
    BY <1>1, <2>4
  <2>9. ~Ahead(n, me)
    <3>1. \A i \in n + 1 .. N : i \in 1 .. N /\ i # n
      BY <1>1
    <3> QED
      BY <1>1, <3>1
  <2>10. /\ WellFormed(acc.kept)
         /\ \A f \in FailureIds : Has(acc.kept, f) => Seen(n - 1, f)
         /\ \A f \in FailureIds, b \in Nat : Holds(acc.kept, f, b) <=> (Held(n - 1, f, b) /\ Stays(f, b))
         /\ \A f \in FailureIds : acc.tagged[f] = IF Has(acc.kept, f) \/ Ahead(n - 1, f) THEN 1 ELSE 0
    BY <2>1
  <2> HIDE DEF acc, entry, me, Seen, Held, Ahead, Stays
  <2>11. ~Has(acc.kept, me)
    BY <2>2, <2>8, <2>10
  <2>12. CASE \E e \in Entries : Left(w[n], acc, entry, range, keep, e)
    <3>1. PICK e \in Entries : Left(w[n], acc, entry, range, keep, e)
      BY <2>12
    <3>2. /\ e.failure = me /\ e.ranges # <<>> /\ Normal(e.ranges)
          /\ \A b \in Nat : InList(b, e.ranges) <=> (InList(b, entry.ranges) /\ Stays(me, b))
          /\ w[n].kept = Append(acc.kept, e)
          /\ w[n].tagged = acc.tagged
      BY <3>1 DEF Left, Stays, me
    <3>3. /\ WellFormed(w[n].kept)
          /\ \A f : Has(w[n].kept, f) <=> (Has(acc.kept, f) \/ f = me)
          /\ \A f, b : Holds(w[n].kept, f, b) <=> (Holds(acc.kept, f, b) \/ (f = me /\ InList(b, e.ranges)))
      BY <2>3, <2>10, <2>11, <3>2, AppendClaim
    <3>4. Old(n)
      BY <2>5, <2>10, <3>3
    <3>5. Exact(n)
      BY <2>6, <2>10, <3>2, <3>3
    <3>6. Tags(n)
      BY <2>7, <2>10, <3>2, <3>3
    <3> QED
      BY <2>1, <3>4, <3>5, <3>6
  <2>13. CASE Shed(w[n], acc, entry, range, keep)
    <3>1. /\ \A b \in Nat : ~(InList(b, entry.ranges) /\ Stays(me, b))
          /\ w[n].kept = acc.kept
          /\ w[n].tagged = [acc.tagged EXCEPT ![me] = acc.tagged[me] - 1]
      BY <2>13 DEF Shed, Stays, me
    <3>2. Old(n)
      BY <2>5, <2>10, <3>1
    <3>3. Exact(n)
      BY <2>6, <2>10, <3>1
    <3>4. Tags(n)
      <4>1. w[n].tagged[me] = 0
        BY <2>2, <2>3, <2>7, <2>10, <3>1
      <4>2. \A f \in FailureIds : f # me => w[n].tagged[f] = acc.tagged[f]
        BY <2>3, <3>1
      <4> QED
        BY <2>7, <2>9, <2>10, <2>11, <3>1, <4>1, <4>2
    <3> QED
      BY <2>1, <3>2, <3>3, <3>4
  <2>14. \/ \E e \in Entries : Left(w[n], acc, entry, range, keep, e)
         \/ Shed(w[n], acc, entry, range, keep)
    BY <2>2, RetainCases
  <2> QED
    BY <2>12, <2>13, <2>14
<1>5. N \in P
  <2> HIDE DEF P, N
  <2>1. \A n \in 0 .. N : n \in P
    BY <1>1, <1>3, <1>4, Induct
  <2> QED
    BY <1>1, <2>1
<1>6. w[N] \in RetainStates
  BY <1>1, <1>2
<1>7. \A f : ~Ahead(N, f)
  BY <1>1
<1>8. TaggedOnce(w[N].kept, w[N].tagged)
  <2> HIDE DEF Ahead
  <2> QED
    BY <1>5, <1>7 DEF TaggedOnce
<1>9. \A f, b : Held(N, f, b) <=> Holds(entries, f, b)
  BY DEF Holds
<1>10. WellFormed(w[N].kept) /\ Exact(N)
  <2> HIDE DEF Held, Stays, Ahead, Seen, Tags
  <2> QED
    BY <1>5
<1> QED
  BY <1>2, <1>6, <1>8, <1>9, <1>10

\* One claim of a list with other ranges.
LEMMA ReplaceClaim ==
  ASSUME NEW list \in Seq(Entries), WellFormed(list), NEW at \in 1 .. Len(list),
         NEW ranges \in Lists, ranges # <<>>, Normal(ranges)
  PROVE  /\ [list EXCEPT ![at].ranges = ranges] \in Seq(Entries)
         /\ WellFormed([list EXCEPT ![at].ranges = ranges])
         /\ \A f : Has([list EXCEPT ![at].ranges = ranges], f) <=> Has(list, f)
         /\ \A f, b : Holds([list EXCEPT ![at].ranges = ranges], f, b)
                        <=> IF f = list[at].failure THEN InList(b, ranges) ELSE Holds(list, f, b)
         /\ \A b : Holds(list, list[at].failure, b) <=> InList(b, list[at].ranges)
<1> DEFINE e == [list[at] EXCEPT !.ranges = ranges]
           u == [list EXCEPT ![at].ranges = ranges]
           N == Len(list)
<1>1. N \in Nat /\ list[at] \in Entries /\ u = [list EXCEPT ![at] = e]
  OBVIOUS
<1>2. e \in Entries /\ e.failure = list[at].failure /\ e.ranges = ranges
  BY <1>1 DEF Entries
<1> HIDE DEF e, u
<1>3. /\ u \in Seq(Entries) /\ Len(u) = N /\ u[at] = e
      /\ \A i \in 1 .. N : i # at => u[i] = list[i]
  BY <1>1, <1>2
<1>4. \A i \in 1 .. N : u[i].failure = list[i].failure
  BY <1>2, <1>3
<1>5. \A i, j \in 1 .. N : i # j => list[i].failure # list[j].failure
  BY DEF WellFormed
<1>6. WellFormed(u)
  <2>1. \A i \in 1 .. N : u[i].ranges # <<>> /\ Normal(u[i].ranges)
    BY <1>2, <1>3 DEF WellFormed
  <2> QED
    BY <1>3, <1>4, <1>5, <2>1, Zenon DEF WellFormed
<1>7. \A f : Has(u, f) <=> Has(list, f)
  BY <1>3, <1>4 DEF Has
<1>8. \A b : Holds(list, list[at].failure, b) <=> InList(b, list[at].ranges)
  BY <1>5 DEF Holds
<1>9. \A f, b : Holds(u, f, b) <=> IF f = list[at].failure THEN InList(b, ranges) ELSE Holds(list, f, b)
  <2> SUFFICES ASSUME NEW f, NEW b
               PROVE  Holds(u, f, b) <=> IF f = list[at].failure THEN InList(b, ranges) ELSE Holds(list, f, b)
    OBVIOUS
  <2>1. CASE f = list[at].failure
    BY <1>2, <1>3, <1>4, <1>5, <2>1 DEF Holds
  <2>2. CASE f # list[at].failure
    BY <1>2, <1>3, <1>4, <2>2 DEF Holds
  <2> QED
    BY <2>1, <2>2
<1> QED
  BY <1>3, <1>6, <1>7, <1>8, <1>9 DEF u

LEMMA PositionFacts ==
  ASSUME NEW list \in Seq(Entries), NEW failure
  PROVE  \/ Position(list, failure) = 0 /\ ~Has(list, failure)
         \/ Position(list, failure) \in 1 .. Len(list) /\ list[Position(list, failure)].failure = failure
<1> DEFINE T == {i \in 1 .. Len(list) : list[i].failure = failure}
<1>1. Position(list, failure) = IF T # {} THEN Min(T) ELSE 0
  BY DEF Position, FirstIndex
<1>2. CASE T = {}
  BY <1>1, <1>2 DEF Has
<1>3. CASE T # {}
  <2>1. T \subseteq Nat
    OBVIOUS
  <2>2. Min(T) \in T
    <3> HIDE DEF T
    <3> QED
      BY <1>3, <2>1, MinIsLeast
  <2> QED
    BY <1>1, <1>3, <2>2
<1> QED
  BY <1>2, <1>3

-----------------------------------------------------------------------------
(* The steps *)

Disjoint(list) == \A f, g \in FailureIds, b \in Nat : Holds(list, f, b) /\ Holds(list, g, b) => f = g

\* The inductive invariant: normal claims of different failures, no byte in two
\* of them, and one tag for each.
Inv ==
  /\ entries \in Seq(Entries) /\ tagged \in [FailureIds -> Int]
  /\ WellFormed(entries) /\ Disjoint(entries) /\ TaggedOnce(entries, tagged)

LEMMA RangeFacts ==
  ASSUME NEW range \in Ranges
  PROVE  /\ range \in AnyRange
         /\ range.start \in Nat /\ range.end \in Nat
         /\ ~IsEmpty(range) <=> range.start < range.end
BY TaintAssumption DEF Ranges, AnyRange, IsEmpty

LEMMA TaintStep ==
  ASSUME Inv, NEW range \in Ranges, NEW failure \in FailureIds, TaintRange(range, failure)
  PROVE  /\ Inv'
         /\ \A f \in FailureIds, b \in Nat :
              Holds(entries', f, b) <=> IF In(b, range) THEN f = failure ELSE Holds(entries, f, b)
<1> DEFINE kept == Released(range, failure).kept
           tags == Released(range, failure).tagged
           at == Position(kept, failure)
<1>1. range \in AnyRange /\ range.start < range.end /\ range.start \in Nat
  BY RangeFacts DEF TaintRange
<1>2. /\ kept \in Seq(Entries) /\ tags \in [FailureIds -> Int] /\ WellFormed(kept)
      /\ \A f \in FailureIds, b \in Nat :
           Holds(kept, f, b) <=> (Holds(entries, f, b) /\ (f = failure \/ ~In(b, range)))
      /\ TaggedOnce(kept, tags)
  BY <1>1, ReleasedFacts DEF Inv, RetainStates
<1>3. /\ entries' = IF at # 0 THEN [kept EXCEPT ![at].ranges = Add(kept[at].ranges, range)]
                    ELSE Append(kept, [failure |-> failure, ranges |-> <<range>>])
      /\ tagged' = IF at # 0 THEN tags ELSE [tags EXCEPT ![failure] = tags[failure] + 1]
  BY DEF TaintRange
<1> HIDE DEF kept, tags
<1>4. CASE at = 0 /\ ~Has(kept, failure)
  <2> DEFINE one == <<range>>
             e == [failure |-> failure, ranges |-> one]
  <2>1. one \in Lists /\ Len(one) = 1 /\ one[1] = range /\ one # <<>>
    BY <1>1 DEF Lists
  <2> HIDE DEF one
  <2>2. Normal(one) /\ \A b : InList(b, one) <=> In(b, range)
    BY <1>1, <2>1 DEF Normal, InList
  <2>3. e \in Entries /\ e.failure = failure /\ e.ranges = one
    BY <2>1 DEF Entries
  <2>4. entries' = Append(kept, e) /\ tagged' = [tags EXCEPT ![failure] = tags[failure] + 1]
    BY <1>3, <1>4 DEF one
  <2> HIDE DEF e
  <2>5. /\ entries' \in Seq(Entries) /\ WellFormed(entries')
        /\ \A f : Has(entries', f) <=> (Has(kept, f) \/ f = failure)
        /\ \A f, b : Holds(entries', f, b) <=> (Holds(kept, f, b) \/ (f = failure /\ In(b, range)))
    BY <1>2, <1>4, <2>1, <2>2, <2>3, <2>4, AppendClaim
  <2>6. tagged' \in [FailureIds -> Int] /\ TaggedOnce(entries', tagged')
    BY <1>2, <1>4, <2>4, <2>5 DEF TaggedOnce
  <2> QED
    BY <1>2, <2>5, <2>6 DEF Inv, Disjoint
<1>5. CASE at \in 1 .. Len(kept) /\ kept[at].failure = failure
  <2> DEFINE old == kept[at].ranges
             ranges == Add(old, range)
  <2>1. old \in Lists /\ Normal(old)
    <3>1. kept[at] \in Entries
      BY <1>2, <1>5
    <3>2. Normal(kept[at].ranges)
      BY <1>2, <1>5, Zenon DEF WellFormed
    <3> QED
      BY <3>1, <3>2 DEF Entries
  <2>2. /\ ranges \in Lists /\ Normal(ranges)
        /\ \A b \in Nat : InList(b, ranges) <=> (InList(b, old) \/ In(b, range))
    BY <1>1, <2>1, AddFacts
  <2>3. ranges # <<>>
    <3>1. InList(range.start, ranges)
      BY <1>1, <2>2 DEF In, AnyRange
    <3> HIDE DEF ranges
    <3> QED
      BY <3>1 DEF InList
  <2>4. entries' = [kept EXCEPT ![at].ranges = ranges] /\ tagged' = tags
    BY <1>3, <1>5
  <2> HIDE DEF ranges, old, at
  <2>5. /\ entries' \in Seq(Entries) /\ WellFormed(entries')
        /\ \A f : Has(entries', f) <=> Has(kept, f)
        /\ \A f, b : Holds(entries', f, b) <=> IF f = failure THEN InList(b, ranges) ELSE Holds(kept, f, b)
        /\ \A b : Holds(kept, failure, b) <=> InList(b, old)
    BY <1>2, <1>5, <2>2, <2>3, <2>4, ReplaceClaim DEF old
  <2>6. tagged' \in [FailureIds -> Int] /\ TaggedOnce(entries', tagged')
    BY <1>2, <2>4, <2>5 DEF TaggedOnce
  <2>7. \A f \in FailureIds, b \in Nat :
          Holds(entries', f, b) <=> IF In(b, range) THEN f = failure ELSE Holds(entries, f, b)
    BY <1>2, <2>2, <2>5
  <2> QED
    BY <2>5, <2>6, <2>7 DEF Inv, Disjoint
<1> QED
  BY <1>2, <1>4, <1>5, PositionFacts

LEMMA WrittenStep ==
  ASSUME Inv, NEW range \in Ranges, Written(range)
  PROVE  /\ Inv'
         /\ \A f \in FailureIds, b \in Nat : Holds(entries', f, b) <=> (Holds(entries, f, b) /\ ~In(b, range))
<1> DEFINE kept == Released(range, NoFailure).kept
           tags == Released(range, NoFailure).tagged
<1>1. range \in AnyRange
  BY RangeFacts
<1>2. /\ kept \in Seq(Entries) /\ tags \in [FailureIds -> Int] /\ WellFormed(kept)
      /\ \A f \in FailureIds, b \in Nat :
           Holds(kept, f, b) <=> (Holds(entries, f, b) /\ (f = NoFailure \/ ~In(b, range)))
      /\ TaggedOnce(kept, tags)
  BY <1>1, ReleasedFacts DEF Inv, RetainStates
<1>3. entries' = kept /\ tagged' = tags
  BY DEF Written
<1>4. \A f \in FailureIds : f # NoFailure
  BY TaintAssumption
<1> HIDE DEF kept, tags
<1> QED
  BY <1>2, <1>3, <1>4 DEF Inv, Disjoint

LEMMA ClearStep ==
  ASSUME Inv, Clear
  PROVE  Inv' /\ \A f, b : ~Holds(entries', f, b)
<1> DEFINE Of(f) == {i \in DOMAIN entries : entries[i].failure = f}
<1>1. entries' = <<>> /\ tagged' = [f \in FailureIds |-> tagged[f] - Cardinality(Of(f))]
  BY DEF Clear
<1>2. \A f : ~Has(entries', f) /\ \A b : ~Holds(entries', f, b)
  <2>1. Len(entries') = 0
    BY <1>1
  <2> QED
    BY <2>1 DEF Has, Holds
<1>3. WellFormed(entries') /\ entries' \in Seq(Entries)
  <2>1. Len(entries') = 0
    BY <1>1
  <2> QED
    BY <1>1, <2>1 DEF WellFormed
<1>4. ASSUME NEW f \in FailureIds PROVE tagged[f] - Cardinality(Of(f)) = 0
  <2>1. DOMAIN entries = 1 .. Len(entries)
    BY DEF Inv
  <2>2. CASE Has(entries, f)
    <3>1. PICK i \in 1 .. Len(entries) : entries[i].failure = f
      BY <2>2 DEF Has
    <3>2. Of(f) = {i}
      BY <2>1, <3>1 DEF Inv, WellFormed
    <3>3. Cardinality(Of(f)) = 1
      <4> HIDE DEF Of
      <4> QED
        BY <3>2, FS_Singleton
    <3> QED
      BY <2>2, <3>3 DEF Inv, TaggedOnce
  <2>3. CASE ~Has(entries, f)
    <3>1. Of(f) = {}
      BY <2>1, <2>3 DEF Has
    <3>2. Cardinality(Of(f)) = 0
      <4> HIDE DEF Of
      <4> QED
        BY <3>1, FS_EmptySet
    <3> QED
      BY <2>3, <3>2 DEF Inv, TaggedOnce
  <2> QED
    BY <2>2, <2>3
<1>5. tagged' \in [FailureIds -> Int] /\ TaggedOnce(entries', tagged')
  BY <1>1, <1>2, <1>4 DEF TaggedOnce
<1> QED
  BY <1>2, <1>3, <1>5 DEF Inv, Disjoint

LEMMA InvInit == Init => Inv
<1> SUFFICES ASSUME Init PROVE Inv
  OBVIOUS
<1>1. entries = <<>> /\ Len(entries) = 0 /\ tagged = [f \in FailureIds |-> 0]
  BY DEF Init
<1>2. \A f : ~Has(entries, f) /\ \A b : ~Holds(entries, f, b)
  BY <1>1 DEF Has, Holds
<1>3. WellFormed(entries) /\ entries \in Seq(Entries) /\ tagged \in [FailureIds -> Int]
  BY <1>1 DEF WellFormed
<1>4. TaggedOnce(entries, tagged)
  BY <1>1, <1>2 DEF TaggedOnce
<1>5. Disjoint(entries)
  BY <1>2 DEF Disjoint
<1> QED
  BY <1>3, <1>4, <1>5 DEF Inv

LEMMA InvStep == Inv /\ [Next]_vars => Inv'
<1> SUFFICES ASSUME Inv, [Next]_vars PROVE Inv'
  OBVIOUS
<1>1. ASSUME NEW range \in Ranges, NEW failure \in FailureIds, TaintRange(range, failure) PROVE Inv'
  BY <1>1, TaintStep
<1>2. ASSUME NEW range \in Ranges, Written(range) PROVE Inv'
  BY <1>2, WrittenStep
<1>3. CASE Clear
  BY <1>3, ClearStep
<1>4. CASE UNCHANGED vars
  BY <1>4 DEF vars, Inv
<1> QED
  BY <1>1, <1>2, <1>3, <1>4 DEF Next

LEMMA InvHolds == Spec => []Inv
BY InvInit, InvStep, PTL DEF Spec

-----------------------------------------------------------------------------
(* Reads *)

LEMMA EntryAt ==
  ASSUME NEW list \in Seq(Entries), NEW i \in 1 .. Len(list)
  PROVE  list[i] \in Entries /\ list[i].failure \in FailureIds
<1>1. list[i] \in Entries
  OBVIOUS
<1> QED
  BY <1>1 DEF Entries

LEMMA CoveredFacts ==
  ASSUME NEW e \in Entries, NEW b \in Int
  PROVE  b \in Covered(e) <=> (b \in Nat /\ InList(b, e.ranges))
<1>1. /\ e.ranges \in Seq(AnyRange) /\ DOMAIN e.ranges = 1 .. Len(e.ranges)
      /\ \A i \in 1 .. Len(e.ranges) : e.ranges[i] \in AnyRange
  BY DEF Entries, Lists
<1>2. \A r \in AnyRange : b \in r.start .. r.end - 1 <=> (b \in Nat /\ In(b, r))
  BY DEF AnyRange, In
<1>3. b \in Covered(e) <=> \E i \in 1 .. Len(e.ranges) : b \in e.ranges[i].start .. e.ranges[i].end - 1
  BY <1>1 DEF Covered
<1> QED
  BY <1>1, <1>2, <1>3 DEF InList

\* The claim on a byte, for any list of claims.
FirstClaim(list, b) ==
  LET at == FirstIndex(list, LAMBDA e : b \in Covered(e))
  IN  IF at = 0 THEN NoFailure ELSE list[at].failure

LEMMA FirstClaimFacts ==
  ASSUME NEW list \in Seq(Entries), Disjoint(list), NEW b \in Nat
  PROVE  /\ FirstClaim(list, b) \in FailureIds \cup {NoFailure}
         /\ \A f \in FailureIds : FirstClaim(list, b) = f <=> Holds(list, f, b)
<1> DEFINE T == {i \in 1 .. Len(list) : b \in Covered(list[i])}
           at == IF T # {} THEN Min(T) ELSE 0
<1>1. FirstClaim(list, b) = IF at = 0 THEN NoFailure ELSE list[at].failure
  BY DEF FirstClaim, FirstIndex
<1>2. \A i \in 1 .. Len(list) : list[i] \in Entries /\ list[i].failure \in FailureIds
  BY EntryAt
<1>3. \A i \in 1 .. Len(list) : i \in T <=> InList(b, list[i].ranges)
  BY <1>2, CoveredFacts
<1>4. T \subseteq Nat /\ T \subseteq 1 .. Len(list)
  OBVIOUS
<1> HIDE DEF T
<1>5. CASE T = {}
  <2>1. FirstClaim(list, b) = NoFailure
    BY <1>1, <1>5
  <2>2. \A f : ~Holds(list, f, b)
    BY <1>3, <1>5 DEF Holds
  <2> QED
    BY <2>1, <2>2, TaintAssumption
<1>6. CASE T # {}
  <2>1. at = Min(T) /\ at \in T /\ at \in 1 .. Len(list)
    BY <1>4, <1>6, MinIsLeast
  <2>2. FirstClaim(list, b) = list[at].failure
    BY <1>1, <2>1
  <2> HIDE DEF at
  <2>3. list[at].failure \in FailureIds /\ Holds(list, list[at].failure, b)
    BY <1>2, <1>3, <2>1 DEF Holds
  <2> QED
    BY <2>2, <2>3 DEF Disjoint
<1> QED
  BY <1>5, <1>6

LEMMA ClaimOnFacts ==
  ASSUME Inv, NEW b \in Nat
  PROVE  /\ ClaimOn(b) \in FailureIds \cup {NoFailure}
         /\ \A f \in FailureIds : ClaimOn(b) = f <=> Holds(entries, f, b)
<1>1. ClaimOn(b) = FirstClaim(entries, b)
  BY DEF ClaimOn, FirstClaim
<1>2. entries \in Seq(Entries) /\ Disjoint(entries)
  BY DEF Inv
<1> QED
  BY <1>1, <1>2, FirstClaimFacts

\* Two ranges overlap exactly when they have a byte in common.
LEMMA OverlapsFacts ==
  ASSUME NEW r \in AnyRange, NEW s \in AnyRange
  PROVE  Overlaps(r, s) <=> \E b \in s.start .. s.end - 1 : b \in Nat /\ In(b, r)
<1>1. ASSUME Overlaps(r, s) PROVE \E b \in s.start .. s.end - 1 : b \in Nat /\ In(b, r)
  <2> DEFINE b == Greatest(r.start, s.start)
  <2>1. b \in s.start .. s.end - 1 /\ b \in Nat /\ In(b, r)
    BY <1>1 DEF AnyRange, Overlaps, Greatest, Least, In
  <2> QED
    BY <2>1
<1>2. ASSUME NEW b \in s.start .. s.end - 1, In(b, r) PROVE Overlaps(r, s)
  BY <1>2 DEF AnyRange, Overlaps, Greatest, Least, In
<1> QED
  BY <1>1, <1>2

LEMMA ReadsExact ==
  ASSUME Inv
  PROVE  ReadsSeeClaims
<1> SUFFICES ASSUME NEW range \in Ranges
             PROVE  LET claimants == {ClaimOn(b) : b \in range.start .. range.end - 1} \ {NoFailure}
                    IN  IF claimants = {} THEN FailureOf(range) = NoFailure
                                          ELSE FailureOf(range) \in claimants
  BY DEF ReadsSeeClaims
<1> DEFINE claimants == {ClaimOn(b) : b \in range.start .. range.end - 1} \ {NoFailure}
           Hit(e) == \E i \in DOMAIN e.ranges : Overlaps(e.ranges[i], range)
           T == {i \in 1 .. Len(entries) : Hit(entries[i])}
           at == IF T # {} THEN Min(T) ELSE 0
<1>1. FailureOf(range) = IF at = 0 THEN NoFailure ELSE entries[at].failure
  BY DEF FailureOf, FirstIndex
<1>2. range \in AnyRange /\ \A b \in range.start .. range.end - 1 : b \in Nat
  BY RangeFacts
<1>3. \A i \in 1 .. Len(entries) : entries[i] \in Entries /\ entries[i].failure \in FailureIds
  <2>1. entries \in Seq(Entries)
    BY DEF Inv
  <2> QED
    BY <2>1, EntryAt
<1>4. ASSUME NEW e \in Entries
      PROVE  Hit(e) <=> \E b \in range.start .. range.end - 1 : InList(b, e.ranges)
  <2>1. /\ DOMAIN e.ranges = 1 .. Len(e.ranges)
        /\ \A i \in 1 .. Len(e.ranges) : e.ranges[i] \in AnyRange
    BY DEF Entries, Lists
  <2>2. \A i \in 1 .. Len(e.ranges) :
          Overlaps(e.ranges[i], range) <=> \E b \in range.start .. range.end - 1 : In(b, e.ranges[i])
    BY <1>2, <2>1, OverlapsFacts
  <2> QED
    BY <2>1, <2>2 DEF InList
<1>5. \A i \in 1 .. Len(entries) :
        i \in T <=> \E b \in range.start .. range.end - 1 : InList(b, entries[i].ranges)
  BY <1>3, <1>4
<1>6. T \subseteq Nat /\ T \subseteq 1 .. Len(entries)
  OBVIOUS
<1>7. \A b \in range.start .. range.end - 1, f \in FailureIds : ClaimOn(b) = f <=> Holds(entries, f, b)
  BY <1>2, ClaimOnFacts
<1>8. \A b \in range.start .. range.end - 1 : ClaimOn(b) \in FailureIds \cup {NoFailure}
  BY <1>2, ClaimOnFacts
<1> HIDE DEF T, Hit
<1>9. CASE T = {}
  <2>1. \A b \in range.start .. range.end - 1, f \in FailureIds : ~Holds(entries, f, b)
    BY <1>5, <1>9 DEF Holds
  <2>2. claimants = {}
    BY <1>7, <1>8, <2>1
  <2>3. FailureOf(range) = NoFailure
    BY <1>1, <1>9
  <2> QED
    BY <2>2, <2>3
<1>10. CASE T # {}
  <2>1. at \in T /\ at \in 1 .. Len(entries) /\ at # 0
    <3>1. Min(T) \in T
      BY <1>6, <1>10, MinIsLeast
    <3>2. at = Min(T)
      BY <1>10
    <3> HIDE DEF at
    <3>3. at \in T /\ at \in 1 .. Len(entries)
      BY <1>6, <3>1, <3>2, Zenon
    <3>4. \A i \in 1 .. Len(entries) : i # 0
      OBVIOUS
    <3> QED
      BY <3>3, <3>4, Zenon
  <2>2. FailureOf(range) = entries[at].failure
    BY <1>1, <2>1
  <2> HIDE DEF at
  <2>3. PICK b \in range.start .. range.end - 1 : InList(b, entries[at].ranges)
    BY <1>5, <2>1
  <2>4. Holds(entries, entries[at].failure, b)
    BY <2>1, <2>3 DEF Holds
  <2>5. ClaimOn(b) = entries[at].failure /\ entries[at].failure # NoFailure
    <3>1. entries[at].failure \in FailureIds
      BY <1>3, <2>1
    <3> QED
      BY <1>7, <2>4, <3>1, TaintAssumption
  <2>6. FailureOf(range) \in claimants
    BY <2>2, <2>5
  <2> QED
    BY <2>6
<1> QED
  BY <1>9, <1>10

-----------------------------------------------------------------------------

LEMMA NormalClaims ==
  ASSUME Inv
  PROVE  NormalForm
<1>1. entries \in Seq(Entries) /\ DOMAIN entries = 1 .. Len(entries)
  BY DEF Inv
<1>2. ASSUME NEW i \in DOMAIN entries
      PROVE  LET ranges == entries[i].ranges
             IN  /\ ranges # <<>>
                 /\ \A j \in DOMAIN ranges : ~IsEmpty(ranges[j])
                 /\ \A j, k \in DOMAIN ranges : j < k => ranges[j].end < ranges[k].start
  <2> DEFINE ranges == entries[i].ranges
  <2>1. ranges # <<>> /\ Normal(ranges)
    BY <1>1 DEF Inv, WellFormed
  <2>2. entries[i] \in Entries
    BY <1>1, EntryAt
  <2>3. DOMAIN ranges = 1 .. Len(ranges) /\ \A j \in 1 .. Len(ranges) : ranges[j] \in AnyRange
    BY <2>2 DEF Entries, Lists
  <2> HIDE DEF ranges
  <2>4. \A r \in AnyRange : r.start < r.end => ~IsEmpty(r)
    BY DEF AnyRange, IsEmpty
  <2>5. \A j \in DOMAIN ranges : ~IsEmpty(ranges[j])
    BY <2>1, <2>3, <2>4 DEF Normal
  <2>6. \A j, k \in DOMAIN ranges : j < k => ranges[j].end < ranges[k].start
    BY <2>1, <2>3 DEF Normal
  <2> QED
    BY <2>1, <2>5, <2>6 DEF ranges
<1>3. ASSUME NEW i \in DOMAIN entries, NEW j \in DOMAIN entries, i # j
      PROVE  /\ entries[i].failure # entries[j].failure
             /\ Covered(entries[i]) \cap Covered(entries[j]) = {}
  <2>1. entries[i].failure # entries[j].failure
    BY <1>1, <1>3 DEF Inv, WellFormed
  <2>2. /\ entries[i] \in Entries /\ entries[i].failure \in FailureIds
        /\ entries[j] \in Entries /\ entries[j].failure \in FailureIds
    BY <1>1, EntryAt
  <2>3. ASSUME NEW b \in Covered(entries[i]), b \in Covered(entries[j]) PROVE FALSE
    <3>1. b \in Int
      <4>1. \A k \in DOMAIN entries[i].ranges :
              entries[i].ranges[k].start .. entries[i].ranges[k].end - 1 \subseteq Int
        OBVIOUS
      <4> QED
        BY <4>1 DEF Covered
    <3>2. b \in Nat /\ InList(b, entries[i].ranges) /\ InList(b, entries[j].ranges)
      BY <2>2, <2>3, <3>1, CoveredFacts
    <3>3. Holds(entries, entries[i].failure, b) /\ Holds(entries, entries[j].failure, b)
      BY <1>1, <3>2 DEF Holds
    <3> QED
      BY <2>1, <2>2, <3>2, <3>3 DEF Inv, Disjoint
  <2> QED
    BY <2>1, <2>3
<1> QED
  BY <1>2, <1>3, Zenon DEF NormalForm

LEMMA TagsHold ==
  ASSUME Inv
  PROVE  OneTagPerClaim
<1>1. DOMAIN entries = 1 .. Len(entries)
  BY DEF Inv
<1> QED
  BY <1>1 DEF Inv, TaggedOnce, Has, OneTagPerClaim

\* Through every split of `subtract` and every fusion of `add` the lists of
\* claims stay sorted and disjoint, each claim holds one tag, and `failure`
\* reports a range exactly when a byte of it is claimed: for an allocation of
\* any size and any set of failures.
THEOREM ClaimsHold == Spec => []ClaimsInv
<1>1. Inv => ClaimsInv
  BY NormalClaims, TagsHold, ReadsExact DEF ClaimsInv
<1> QED
  BY <1>1, InvHolds, PTL

LEMMA ClaimOnList ==
  ASSUME NEW b
  PROVE  ClaimOn(b) = FirstClaim(entries, b) /\ ClaimOn(b)' = FirstClaim(entries', b)
BY Zenon DEF ClaimOn, FirstClaim, FirstIndex, Covered

\* The claim on every byte after a step, from what the step does to the claims.
LEMMA ClaimAfter ==
  ASSUME Inv', NEW b \in Nat
  PROVE  /\ ClaimOn(b)' \in FailureIds \cup {NoFailure}
         /\ \A f \in FailureIds : ClaimOn(b)' = f <=> Holds(entries', f, b)
<1>1. ClaimOn(b)' = FirstClaim(entries', b)
  BY ClaimOnList
<1>2. entries' \in Seq(Entries) /\ Disjoint(entries')
  BY DEF Inv
<1> QED
  BY <1>1, <1>2, FirstClaimFacts

LEMMA StepImplements ==
  ASSUME Inv, Inv', [Next]_vars
  PROVE  [Claims!ClaimNext]_([b \in 0 .. Size - 1 |-> ClaimOn(b)])
<1> DEFINE Bytes == 0 .. Size - 1
           claim == [b \in Bytes |-> ClaimOn(b)]
<1>1. \A b \in Bytes : b \in Nat
  OBVIOUS
<1>2. claim' = [b \in Bytes |-> ClaimOn(b)']
  OBVIOUS
<1>3. Claims!Bytes = Bytes /\ Claims!Ranges = Ranges
  BY DEF Claims!Bytes, Claims!Ranges, Ranges
<1>4. ASSUME NEW range \in Ranges, NEW b \in Nat
      PROVE  b \in Claims!Within(range) <=> In(b, range)
  BY <1>4, RangeFacts DEF Claims!Within, In
<1>5. ASSUME NEW range \in Ranges, NEW failure \in FailureIds, TaintRange(range, failure)
      PROVE  Claims!ClaimNext
  <2>1. \A f \in FailureIds, b \in Nat :
          Holds(entries', f, b) <=> IF In(b, range) THEN f = failure ELSE Holds(entries, f, b)
    BY <1>5, TaintStep
  <2>2. ASSUME NEW b \in Bytes
        PROVE  ClaimOn(b)' = IF b \in Claims!Within(range) THEN failure ELSE ClaimOn(b)
    <3>1. b \in Nat
      BY <1>1
    <3> QED
      BY <1>4, <2>1, <3>1, ClaimAfter, ClaimOnFacts
  <2>3. Claims!SetLastWriter(range, failure)
    BY <1>2, <1>3, <2>2 DEF Claims!SetLastWriter
  <2> QED
    BY <1>3, <2>3 DEF Claims!ClaimNext, Claims!ClaimTaint
<1>6. ASSUME NEW range \in Ranges, Written(range) PROVE Claims!ClaimNext
  <2>1. \A f \in FailureIds, b \in Nat : Holds(entries', f, b) <=> (Holds(entries, f, b) /\ ~In(b, range))
    BY <1>6, WrittenStep
  <2>2. ASSUME NEW b \in Bytes
        PROVE  ClaimOn(b)' = IF b \in Claims!Within(range) THEN NoFailure ELSE ClaimOn(b)
    <3>1. b \in Nat
      BY <1>1
    <3> QED
      BY <1>4, <2>1, <3>1, ClaimAfter, ClaimOnFacts
  <2>3. Claims!SetLastWriter(range, NoFailure)
    BY <1>2, <1>3, <2>2 DEF Claims!SetLastWriter
  <2> QED
    BY <1>3, <2>3 DEF Claims!ClaimNext, Claims!ClaimWritten
<1>7. CASE Clear
  <2>1. \A f, b : ~Holds(entries', f, b)
    BY <1>7, ClearStep
  <2>2. \A b \in Bytes : ClaimOn(b)' = NoFailure
    BY <1>1, <2>1, ClaimAfter
  <2> QED
    BY <1>2, <1>3, <2>2 DEF Claims!ClaimNext, Claims!ClaimClear
<1>8. CASE UNCHANGED vars
  <2>1. \A b \in Bytes : ClaimOn(b)' = ClaimOn(b)
    BY <1>8, ClaimOnList DEF vars
  <2> QED
    BY <1>2, <2>1
<1> QED
  BY <1>5, <1>6, <1>7, <1>8 DEF Next

\* The lists of ranges implement one claim for each byte: `taint` sets the last
\* writer of exactly the bytes of its range, `written` and `clear` remove it,
\* and no step touches any other byte.
THEOREM TaintImplements == Spec => ImplementsByteClaims
<1>1. Init => Claims!ClaimInit
  <2> SUFFICES ASSUME Init PROVE Claims!ClaimInit
    OBVIOUS
  <2>1. Inv /\ \A f, b : ~Holds(entries, f, b)
    <3>1. Len(entries) = 0
      BY DEF Init
    <3> QED
      BY <3>1, InvInit DEF Holds
  <2>2. \A b \in 0 .. Size - 1 : ClaimOn(b) = NoFailure
    <3>1. \A b \in 0 .. Size - 1 : b \in Nat
      OBVIOUS
    <3> QED
      BY <2>1, <3>1, ClaimOnFacts
  <2> QED
    BY <2>2 DEF Claims!ClaimInit, Claims!Bytes
<1>2. Inv /\ Inv' /\ [Next]_vars => [Claims!ClaimNext]_([b \in 0 .. Size - 1 |-> ClaimOn(b)])
  BY StepImplements
<1> QED
  BY <1>1, <1>2, InvHolds, PTL DEF Spec, ImplementsByteClaims, Claims!ClaimSpec
=============================================================================
