-------------------------------- MODULE Taint --------------------------------
(***************************************************************************)
(* The tainted regions of one allocation, as cubecl-server keeps them       *)
(* (memory_management/taint.rs): a list of claims, one for each failure,    *)
(* each a sorted list of byte ranges, and the tag each claim holds on the   *)
(* node of its failure.                                                     *)
(***************************************************************************)
EXTENDS Integers, Sequences, FiniteSetsExt

CONSTANTS
  Size,         \* bytes of the allocation
  FailureIds,   \* failures that can claim its bytes
  NoFailure

ASSUME TaintAssumption == Size \in Nat /\ NoFailure \notin FailureIds

VARIABLES
  entries,      \* Taint::entries: sequence of [failure, ranges]
  tagged        \* what this allocation contributes to each node's count

vars == <<entries, tagged>>

\* Every range a binding of the allocation can cover, the empty ones included.
Ranges == {r \in [start : 0 .. Size, end : 0 .. Size] : r.start <= r.end}

Span(from, to) == [start |-> from, end |-> to]

IsEmpty(r) == r.start >= r.end

Least(a, b) == IF a <= b THEN a ELSE b

Greatest(a, b) == IF a >= b THEN a ELSE b

\* An empty range overlaps nothing.
Overlaps(a, b) == Greatest(a.start, b.start) < Least(a.end, b.end)

NonEmpty(range) == IF IsEmpty(range) THEN <<>> ELSE <<range>>

\* What is left of one held range: the part before the cut and the part after.
MutantLeftOnly(held, cut) ==
  IF ~Overlaps(held, cut) THEN <<held>>
  ELSE NonEmpty(Span(held.start, Least(cut.start, held.end)))

Remainder(held, cut) ==
  IF ~Overlaps(held, cut) THEN <<held>>
  ELSE NonEmpty(Span(held.start, Least(cut.start, held.end)))
         \o NonEmpty(Span(Greatest(cut.end, held.start), held.end))

\* The list is walked once, each range replaced by what is left of it.
Subtract(ranges, cut) ==
  LET walk[n \in 0 .. Len(ranges)] ==
        IF n = 0 THEN <<>> ELSE walk[n - 1] \o Remainder(ranges[n], cut)
  IN  walk[Len(ranges)]

\* The first position whose element passes the test, 0 if none does.
FirstIndex(list, Test(_)) ==
  LET hits == {i \in 1 .. Len(list) : Test(list[i])}
  IN  IF hits # {} THEN Min(hits) ELSE 0

\* Touching counts: [0, 10) and [10, 20) fuse into [0, 20).
Fuses(held, new) == held.start <= new.end /\ new.start <= held.end

\* One range of the list: the new one grows over it, or it is kept.
Fuse(acc, held) ==
  IF Fuses(held, acc.new)
  THEN [acc EXCEPT !.new = Span(Least(held.start, acc.new.start), Greatest(held.end, acc.new.end))]
  ELSE [acc EXCEPT !.kept = Append(@, held)]

Fused(ranges, new) ==
  LET walk[n \in 0 .. Len(ranges)] ==
        IF n = 0 THEN [new |-> new, kept |-> <<>>] ELSE Fuse(walk[n - 1], ranges[n])
  IN  walk[Len(ranges)]

Add(ranges, new) ==
  LET fused == Fused(ranges, new)
      after == FirstIndex(fused.kept, LAMBDA held : fused.new.end < held.start)
      at    == IF after = 0 THEN Len(fused.kept) + 1 ELSE after
  IN  SubSeq(fused.kept, 1, at - 1) \o <<fused.new>> \o SubSeq(fused.kept, at, Len(fused.kept))

-----------------------------------------------------------------------------

\* retain_mut on one claim: the bytes of `range` are cut out of it unless it is
\* of `keep`, and with its last byte it goes, and its tag.
Retain(acc, entry, range, keep) ==
  LET left == Subtract(entry.ranges, range)
  IN  IF entry.failure = keep THEN [acc EXCEPT !.kept = Append(@, entry)]
      ELSE IF left = <<>> THEN [acc EXCEPT !.tagged[entry.failure] = @ - 1]
      ELSE [acc EXCEPT !.kept = Append(@, [entry EXCEPT !.ranges = left])]

Released(range, keep) ==
  LET walk[n \in 0 .. Len(entries)] ==
        IF n = 0 THEN [kept |-> <<>>, tagged |-> tagged]
        ELSE Retain(walk[n - 1], entries[n], range, keep)
  IN  walk[Len(entries)]

Position(list, failure) == FirstIndex(list, LAMBDA e : e.failure = failure)

\* Taint::taint with a tag for every call, as if the claim were added to.
MutantTagEveryTaint(range, failure) ==
  LET released == Released(range, failure)
      at == Position(released.kept, failure)
  IN  /\ ~IsEmpty(range)
      /\ entries' =
           IF at # 0 THEN [released.kept EXCEPT ![at].ranges = Add(@, range)]
           ELSE Append(released.kept, [failure |-> failure, ranges |-> <<range>>])
      /\ tagged' = [released.tagged EXCEPT ![failure] = @ + 1]

TaintRange(range, failure) ==
  LET released == Released(range, failure)
      at == Position(released.kept, failure)
  IN  /\ ~IsEmpty(range)
      /\ entries' =
           IF at # 0 THEN [released.kept EXCEPT ![at].ranges = Add(@, range)]
           ELSE Append(released.kept, [failure |-> failure, ranges |-> <<range>>])
      /\ tagged' =
           IF at # 0 THEN released.tagged ELSE [released.tagged EXCEPT ![failure] = @ + 1]

Written(range) ==
  LET released == Released(range, NoFailure)
  IN  /\ ~IsEmpty(range)
      /\ entries' = released.kept
      /\ tagged' = released.tagged

\* One tag less for every claim.
Clear ==
  /\ entries' = <<>>
  /\ tagged' = [f \in FailureIds |->
       tagged[f] - Cardinality({i \in DOMAIN entries : entries[i].failure = f})]

Init ==
  /\ entries = <<>>
  /\ tagged = [f \in FailureIds |-> 0]

Next ==
  \/ \E range \in Ranges, failure \in FailureIds : TaintRange(range, failure)
  \/ \E range \in Ranges : Written(range)
  \/ Clear

Spec == Init /\ [][Next]_vars

-----------------------------------------------------------------------------

\* Taint::failure: the first claim with a byte of the range.
FailureOf(range) ==
  LET at == FirstIndex(entries, LAMBDA e :
              \E i \in DOMAIN e.ranges : Overlaps(e.ranges[i], range))
  IN  IF at = 0 THEN NoFailure ELSE entries[at].failure

\* The bytes one claim covers.
Covered(entry) ==
  UNION {entry.ranges[i].start .. entry.ranges[i].end - 1 : i \in DOMAIN entry.ranges}

\* The claim on one byte, read off the lists.
ClaimOn(byte) ==
  LET at == FirstIndex(entries, LAMBDA e : byte \in Covered(e))
  IN  IF at = 0 THEN NoFailure ELSE entries[at].failure

\* Each list of ranges stays sorted, without an empty range and without two
\* ranges that touch, through every split of `subtract` and every fusion of
\* `add`; no byte is ever in two claims and no failure has two.
NormalForm ==
  /\ \A i \in DOMAIN entries :
       LET ranges == entries[i].ranges
       IN  /\ ranges # <<>>
           /\ \A j \in DOMAIN ranges : ~IsEmpty(ranges[j])
           /\ \A j, k \in DOMAIN ranges : j < k => ranges[j].end < ranges[k].start
  /\ \A i, j \in DOMAIN entries :
       i # j => /\ entries[i].failure # entries[j].failure
                /\ Covered(entries[i]) \cap Covered(entries[j]) = {}

\* The carrier side of the reference count: one tag on a failure's node while
\* that failure claims at least one byte here, none once it claims none,
\* however often it was tainted again, split or cut.
OneTagPerClaim ==
  \A f \in FailureIds :
    tagged[f] = IF \E i \in DOMAIN entries : entries[i].failure = f THEN 1 ELSE 0

\* A read of a range fails exactly when some byte of it is claimed, and names
\* a failure that claims one (Taint::failure).
ReadsSeeClaims ==
  \A range \in Ranges :
    LET claimants == {ClaimOn(b) : b \in range.start .. range.end - 1} \ {NoFailure}
    IN  IF claimants = {} THEN FailureOf(range) = NoFailure
                          ELSE FailureOf(range) \in claimants

\* What splitting and fusing preserve: normal lists, one tag for each claim,
\* exact reads.
ClaimsInv == NormalForm /\ OneTagPerClaim /\ ReadsSeeClaims

Claims == INSTANCE ByteClaims WITH claim <- [b \in 0 .. Size - 1 |-> ClaimOn(b)]

\* The lists of ranges behave as one claim for each byte: a failed write sets
\* it, a write clears it on exactly the bytes it covers, and both leave every
\* other byte alone.
ImplementsByteClaims == Claims!ClaimSpec
=============================================================================
