----------------------------- MODULE ByteClaims -----------------------------
(***************************************************************************)
(* What the tainted regions of one allocation promise, without any list of  *)
(* ranges: every byte has at most one claim, the failure of the last work   *)
(* that was going to write it and did not.                                  *)
(***************************************************************************)
EXTENDS Integers

CONSTANTS
  Size,         \* bytes of the allocation
  FailureIds,   \* failures that can claim its bytes
  NoFailure     \* a byte nothing claims

Bytes == 0 .. Size - 1

\* A Range<u64> of bytes of the allocation, the empty ones included.
Ranges == {r \in [start : 0 .. Size, end : 0 .. Size] : r.start <= r.end}

Within(r) == r.start .. r.end - 1

VARIABLE claim

ClaimTypeOK == claim \in [Bytes -> FailureIds \cup {NoFailure}]

ClaimInit == claim = [i \in Bytes |-> NoFailure]

\* The last writer of the bytes is now whoever `by` names.
SetLastWriter(r, by) ==
  claim' = [i \in Bytes |-> IF i \in Within(r) THEN by ELSE claim[i]]

ClaimTaint == \E r \in Ranges, f \in FailureIds : SetLastWriter(r, f)

ClaimWritten == \E r \in Ranges : SetLastWriter(r, NoFailure)

ClaimClear == claim' = [i \in Bytes |-> NoFailure]

ClaimNext == ClaimTaint \/ ClaimWritten \/ ClaimClear

ClaimSpec == ClaimInit /\ [][ClaimNext]_claim
=============================================================================
