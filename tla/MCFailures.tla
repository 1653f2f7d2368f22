----------------------------- MODULE MCFailures ------------------------------
(***************************************************************************)
(* Instances of Failures for TLC.                                           *)
(***************************************************************************)
EXTENDS Failures, TLC

CONSTANTS m1, m2, m3

MCPair == {m1, m2}

MCBytes == {0, 1}

\* Half the allocation, or all of it.
MCHalves == {{0}, {0, 1}}

MCByte == {0}

\* Nothing, or all of it.
MCWhole == {{}, {0}}

Symmetric == Permutations(Memory)
=============================================================================
