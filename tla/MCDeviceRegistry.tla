--------------------------- MODULE MCDeviceRegistry ---------------------------
(***************************************************************************)
(* Instances of DeviceRegistry: a device with one or both of its stages, and *)
(* one or two services.                                                     *)
(***************************************************************************)
EXTENDS DeviceRegistry, TLC

CONSTANTS t1, t2, r1, r2, s1, s2, d1

MCThreads == {t1, t2}
MCThread == {t1}
MCRunners == {r1, r2}
MCRunner == {r1}
MCServices == {s1, s2}
MCService == {s1}
MCOneDevice == [r \in MCRunners |-> d1]
MCDevice == [r \in MCRunner |-> d1]

Symmetric == Permutations(Program)
=============================================================================
