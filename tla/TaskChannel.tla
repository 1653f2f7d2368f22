----------------------------- MODULE TaskChannel -----------------------------
(***************************************************************************)
(* What the task channel of a device promises its callers: closures of one *)
(* client run in the order it sent them, each of them exactly once, and    *)
(* the runner stops only when everything sent has run.  DeviceChannel      *)
(* implements it.                                                          *)
(***************************************************************************)
EXTENDS Integers

CONSTANT Clients

VARIABLES
  issued,   \* closures sent so far, per client
  ran,      \* closures run so far, per client
  stopped   \* the runner thread exited

vars == <<issued, ran, stopped>>

Init ==
  /\ issued = [c \in Clients |-> 0]
  /\ ran = [c \in Clients |-> 0]
  /\ stopped = FALSE

Send(c) ==
  /\ ~stopped
  /\ issued' = [issued EXCEPT ![c] = @ + 1]
  /\ UNCHANGED <<ran, stopped>>

Run(c) ==
  /\ ~stopped
  /\ ran[c] < issued[c]
  /\ ran' = [ran EXCEPT ![c] = @ + 1]
  /\ UNCHANGED <<issued, stopped>>

Stop ==
  /\ ~stopped
  /\ ran = issued
  /\ stopped' = TRUE
  /\ UNCHANGED <<issued, ran>>

Next == Stop \/ \E c \in Clients : Send(c) \/ Run(c)

Spec == Init /\ [][Next]_vars

=============================================================================
