--------------------------- MODULE EnvironmentStore ---------------------------
(***************************************************************************)
(* Environments and a lazy store bound to the active one                    *)
(* (cubecl-environment, environment.rs and persistence/).                   *)
(*                                                                         *)
(* Each environment has a durable storage that other processes and bundle   *)
(* imports write too. A store samples the generation, then opens the        *)
(* storage of the environment that is active by then; a switch can land     *)
(* between any two of its steps. The set `known` of the store only words    *)
(* the log of a conflict and is left out.                                   *)
(***************************************************************************)
EXTENDS Integers

CONSTANTS
  Envs, Default,    \* environments, and the one a process starts in
  StoreKeys,        \* keys of the namespace
  Values,           \* values this process computes
  ForeignValues,    \* values others write
  Corrupt,          \* bytes that do not decode
  Absent,
  MaxSwitch,        \* bound: switches of one process
  MaxForeign        \* bound: writes by others

ASSUME StoreAssumption ==
  Default \in Envs /\ Corrupt \notin Values /\ MaxSwitch \in Nat /\ MaxForeign \in Nat

VARIABLES
  active, generation,   \* ACTIVE and GENERATION
  storage,              \* [Envs -> [StoreKeys -> entry]], durable
  storeGen, storeEnv,   \* the store: its generation, and whose storage it has open
  foreign               \* writes of others so far

envVars == <<active, generation>>
storeVars == <<storeGen, storeEnv>>
durable == <<storage, foreign>>

Origins == {"local", "imported"}
Entries == [value : Values \cup ForeignValues, origin : Origins]

\* activate, set_root, load: the location and the generation change under one
\* lock.
Switch(e) ==
  /\ generation < MaxSwitch
  /\ active' = e
  /\ generation' = generation + 1
  /\ UNCHANGED <<storage, storeGen, storeEnv, foreign>>

\* replaces: a local value replaces an imported one, nothing else is replaced.
MutantAlwaysReplaces(incoming, existing) == incoming = "local"

Replaces(incoming, existing) == incoming = "local" /\ existing = "imported"

\* Storage::insert: the check and the write are one statement. Conflicts leave
\* the row as it is.
Declined(e, k, origin) == storage[e][k] # Absent /\ ~Replaces(origin, storage[e][k].origin)

Insert(e, k, v, origin) ==
  storage' = IF Declined(e, k, origin) THEN storage
             ELSE [storage EXCEPT ![e][k] = [value |-> v, origin |-> origin]]

\* Storage::replace, write_through's repair of a row that did not decode.
Replace(e, k, v) == storage' = [storage EXCEPT ![e][k] = [value |-> v, origin |-> "local"]]

Undecodable(e, k) == storage[e][k] # Absent /\ storage[e][k].value = Corrupt

\* Another process on the same root, perhaps of another version whose values
\* this one cannot decode, or the import of a bundle.
ForeignInsert(e, k, v, origin) ==
  /\ foreign < MaxForeign
  /\ foreign' = foreign + 1
  /\ Insert(e, k, v, origin)
  /\ UNCHANGED <<envVars, storeVars>>

Stale == storeGen # generation

\* reset_if_stale, and Store::new: the generation first, the storage second.
SampleGeneration == storeGen' = generation /\ UNCHANGED storeEnv

OpenStorage == storeEnv' = active /\ UNCHANGED storeGen

\* scan: the entries that decode.
Scanned == {k \in StoreKeys : storage[storeEnv][k] # Absent /\ storage[storeEnv][k].value # Corrupt}

StoreTypeOK ==
  /\ active \in Envs /\ generation \in 0 .. MaxSwitch
  /\ \A e \in Envs, k \in StoreKeys : storage[e][k] \in Entries \cup {Absent}
  /\ storeGen \in 0 .. MaxSwitch /\ storeEnv \in Envs
  /\ foreign \in 0 .. MaxForeign
=============================================================================
