-------------------------------- MODULE Tuner ---------------------------------
(***************************************************************************)
(* Autotuning (cubecl-runtime, tune/): the cache of one tuner, shared by    *)
(* the threads that execute its operations, over the lazy store of          *)
(* EnvironmentStore.                                                        *)
(*                                                                         *)
(* A process has one list of candidates, which the checksum names; a        *)
(* restart may come with another list. What a cache entry answers is kept   *)
(* as the list it was chosen from and where it came from. Benchmarking is   *)
(* one step that measures, guesses or panics: a single candidate is         *)
(* answered like a guess, in memory only.                                   *)
(***************************************************************************)
EXTENDS EnvironmentStore, FiniteSets

CONSTANTS
  Threads, Keys, Lists,
  MaxRestart    \* bound: restarts of the process

NoThread == "free"

ASSUME TunerAssumption ==
  /\ StoreKeys = Keys \X Lists /\ Keys # {} /\ NoThread \notin Threads
  /\ MaxRestart \in Nat

VARIABLES
  list,         \* the process's list of candidates
  tuner,        \* "none", "new" while TuneCache::new runs, "ready"
  cache,        \* in_memory_cache
  hydrated, cacheGen,
  lock,         \* the holder of the tuner's mutex
  pc, key,      \* per thread: where it is in execute, and for which key
  op,           \* what it needs the store for: "new", "check" or "store"
  tuneGen,      \* history: cacheGen when it marked its key pending
  started,      \* history: tunes this process started, per key
  panicked,     \* history: keys a tune panicked on, in this process
  restarts

process == <<list, restarts>>
tuning == <<tuneGen, started, panicked>>
cacheVars == <<cache, hydrated, cacheGen>>
control == <<pc, key, op, lock, tuner>>
vars == <<active, generation, storage, storeGen, storeEnv, foreign,
          list, tuner, cache, hydrated, cacheGen, lock, pc, key, op, tuneGen, started,
          panicked, restarts>>

Here == "tuned here"
AnyKey == CHOOSE k \in Keys : TRUE

Entry(state, l, from) == [state |-> state, list |-> l, from |-> from]
Miss == Entry("miss", "no list", Here)
Pending == Entry("pending", "no list", Here)

Init ==
  /\ storage = [e \in Envs |-> [k \in StoreKeys |-> Absent]]
  /\ active = Default /\ generation = 0 /\ storeGen = 0 /\ storeEnv = Default
  /\ foreign = 0 /\ restarts = 0
  /\ list \in Lists /\ tuner = "none" /\ lock = NoThread
  /\ cache = [k \in Keys |-> Miss] /\ hydrated = FALSE /\ cacheGen = 0
  /\ pc = [t \in Threads |-> "idle"] /\ op = [t \in Threads |-> "new"]
  /\ key = [t \in Threads |-> AnyKey] /\ tuneGen = [t \in Threads |-> 0]
  /\ started = [k \in Keys |-> 0] /\ panicked = {}

\* The process dies at any point, or ends, and starts again: all but the
\* storages is gone.
Restart(l) ==
  /\ restarts < MaxRestart /\ restarts' = restarts + 1
  /\ active' = Default /\ generation' = 0 /\ storeGen' = 0 /\ storeEnv' = Default
  /\ list' = l /\ tuner' = "none" /\ lock' = NoThread
  /\ cache' = [k \in Keys |-> Miss] /\ hydrated' = FALSE /\ cacheGen' = 0
  /\ pc' = [t \in Threads |-> "idle"] /\ op' = [t \in Threads |-> "new"]
  /\ key' = [t \in Threads |-> AnyKey] /\ tuneGen' = [t \in Threads |-> 0]
  /\ started' = [k \in Keys |-> 0] /\ panicked' = {}
  /\ UNCHANGED durable

Goto(t, label) == pc' = [pc EXCEPT ![t] = label]

\* execute returns.
Return(t) ==
  /\ Goto(t, "idle")
  /\ key' = [key EXCEPT ![t] = AnyKey]
  /\ tuneGen' = [tuneGen EXCEPT ![t] = 0]

-----------------------------------------------------------------------------
(* TuneCache::new, under the lock of the map of tuners *)

\* The generation is sampled before the store is made.
New(t, k) ==
  /\ pc[t] = "idle" /\ tuner = "none"
  /\ tuner' = "new"
  /\ cacheGen' = generation
  /\ key' = [key EXCEPT ![t] = k]
  /\ Goto(t, "new store")
  /\ UNCHANGED <<envVars, storeVars, durable, process, cache, hydrated, lock, op, tuning>>

NewStore(t) ==
  /\ pc[t] = "new store"
  /\ SampleGeneration
  /\ op' = [op EXCEPT ![t] = "new"]
  /\ Goto(t, "new open")
  /\ UNCHANGED <<envVars, durable, process, cacheVars, key, lock, tuner, tuning>>

NewOpen(t) ==
  /\ pc[t] = "new open"
  /\ OpenStorage
  /\ Goto(t, "fresh")
  /\ UNCHANGED <<envVars, durable, process, cacheVars, key, op, lock, tuner, tuning>>

-----------------------------------------------------------------------------
(* Every use of the store starts with reset_if_stale *)

Freshen(t) ==
  /\ pc[t] = "fresh"
  /\ IF Stale THEN SampleGeneration /\ Goto(t, "open")
              ELSE UNCHANGED storeVars /\ Goto(t, "use")
  /\ UNCHANGED <<envVars, durable, process, cacheVars, key, op, lock, tuner, tuning>>

Reopen(t) ==
  /\ pc[t] = "open"
  /\ OpenStorage
  /\ Goto(t, "use")
  /\ UNCHANGED <<envVars, durable, process, cacheVars, key, op, lock, tuner, tuning>>

-----------------------------------------------------------------------------
(* The locked sections of fastest and check_tune *)

\* reset_if_environment_switched.
Switched == cacheGen # generation

Kept == IF Switched THEN [k \in Keys |-> Miss] ELSE cache

ResetIfSwitched ==
  /\ cacheGen' = generation
  /\ hydrated' = (hydrated /\ ~Switched)

\* validate_checksum.
MutantTrustsEntry(entry) ==
  IF entry.state = "verify" THEN [entry EXCEPT !.state = "match"] ELSE entry

Validated(entry) ==
  IF entry.state = "verify"
  THEN [entry EXCEPT !.state = IF entry.list = list THEN "match" ELSE "no match"]
  ELSE entry

MutantUnmarked(t, entries) ==
  LET k == key[t]
      entry == Validated(entries[k])
  IN  /\ lock' = NoThread
      /\ cache' = [entries EXCEPT ![k] = entry]
      /\ IF entry.state \in {"match", "pending"}
         THEN Return(t) /\ UNCHANGED started
         ELSE /\ Goto(t, "tune")
              /\ tuneGen' = [tuneGen EXCEPT ![t] = cacheGen']
              /\ started' = [started EXCEPT ![k] = @ + 1]
              /\ UNCHANGED key
      /\ UNCHANGED panicked

\* The end of check_tune's locked section on the entries it has by then: a hit
\* or a pending key returns, any other is marked pending and tuned.
Resolve(t, entries) ==
  LET k == key[t]
      entry == Validated(entries[k])
  IN  /\ lock' = NoThread
      /\ IF entry.state \in {"match", "pending"}
         THEN /\ cache' = [entries EXCEPT ![k] = entry]
              /\ Return(t)
              /\ UNCHANGED started
         ELSE /\ cache' = [entries EXCEPT ![k] = Pending]
              /\ Goto(t, "tune")
              /\ tuneGen' = [tuneGen EXCEPT ![t] = cacheGen']
              /\ started' = [started EXCEPT ![k] = @ + 1]
              /\ UNCHANGED key
      /\ UNCHANGED panicked

\* LocalTuner::execute, up to the fast path through Tuner::fastest.
Probe(t, k) ==
  /\ \/ pc[t] = "idle" /\ tuner = "ready"
     \/ pc[t] = "probe" /\ k = key[t]
  /\ lock = NoThread
  /\ ResetIfSwitched
  /\ cache' = Kept
  /\ IF Kept[k].state = "match"
     THEN Return(t)
     ELSE /\ key' = [key EXCEPT ![t] = k]
          /\ Goto(t, "check") /\ UNCHANGED tuneGen
  /\ UNCHANGED <<envVars, storeVars, durable, process, op, lock, tuner, started, panicked>>

\* check_tune takes the lock; a miss on a cache that is not hydrated goes to
\* the store with the lock held.
Check(t) ==
  LET k == key[t]
  IN  /\ pc[t] = "check" /\ lock = NoThread
      /\ ResetIfSwitched
      /\ IF Kept[k].state \in {"miss", "no match"} /\ ~hydrated'
         THEN /\ cache' = Kept
              /\ lock' = t
              /\ op' = [op EXCEPT ![t] = "check"]
              /\ Goto(t, "fresh")
              /\ UNCHANGED <<key, tuning>>
         ELSE Resolve(t, Kept) /\ UNCHANGED op
      /\ UNCHANGED <<envVars, storeVars, durable, process, tuner>>

\* sync_persistent: the entries of the storage that is open, of each key the
\* first the scan delivers, whatever its list. The order of a scan is the
\* backend's. Keys the cache has are left as they are.
Delivered(k) == {l \in Lists : <<k, l>> \in Scanned}

Ingested(first) ==
  [k \in Keys |-> IF cache[k].state = "miss" /\ Delivered(k) # {}
                  THEN Entry("verify", first[k], storeEnv) ELSE cache[k]]

Orders == {f \in [Keys -> Lists] : \A k \in Keys : Delivered(k) # {} => f[k] \in Delivered(k)}

MutantSamplesLate(t) ==
  /\ pc[t] = "use" /\ op[t] = "new"
  /\ \E first \in Orders : cache' = Ingested(first)
  /\ hydrated' = TRUE /\ tuner' = "ready" /\ cacheGen' = generation
  /\ Goto(t, "probe")
  /\ UNCHANGED <<envVars, storeVars, durable, process, key, op, lock, tuning>>

\* The end of TuneCache::new.
Hydrate(t) ==
  /\ pc[t] = "use" /\ op[t] = "new"
  /\ \E first \in Orders : cache' = Ingested(first)
  /\ hydrated' = TRUE /\ tuner' = "ready"
  /\ Goto(t, "probe")
  /\ UNCHANGED <<envVars, storeVars, durable, process, cacheGen, key, op, lock, tuning>>

\* The rest of check_tune's locked section.
HydrateAndResolve(t) ==
  /\ pc[t] = "use" /\ op[t] = "check"
  /\ hydrated' = TRUE /\ cacheGen' = cacheGen
  /\ \E first \in Orders : Resolve(t, Ingested(first))
  /\ UNCHANGED <<envVars, storeVars, durable, process, op, tuner>>

-----------------------------------------------------------------------------
(* The tune and process_request *)

\* A decision that was measured, or a guess (or the only candidate).
Benchmark(t, outcome) ==
  /\ pc[t] = "tune"
  /\ Goto(t, outcome)
  /\ UNCHANGED <<envVars, storeVars, durable, process, cacheVars, key, op, lock, tuner, tuning>>

\* The plan is exhausted or no candidate succeeded: the caller unwinds and the
\* key stays pending.
TunePanics(t) ==
  /\ pc[t] = "tune"
  /\ panicked' = panicked \cup {key[t]}
  /\ Return(t)
  /\ UNCHANGED <<envVars, storeVars, durable, process, cacheVars, op, lock, tuner, started>>

MutantGuessNotKept(t) ==
  /\ pc[t] \in {"measured", "guessed"} /\ lock = NoThread
  /\ IF pc[t] = "measured"
     THEN /\ cache' = [cache EXCEPT ![key[t]] = Entry("match", list, Here)]
          /\ Goto(t, "store") /\ UNCHANGED <<key, tuneGen>>
     ELSE Return(t) /\ UNCHANGED cache
  /\ UNCHANGED <<envVars, storeVars, durable, process, hydrated, cacheGen, op, lock, tuner,
                 started, panicked>>

\* cache_insert, whatever the environment is by now; a guess stops there.
Commit(t) ==
  /\ pc[t] \in {"measured", "guessed"} /\ lock = NoThread
  /\ cache' = [cache EXCEPT ![key[t]] = Entry("match", list, Here)]
  /\ IF pc[t] = "measured" THEN Goto(t, "store") /\ UNCHANGED <<key, tuneGen>> ELSE Return(t)
  /\ UNCHANGED <<envVars, storeVars, durable, process, hydrated, cacheGen, op, lock, tuner,
                 started, panicked>>

\* persistent_cache_insert, under a second lock.
StoreAnswer(t) ==
  /\ pc[t] = "store" /\ lock = NoThread
  /\ lock' = t
  /\ op' = [op EXCEPT ![t] = "store"]
  /\ Goto(t, "fresh")
  /\ UNCHANGED <<envVars, storeVars, durable, process, cacheVars, key, tuner, tuning>>

\* write_through: the storage takes the answer, keeps the one it has, or
\* refuses the write; a row that does not decode is repaired.
Write(t, v) ==
  LET k == <<key[t], list>>
  IN  /\ pc[t] = "use" /\ op[t] = "store"
      /\ \/ Insert(storeEnv, k, v, "local")
         \/ UNCHANGED storage
      /\ IF Undecodable(storeEnv, k) /\ Declined(storeEnv, k, "local")
         THEN Goto(t, "repair") /\ UNCHANGED <<key, tuneGen, lock>>
         ELSE Return(t) /\ lock' = NoThread
      /\ UNCHANGED <<envVars, storeVars, foreign, process, cacheVars, op, tuner, started, panicked>>

Repair(t, v) ==
  /\ pc[t] = "repair"
  /\ Replace(storeEnv, <<key[t], list>>, v) \/ UNCHANGED storage
  /\ Return(t) /\ lock' = NoThread
  /\ UNCHANGED <<envVars, storeVars, foreign, process, cacheVars, op, tuner, started, panicked>>

-----------------------------------------------------------------------------

others == <<process, cacheVars, control, tuning>>

Call(t) == \E k \in Keys : New(t, k) \/ (pc[t] = "idle" /\ Probe(t, k))

Proceed(t) ==
  \/ NewStore(t) \/ NewOpen(t) \/ Freshen(t) \/ Reopen(t) \/ Hydrate(t)
  \/ (pc[t] = "probe" /\ Probe(t, key[t]))
  \/ Check(t) \/ HydrateAndResolve(t)
  \/ \E outcome \in {"measured", "guessed"} : Benchmark(t, outcome)
  \/ TunePanics(t) \/ Commit(t) \/ StoreAnswer(t)
  \/ \E v \in Values : Write(t, v) \/ Repair(t, v)

Environment ==
  \/ \E e \in Envs :
       \/ Switch(e) /\ UNCHANGED others
       \/ \E k \in StoreKeys, v \in ForeignValues, origin \in Origins :
            ForeignInsert(e, k, v, origin) /\ UNCHANGED others

Next ==
  \/ \E t \in Threads : Call(t) \/ Proceed(t)
  \/ Environment
  \/ \E l \in Lists : Restart(l)

Spec == Init /\ [][Next]_vars

\* Threads are scheduled and benchmarks end; nothing makes the program call
\* execute, switch or restart.
FairSpec == Spec /\ \A t \in Threads : WF_vars(Proceed(t))

-----------------------------------------------------------------------------

Running(k) == {t \in Threads : key[t] = k /\ pc[t] \in {"tune", "measured", "guessed"}}

TypeOK ==
  /\ StoreTypeOK
  /\ list \in Lists /\ tuner \in {"none", "new", "ready"}
  /\ \A k \in Keys :
       cache[k].state \in {"miss", "pending", "verify", "match", "no match"}
  /\ hydrated \in BOOLEAN /\ cacheGen \in 0 .. generation
  /\ lock \in Threads \cup {NoThread}
  /\ \A t \in Threads : key[t] \in Keys /\ tuneGen[t] \in 0 .. generation

\* "A tuning job is in flight for this key", unless it panicked: a pending key
\* has a thread that will publish its result.
PendingIsRunning ==
  \A k \in Keys : cache[k].state = "pending" => k \in panicked \/ Running(k) # {}

\* A cached pick is used without a check, so it is one for the candidates of
\* this process: an answer stored for another list is never taken for one.
HitsAreOurs == \A k \in Keys : cache[k].state = "match" => cache[k].list = list

\* What every step of every thread, switch, crash and foreign write preserves.
TunerInv == TypeOK /\ PendingIsRunning /\ HitsAreOurs

\* A generation that is up to date vouches for what was derived under it: the
\* storage that is open, and the entries read from one, are the active
\* environment's, wherever a switch landed.
FreshIsActive ==
  /\ storeGen = generation /\ (\A t \in Threads : pc[t] \notin {"open", "new open"})
       => storeEnv = active
  /\ cacheGen = generation => \A k \in Keys : cache[k].from \in {Here, active}

\* "the whole cost of the race is one duplicate tune per switch": a process
\* tunes a key once, and once more for each switch, and two tunes of a key in
\* flight belong to two generations.
TunesBounded ==
  \A k \in Keys :
    /\ started[k] <= 1 + generation
    /\ \A t, u \in Running(k) : t # u => tuneGen[t] # tuneGen[u]

\* The storage is insert-only: a value computed locally that decodes is only
\* ever replaced by the repair of a thread that found the row unreadable.
LocalKept ==
  [][\A e \in Envs, k \in StoreKeys :
       /\ storage[e][k] # Absent /\ storage'[e][k] # storage[e][k]
       /\ storage[e][k].origin = "local"
       => Undecodable(e, k) \/ \E t \in Threads : pc[t] = "repair"]_vars

\* A key marked pending gets its pick, measured or guessed, unless the tune
\* panics or the process or the environment goes away.
KeySettles ==
  \A k \in Keys :
    cache[k].state = "pending" /\ k \notin panicked
      ~> cache[k].state # "pending" \/ k \in panicked

\* check_tune ingests what the store holds "before starting a redundant tune":
\* with no other writer, a key that has an answer to this list in the storage
\* is not tuned again.
NoRedundantTune ==
  [][\A k \in Keys : started'[k] > started[k] => <<k, list>> \notin Scanned]_vars
=============================================================================
