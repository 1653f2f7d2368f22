---------------------------- MODULE TunerProofs ----------------------------
(***************************************************************************)
(* The tuner over its store, for any number of threads, keys, lists,       *)
(* environments, switches, restarts and writes of others. First the        *)
(* inductive invariant, the uses of the store, and what the locked sections*)
(* may make of the cache, then the steps of the tuner and the theorems.    *)
(***************************************************************************)
EXTENDS Tuner, TLAPS

USE ZenonT(3), SMTT(20)

Labels == {"idle", "new store", "new open", "fresh", "open", "use", "probe", "check",
           "tune", "measured", "guessed", "store", "repair"}

States == {"miss", "pending", "verify", "match", "no match"}

CacheEntries == [state : States, list : Lists \cup {"no list"}, from : Envs \cup {Here}]

\* t is inside TuneCache::new, or uses the store.
Making(t) ==
  \/ pc[t] \in {"new store", "new open"}
  \/ pc[t] \in {"fresh", "open", "use"} /\ op[t] = "new"

InStore(t) == pc[t] \in {"new store", "new open", "fresh", "open", "use", "repair"}

Marked(k) == cache[k].state \in {"pending", "match"}

StoreTypes ==
  /\ active \in Envs /\ generation \in 0 .. MaxSwitch
  /\ storage \in [Envs -> [StoreKeys -> Entries \cup {Absent}]]
  /\ storeGen \in 0 .. generation /\ storeEnv \in Envs
  /\ foreign \in 0 .. MaxForeign

CacheTypes ==
  /\ list \in Lists /\ cache \in [Keys -> CacheEntries]
  /\ hydrated \in BOOLEAN /\ cacheGen \in 0 .. generation
  /\ started \in [Keys -> Nat]

ThreadTypes ==
  /\ tuner \in {"none", "new", "ready"} /\ lock \in Threads \cup {NoThread}
  /\ pc \in [Threads -> Labels] /\ key \in [Threads -> Keys]
  /\ op \in [Threads -> {"new", "check", "store"}]
  /\ tuneGen \in [Threads -> Nat] /\ \A t \in Threads : tuneGen[t] <= generation

\* One thread at a time uses the store: the one that makes the tuner, before
\* anybody else has it, or the one that holds its mutex.
LockInv ==
  /\ tuner = "none" => \A t \in Threads : pc[t] = "idle"
  /\ tuner # "ready" =>
       /\ lock = NoThread /\ \A k \in Keys : cache[k] = Miss
       /\ \A t \in Threads : pc[t] = "idle" \/ Making(t)
  /\ \A t \in Threads : Making(t) =>
       tuner = "new" /\ \A u \in Threads : u # t => pc[u] = "idle"
  /\ \A t \in Threads : InStore(t) /\ ~Making(t) => lock = t
  /\ \A t \in Threads : pc[t] = "new open" => op[t] = "new"

\* What is about to be ingested is the active environment's, unless a switch
\* has made the cache stale meanwhile.
UseInv ==
  \A t \in Threads :
    pc[t] = "use" /\ op[t] \in {"new", "check"} /\ cacheGen = generation => storeEnv = active

\* Within a generation of the cache a key that a tune started on stays marked.
TuneInv ==
  \A k \in Keys :
    /\ started[k] <= cacheGen + (IF Marked(k) THEN 1 ELSE 0)
    /\ \A t \in Running(k) : tuneGen[t] <= cacheGen /\ (~Marked(k) => tuneGen[t] < cacheGen)
    /\ \A t, u \in Running(k) : t # u => tuneGen[t] # tuneGen[u]

CacheInv == PendingIsRunning /\ HitsAreOurs /\ TuneInv

Inv ==
  /\ StoreTypes /\ CacheTypes /\ ThreadTypes
  /\ LockInv /\ FreshIsActive /\ UseInv /\ CacheInv

-----------------------------------------------------------------------------

RunLabels == {"tune", "measured", "guessed"}

LEMMA Generations ==
  ASSUME StoreTypes
  PROVE  /\ generation \in Nat /\ generation \in 0 .. generation
         /\ storeGen \in Nat /\ storeGen \in 0 .. generation /\ storeGen <= generation
BY StoreAssumption DEF StoreTypes

\* Steps of other threads: what t does leaves where they are.
LEMMA OneMoves ==
  ASSUME ThreadTypes, NEW t \in Threads, NEW l \in Labels, Goto(t, l)
  PROVE  /\ pc' \in [Threads -> Labels] /\ pc'[t] = l
         /\ \A u \in Threads : u # t => pc'[u] = pc[u]
BY DEF ThreadTypes, Goto

\* A thread that is not tuning before and after a step.
LEMMA RunningSame ==
  ASSUME NEW t \in Threads, pc[t] \notin RunLabels, pc'[t] \notin RunLabels,
         \A u \in Threads : u # t => pc'[u] = pc[u] /\ key'[u] = key[u]
  PROVE  \A k \in Keys : Running(k)' = Running(k)
BY DEF Running, RunLabels

\* A step that leaves the cache alone, and ends no tune but by a panic.
LEMMA CacheKept ==
  ASSUME CacheInv, UNCHANGED <<cache, cacheGen, list, started>>, panicked \subseteq panicked',
         \A k \in Keys : Running(k)' \subseteq Running(k),
         \A k \in Keys : k \in panicked' \/ Running(k)' = Running(k),
         \A k \in Keys : \A t \in Running(k)' : tuneGen'[t] = tuneGen[t]
  PROVE  CacheInv'
<1>1. PendingIsRunning' /\ HitsAreOurs'
  BY DEF CacheInv, PendingIsRunning, HitsAreOurs
<1>2. \A k \in Keys : Marked(k)' <=> Marked(k)
  BY DEF Marked
<1>3. TuneInv'
  BY <1>2 DEF CacheInv, TuneInv
<1> QED
  BY <1>1, <1>3 DEF CacheInv

\* A step that leaves the cache and the threads alone.
LEMMA CacheUntouched ==
  ASSUME CacheInv, UNCHANGED <<cache, cacheGen, list, started, panicked, key, pc, tuneGen>>
  PROVE  CacheInv'
<1>1. \A k \in Keys : Running(k)' = Running(k)
  BY DEF Running
<1> QED
  BY <1>1, CacheKept

\* Uses of the store exclude each other.
LEMMA OneInStore ==
  ASSUME Inv, NEW t \in Threads, NEW u \in Threads, InStore(t), InStore(u)
  PROVE  t = u
<1>1. CASE Making(t) \/ Making(u)
  BY <1>1 DEF Inv, LockInv, InStore
<1>2. CASE ~Making(t) /\ ~Making(u)
  BY <1>2 DEF Inv, LockInv
<1> QED
  BY <1>1, <1>2

\* TuneCache::new makes the store and opens its storage; every later use opens
\* the storage again when a switch made it stale.
LEMMA StoreSteps ==
  ASSUME Inv, NEW t \in Threads, NewStore(t) \/ NewOpen(t) \/ Freshen(t) \/ Reopen(t)
  PROVE  Inv'
<1> USE DEF envVars, storeVars, durable, process, cacheVars, tuning
<1>1. /\ StoreTypes /\ CacheTypes /\ ThreadTypes /\ LockInv /\ FreshIsActive /\ UseInv /\ CacheInv
  BY DEF Inv
<1>2. /\ UNCHANGED <<active, generation, storage, foreign, list, cache, hydrated, cacheGen,
                     key, lock, tuner, tuneGen, started, panicked>>
      /\ pc[t] \in {"new store", "new open", "fresh", "open"}
  BY DEF NewStore, NewOpen, Freshen, Reopen
<1>3. PICK l \in {"new open", "fresh", "open", "use"} : Goto(t, l)
  BY DEF NewStore, NewOpen, Freshen, Reopen
<1>4. /\ pc' \in [Threads -> Labels] /\ pc'[t] = l
      /\ \A u \in Threads : u # t => pc'[u] = pc[u]
  BY <1>1, <1>3, OneMoves DEF Labels
<1>5. op' = op \/ (pc[t] = "new store" /\ op' = [op EXCEPT ![t] = "new"])
  BY DEF NewStore, NewOpen, Freshen, Reopen
<1>6. op' \in [Threads -> {"new", "check", "store"}] /\ \A u \in Threads : u # t => op'[u] = op[u]
  BY <1>1, <1>5 DEF ThreadTypes
<1>7. StoreTypes'
  <2>1. /\ storeGen' = storeGen \/ storeGen' = generation
        /\ storeEnv' = storeEnv \/ storeEnv' = active
    BY DEF NewStore, NewOpen, Freshen, Reopen, SampleGeneration, OpenStorage
  <2>2. generation \in 0 .. generation /\ storeGen \in 0 .. generation
    BY <1>1, Generations
  <2>3. storeGen' \in 0 .. generation /\ storeEnv' \in Envs
    BY <1>1, <2>1, <2>2 DEF StoreTypes
  <2> QED
    BY <1>1, <1>2, <2>3 DEF StoreTypes
<1>8. CacheTypes'
  BY <1>1, <1>2 DEF CacheTypes
<1>9. ThreadTypes'
  BY <1>1, <1>2, <1>4, <1>6 DEF ThreadTypes
<1>10. LockInv'
  <2>1. \A u \in Threads : u # t => (Making(u)' <=> Making(u)) /\ (InStore(u)' <=> InStore(u))
    BY <1>4, <1>6 DEF Making, InStore
  <2>2. (Making(t)' <=> Making(t)) /\ InStore(t)' /\ InStore(t)
    <3>1. InStore(t)' /\ InStore(t)
      BY <1>2, <1>3, <1>4 DEF InStore
    <3>2. CASE NewStore(t)
      <4>1. op'[t] = "new" /\ pc'[t] = "new open" /\ pc[t] = "new store"
        BY <1>1, <1>4, <3>2 DEF NewStore, Goto, ThreadTypes
      <4> QED
        BY <4>1, <3>1 DEF Making
    <3>3. CASE NewOpen(t)
      <4>1. pc[t] = "new open" /\ pc'[t] = "fresh" /\ op' = op
        BY <1>1, <1>4, <3>3 DEF NewOpen, Goto, ThreadTypes
      <4>2. op[t] = "new"
        BY <4>1, <1>1 DEF LockInv
      <4> QED
        BY <4>1, <4>2, <3>1 DEF Making
    <3>4. CASE Freshen(t) \/ Reopen(t)
      <4>1. pc[t] \in {"fresh", "open"} /\ pc'[t] \in {"open", "use"} /\ op' = op
        BY <1>1, <1>4, <3>4 DEF Freshen, Reopen, Goto, ThreadTypes
      <4> QED
        BY <4>1, <3>1 DEF Making
    <3> QED
      BY <3>2, <3>3, <3>4
  <2>3. pc'[t] = "new open" => op'[t] = "new"
    BY <1>1, <1>4 DEF NewStore, NewOpen, Freshen, Reopen, Goto, ThreadTypes
  <2>4. pc[t] # "idle" /\ pc'[t] # "idle"
    BY <1>2, <1>3, <1>4
  <2>5. tuner = "none" => \A u \in Threads : pc'[u] = "idle"
    BY <1>1, <2>4 DEF LockInv
  <2>6. tuner # "ready" => /\ lock = NoThread /\ \A k \in Keys : cache[k] = Miss
                           /\ \A u \in Threads : pc'[u] = "idle" \/ Making(u)'
    BY <1>1, <1>4, <2>1, <2>2, <2>4 DEF LockInv
  <2>7. \A v \in Threads : Making(v)' =>
          tuner = "new" /\ \A u \in Threads : u # v => pc'[u] = "idle"
    BY <1>1, <1>4, <2>1, <2>2, <2>4 DEF LockInv
  <2>8. \A u \in Threads : InStore(u)' /\ ~Making(u)' => lock = u
    BY <1>1, <2>1, <2>2 DEF LockInv
  <2>9. \A u \in Threads : pc'[u] = "new open" => op'[u] = "new"
    BY <1>1, <1>4, <1>6, <2>3 DEF LockInv
  <2> QED
    BY <1>2, <2>5, <2>6, <2>7, <2>8, <2>9 DEF LockInv, Miss, Entry
<1>11. \A u \in Threads : pc'[u] \in {"new store", "new open", "fresh", "open", "use"} => u = t
  <2>1. InStore(t)
    BY <1>2 DEF InStore
  <2> QED
    BY <2>1, <1>4, OneInStore DEF InStore
<1>12. storeGen' = generation /\ l \notin {"open", "new open"} => storeEnv' = active
  <2>1. CASE NewOpen(t) \/ Reopen(t)
    BY <2>1 DEF NewOpen, Reopen, OpenStorage
  <2>2. CASE NewStore(t)
    BY <2>2, <1>1, <1>4 DEF NewStore, Goto, ThreadTypes
  <2>3. CASE Freshen(t) /\ Stale
    BY <2>3, <1>1, <1>4 DEF Freshen, Goto, ThreadTypes
  <2>4. CASE Freshen(t) /\ ~Stale
    <3>1. UNCHANGED <<storeGen, storeEnv>> /\ storeGen = generation /\ pc[t] = "fresh"
      BY <2>4 DEF Freshen, Stale
    <3>2. \A u \in Threads : pc[u] \notin {"open", "new open"}
      <4>1. InStore(t)
        BY <3>1 DEF InStore
      <4> QED
        BY <4>1, <3>1, OneInStore DEF InStore
    <3> QED
      BY <3>1, <3>2, <1>1 DEF FreshIsActive
  <2> QED
    BY <2>1, <2>2, <2>3, <2>4
<1>13. FreshIsActive'
  BY <1>1, <1>2, <1>4, <1>12 DEF FreshIsActive
<1>14. l = "use" => storeEnv' = active \/ storeGen' = generation
  BY <1>1, <1>4 DEF NewStore, NewOpen, Freshen, Reopen, Stale, OpenStorage, Goto, ThreadTypes
<1>15. UseInv'
  BY <1>2, <1>4, <1>11, <1>12, <1>14 DEF UseInv
<1>16. CacheInv'
  <2>1. pc[t] \notin RunLabels /\ pc'[t] \notin RunLabels
    BY <1>2, <1>4 DEF RunLabels
  <2>2. \A k \in Keys : Running(k)' = Running(k)
    BY <2>1, <1>2, <1>4, RunningSame
  <2> QED
    BY <1>1, <1>2, <2>2, CacheKept
<1> QED
  BY <1>7, <1>8, <1>9, <1>10, <1>13, <1>15, <1>16 DEF Inv

-----------------------------------------------------------------------------
(* The locked sections *)

\* A holder of the mutex, or its absence, tells who is in the store.
LEMMA LockFree ==
  ASSUME Inv, tuner = "ready", lock = NoThread
  PROVE  \A u \in Threads : ~InStore(u)
BY TunerAssumption DEF Inv, LockInv

\* A thread inside execute, but not in TuneCache::new, has a tuner.
LEMMA Ready ==
  ASSUME Inv, NEW t \in Threads, pc[t] # "idle", ~Making(t)
  PROVE  tuner = "ready"
BY DEF Inv, LockInv

FreshStore ==
  storeGen = generation /\ (\A t \in Threads : pc[t] \notin {"open", "new open"})
    => storeEnv = active

FreshCache == cacheGen = generation => \A k \in Keys : cache[k].from \in {Here, active}

\* A step of one thread, with the tuner ready, that leaves the store alone.
LEMMA ThreadMoves ==
  ASSUME Inv, NEW t \in Threads, tuner = "ready", tuner' = tuner,
         UNCHANGED <<active, generation, storeGen, storeEnv>>,
         NEW l \in {"idle", "probe", "check", "tune", "measured", "guessed", "store", "fresh",
                    "repair"},
         Goto(t, l), pc[t] \notin {"open", "new open"},
         \A u \in Threads : u # t => op'[u] = op[u],
         l = "fresh" => op'[t] # "new" /\ lock' = t,
         l = "repair" => lock' = t,
         lock' = lock \/ \A u \in Threads : u # t => ~InStore(u),
         lock' = lock \/ lock' = t \/ lock' = NoThread,
         cacheGen' = cacheGen \/ \A u \in Threads : ~InStore(u)
  PROVE  LockInv' /\ FreshStore' /\ UseInv'
<1>1. /\ LockInv /\ FreshIsActive /\ UseInv /\ ThreadTypes
  BY DEF Inv
<1>2. pc'[t] = l /\ \A u \in Threads : u # t => pc'[u] = pc[u]
  BY <1>1, OneMoves DEF Labels
<1>3. \A u \in Threads : u # t => (Making(u)' <=> Making(u)) /\ (InStore(u)' <=> InStore(u))
  BY <1>2 DEF Making, InStore
<1>4. \A u \in Threads : ~Making(u)
  BY <1>1 DEF LockInv
<1>5. ~Making(t)' /\ (InStore(t)' => lock' = t) /\ pc'[t] # "new open"
  BY <1>2 DEF Making, InStore
<1>6. \A u \in Threads : InStore(u)' /\ ~Making(u)' => lock' = u
  <2>1. TAKE u \in Threads
  <2>2. CASE u = t
    BY <1>5, <2>2
  <2>3. CASE u # t
    BY <1>1, <1>3, <1>4, <2>3 DEF LockInv
  <2> QED
    BY <2>2, <2>3
<1>7. \A u \in Threads : pc'[u] # "new open" /\ ~Making(u)'
  BY <1>2, <1>3, <1>4, <1>5 DEF Making
<1>8. LockInv'
  BY <1>6, <1>7 DEF LockInv
<1>9. FreshStore'
  BY <1>1, <1>2 DEF FreshIsActive, FreshStore
<1>10. UseInv'
  <2>1. SUFFICES ASSUME NEW u \in Threads, pc'[u] = "use", op'[u] \in {"new", "check"},
                        cacheGen' = generation
                 PROVE  storeEnv = active
    BY DEF UseInv
  <2>2. u # t /\ pc[u] = "use" /\ op[u] \in {"new", "check"}
    BY <2>1, <1>2
  <2>3. InStore(u)
    BY <2>2 DEF InStore
  <2> QED
    BY <1>1, <2>1, <2>2, <2>3 DEF UseInv
<1> QED
  BY <1>8, <1>9, <1>10

\* What a cache of generation g may hold.
CacheOK(entries, g) ==
  /\ g \in 0 .. generation
  /\ entries \in [Keys -> CacheEntries]
  /\ g = generation => \A k \in Keys : entries[k].from \in {Here, active}
  /\ \A k \in Keys : entries[k].state = "pending" => k \in panicked \/ Running(k) # {}
  /\ \A k \in Keys : entries[k].state = "match" => entries[k].list = list
  /\ \A k \in Keys :
       /\ started[k] <= g + 1
       /\ entries[k].state \notin {"pending", "match"} => started[k] <= g
       /\ \A t \in Running(k) :
            /\ tuneGen[t] <= g
            /\ entries[k].state \notin {"pending", "match"} => tuneGen[t] < g
       /\ \A t, u \in Running(k) : t # u => tuneGen[t] # tuneGen[u]

LEMMA CacheIsOK ==
  ASSUME Inv
  PROVE  CacheOK(cache, cacheGen)
<1>1. cacheGen \in 0 .. generation /\ cache \in [Keys -> CacheEntries] /\ started \in [Keys -> Nat]
  BY DEF Inv, CacheTypes
<1>2. cacheGen = generation => \A k \in Keys : cache[k].from \in {Here, active}
  BY DEF Inv, FreshIsActive
<1>3. \A k \in Keys :
        /\ started[k] <= cacheGen + 1
        /\ cache[k].state \notin {"pending", "match"} => started[k] <= cacheGen
  BY <1>1, Generations DEF Inv, CacheInv, TuneInv, Marked
<1>4. \A k \in Keys :
       /\ \A t \in Running(k) :
            /\ tuneGen[t] <= cacheGen
            /\ cache[k].state \notin {"pending", "match"} => tuneGen[t] < cacheGen
       /\ \A t, u \in Running(k) : t # u => tuneGen[t] # tuneGen[u]
  BY DEF Inv, CacheInv, TuneInv, Marked
<1> QED
  BY <1>1, <1>2, <1>3, <1>4 DEF CacheOK, Inv, CacheInv, PendingIsRunning, HitsAreOurs

LEMMA OKIsCache ==
  ASSUME CacheOK(cache, cacheGen)', started' \in [Keys -> Nat], generation' \in Nat
  PROVE  /\ CacheInv' /\ FreshCache'
         /\ cache' \in [Keys -> CacheEntries] /\ cacheGen' \in 0 .. generation'
<1>1. cacheGen' \in Nat /\ cacheGen' \in 0 .. generation'
  BY DEF CacheOK
<1>2. \A k \in Keys : started'[k] <= cacheGen' + (IF Marked(k)' THEN 1 ELSE 0)
  BY <1>1 DEF CacheOK, Marked
<1>3. TuneInv'
  BY <1>2 DEF CacheOK, TuneInv, Marked
<1> QED
  BY <1>1, <1>3 DEF CacheOK, CacheInv, FreshCache, PendingIsRunning, HitsAreOurs

\* Entries that are allowed may become the cache when no tune starts or ends.
LEMMA CacheReplaced ==
  ASSUME NEW entries, NEW g, CacheOK(entries, g), cache' = entries, cacheGen' = g,
         UNCHANGED <<active, generation, list, started, panicked>>,
         \A k \in Keys : Running(k)' = Running(k),
         \A k \in Keys : \A t \in Running(k) : tuneGen'[t] = tuneGen[t]
  PROVE  CacheOK(cache, cacheGen)'
<1>1. /\ g \in 0 .. generation' /\ entries \in [Keys -> CacheEntries]
      /\ g = generation' => \A k \in Keys : entries[k].from \in {Here, active'}
      /\ \A k \in Keys : entries[k].state = "match" => entries[k].list = list'
      /\ \A k \in Keys :
           /\ started'[k] <= g + 1
           /\ entries[k].state \notin {"pending", "match"} => started'[k] <= g
  BY DEF CacheOK
<1>2. \A k \in Keys : entries[k].state = "pending" => k \in panicked' \/ Running(k)' # {}
  BY DEF CacheOK
<1>3. \A k \in Keys : \A t \in Running(k)' :
        /\ tuneGen'[t] <= g
        /\ entries[k].state \notin {"pending", "match"} => tuneGen'[t] < g
  BY DEF CacheOK
<1>4. \A k \in Keys : \A t, u \in Running(k)' : t # u => tuneGen'[t] # tuneGen'[u]
  BY DEF CacheOK
<1> QED
  BY <1>1, <1>2, <1>3, <1>4 DEF CacheOK

\* reset_if_environment_switched: an emptied cache allows what was allowed.
LEMMA KeptOK ==
  ASSUME Inv
  PROVE  CacheOK(Kept, generation)
<1>1. CacheOK(cache, cacheGen)
  BY CacheIsOK
<1>2. generation \in Nat /\ generation \in 0 .. generation
  BY Generations DEF Inv
<1>3. CASE ~Switched
  BY <1>1, <1>3 DEF Switched, Kept
<1>4. CASE Switched
  <2>1. cacheGen \in Nat /\ cacheGen < generation
    BY <1>1, <1>2, <1>4 DEF CacheOK, Switched
  <2>2. Kept = [k \in Keys |-> Miss]
    BY <1>4 DEF Kept
  <2>3. Miss \in CacheEntries /\ Miss.state = "miss" /\ Miss.from = Here
    BY DEF Miss, Entry, CacheEntries, States
  <2>4. \A k \in Keys : Kept[k] = Miss
    BY <2>2
  <2>5. Kept \in [Keys -> CacheEntries]
    BY <2>2, <2>3
  <2>6. started \in [Keys -> Nat] /\ tuneGen \in [Threads -> Nat]
    BY DEF Inv, CacheTypes, ThreadTypes
  <2>7. \A k \in Keys : started[k] <= generation /\ started[k] <= generation + 1
    BY <1>1, <1>2, <2>1, <2>6 DEF CacheOK
  <2>8. \A k \in Keys : \A t \in Running(k) : tuneGen[t] <= generation /\ tuneGen[t] < generation
    <3>1. TAKE k \in Keys
    <3>2. TAKE t \in Running(k)
    <3>3. tuneGen[t] <= cacheGen /\ tuneGen[t] \in Nat
      BY <1>1, <2>6, <3>1, <3>2 DEF CacheOK, Running
    <3> QED
      BY <3>3, <2>1, <1>2
  <2>9. \A k \in Keys : \A t, u \in Running(k) : t # u => tuneGen[t] # tuneGen[u]
    BY <1>1 DEF CacheOK
  <2> QED
    BY <1>2, <2>3, <2>4, <2>5, <2>7, <2>8, <2>9 DEF CacheOK
<1> QED
  BY <1>3, <1>4

\* sync_persistent only turns misses into entries to verify.
LEMMA IngestedOK ==
  ASSUME Inv, NEW t \in Threads, pc[t] = "use", op[t] \in {"new", "check"}, NEW first \in Orders
  PROVE  CacheOK(Ingested(first), cacheGen)
<1>1. CacheOK(cache, cacheGen)
  BY CacheIsOK
<1>2. \A k \in Keys : Ingested(first)[k] = cache[k] \/
        /\ cache[k].state = "miss" /\ Ingested(first)[k] = Entry("verify", first[k], storeEnv)
  BY DEF Ingested
<1>3. first \in [Keys -> Lists] /\ storeEnv \in Envs
  BY DEF Orders, Inv, StoreTypes
<1>4. \A k \in Keys : Entry("verify", first[k], storeEnv) \in CacheEntries
  BY <1>3 DEF Entry, CacheEntries, States
<1>5. \A k \in Keys : Ingested(first)[k] \in CacheEntries
  BY <1>1, <1>2, <1>4 DEF CacheOK
<1>6. Ingested(first) \in [Keys -> CacheEntries]
  <2>1. Ingested(first) = [k \in Keys |-> Ingested(first)[k]]
    BY DEF Ingested
  <2> QED
    BY <1>5, <2>1
<1>7. cacheGen = generation => storeEnv = active
  BY DEF Inv, UseInv
<1>8. \A k \in Keys :
        /\ Ingested(first)[k].state = "pending" => cache[k].state = "pending"
        /\ Ingested(first)[k].state = "match" => Ingested(first)[k] = cache[k]
        /\ Ingested(first)[k].state \notin {"pending", "match"}
             => cache[k].state \notin {"pending", "match"}
        /\ Ingested(first)[k].from = cache[k].from \/ Ingested(first)[k].from = storeEnv
  <2>1. TAKE k \in Keys
  <2>2. CASE Ingested(first)[k] = cache[k]
    BY <2>2
  <2>3. CASE /\ cache[k].state = "miss"
             /\ Ingested(first)[k] = Entry("verify", first[k], storeEnv)
    <3>1. Ingested(first)[k].state = "verify" /\ Ingested(first)[k].from = storeEnv
      BY <2>3 DEF Entry
    <3> QED
      BY <2>3, <3>1
  <2> QED
    BY <1>2, <2>2, <2>3
<1> HIDE DEF Ingested
<1>9. \A k \in Keys : cacheGen = generation => Ingested(first)[k].from \in {Here, active}
  BY <1>1, <1>7, <1>8 DEF CacheOK
<1>10. /\ \A k \in Keys : Ingested(first)[k].state = "pending" => k \in panicked \/ Running(k) # {}
       /\ \A k \in Keys : Ingested(first)[k].state = "match" => Ingested(first)[k].list = list
  BY <1>1, <1>8 DEF CacheOK
<1>11. \A k \in Keys :
         /\ started[k] <= cacheGen + 1
         /\ Ingested(first)[k].state \notin {"pending", "match"} => started[k] <= cacheGen
  BY <1>1, <1>8 DEF CacheOK
<1>12. \A k \in Keys : \A u \in Running(k) :
         /\ tuneGen[u] <= cacheGen
         /\ Ingested(first)[k].state \notin {"pending", "match"} => tuneGen[u] < cacheGen
  BY <1>1, <1>8 DEF CacheOK
<1>13. cacheGen \in 0 .. generation
       /\ \A k \in Keys : \A u, v \in Running(k) : u # v => tuneGen[u] # tuneGen[v]
  BY <1>1 DEF CacheOK
<1> QED
  BY <1>6, <1>9, <1>10, <1>11, <1>12, <1>13 DEF CacheOK

\* validate_checksum leaves an entry its list and origin.
LEMMA ValidatedEntry ==
  ASSUME NEW e \in CacheEntries
  PROVE  /\ Validated(e) \in CacheEntries /\ Validated(e).from = e.from
         /\ Validated(e).state = "pending" <=> e.state = "pending"
         /\ Validated(e).state = "match" /\ e.state # "match" => Validated(e).list = list
         /\ Validated(e).state = "match" /\ e.state = "match" => Validated(e) = e
         /\ e.state \in {"pending", "match"} => Validated(e) = e
BY DEF Validated, CacheEntries, States

\* The end of check_tune: a key is marked when its tune starts, and only an
\* answer to this list is a hit.
LEMMA ResolveOK ==
  ASSUME Inv, NEW t \in Threads, pc[t] \notin RunLabels, NEW k \in Keys, k = key[t], NEW entries,
         CacheOK(entries, cacheGen'), Resolve(t, entries), UNCHANGED <<active, generation, list>>
  PROVE  /\ CacheOK(cache, cacheGen)'
         /\ started' \in [Keys -> Nat]
         /\ key' \in [Threads -> Keys]
         /\ tuneGen' \in [Threads -> Nat] /\ \A u \in Threads : tuneGen'[u] <= generation
         /\ lock' = NoThread /\ (Goto(t, "idle") \/ Goto(t, "tune"))
<1> DEFINE entry == Validated(entries[k])
           g == cacheGen'
<1>1. /\ k \in Keys /\ key \in [Threads -> Keys] /\ started \in [Keys -> Nat]
      /\ tuneGen \in [Threads -> Nat] /\ \A u \in Threads : tuneGen[u] <= generation
      /\ ThreadTypes /\ generation \in Nat
  BY Generations DEF Inv, ThreadTypes, CacheTypes
<1>2. g \in 0 .. generation /\ g \in Nat /\ g <= generation
  BY <1>1 DEF CacheOK
<1>3. entries \in [Keys -> CacheEntries] /\ entries[k] \in CacheEntries
  BY <1>1 DEF CacheOK
<1>4. /\ entry \in CacheEntries /\ entry.from = entries[k].from
      /\ entry.state = "pending" <=> entries[k].state = "pending"
      /\ entry.state = "match" /\ entries[k].state # "match" => entry.list = list
      /\ entry.state = "match" /\ entries[k].state = "match" => entry = entries[k]
      /\ entries[k].state \in {"pending", "match"} => entry = entries[k]
  BY <1>3, ValidatedEntry
<1>5. /\ lock' = NoThread /\ panicked' = panicked
      /\ \/ /\ entry.state \in {"match", "pending"}
            /\ cache' = [entries EXCEPT ![k] = entry] /\ Return(t) /\ started' = started
         \/ /\ entry.state \notin {"match", "pending"}
            /\ cache' = [entries EXCEPT ![k] = Pending] /\ Goto(t, "tune")
            /\ tuneGen' = [tuneGen EXCEPT ![t] = g]
            /\ started' = [started EXCEPT ![k] = @ + 1] /\ key' = key
  BY DEF Resolve
<1>6. g = generation => \A j \in Keys : entries[j].from \in {Here, active}
  BY DEF CacheOK
<1>7. \A j \in Keys :
        /\ entries[j].state = "pending" => j \in panicked \/ Running(j) # {}
        /\ entries[j].state = "match" => entries[j].list = list
  BY DEF CacheOK
<1>8. \A j \in Keys :
         /\ started[j] <= g + 1
         /\ entries[j].state \notin {"pending", "match"} => started[j] <= g
  BY DEF CacheOK
<1>9. \A j \in Keys : \A u \in Running(j) :
         /\ tuneGen[u] <= g
         /\ entries[j].state \notin {"pending", "match"} => tuneGen[u] < g
  BY DEF CacheOK
<1>10. \A j \in Keys : \A u, v \in Running(j) : u # v => tuneGen[u] # tuneGen[v]
  BY DEF CacheOK
<1> HIDE DEF entry, g
<1>11. CASE entry.state \in {"match", "pending"}
  <2>1. /\ cache' = [entries EXCEPT ![k] = entry] /\ Return(t) /\ started' = started
    BY <1>5, <1>11
  <2>2. /\ key' = [key EXCEPT ![t] = AnyKey] /\ tuneGen' = [tuneGen EXCEPT ![t] = 0] /\ Goto(t, "idle")
    BY <2>1 DEF Return
  <2>3. AnyKey \in Keys
    BY TunerAssumption DEF AnyKey
  <2>4. /\ key' \in [Threads -> Keys] /\ tuneGen' \in [Threads -> Nat]
        /\ \A u \in Threads : tuneGen'[u] <= generation
        /\ \A u \in Threads : u # t => key'[u] = key[u] /\ tuneGen'[u] = tuneGen[u]
    BY <1>1, <2>2, <2>3
  <2>5. pc'[t] = "idle" /\ \A u \in Threads : u # t => pc'[u] = pc[u]
    BY <1>1, <2>2, OneMoves DEF Labels
  <2>6. \A j \in Keys : Running(j)' = Running(j)
    BY <2>4, <2>5, RunningSame DEF RunLabels
  <2>7. \A j \in Keys : \A u \in Running(j) : tuneGen'[u] = tuneGen[u]
    BY <2>4 DEF Running, RunLabels
  <2>8. /\ cache' \in [Keys -> CacheEntries]
        /\ cache'[k] = entry /\ \A j \in Keys : j # k => cache'[j] = entries[j]
    BY <1>1, <1>3, <1>4, <2>1
  <2>9. \A j \in Keys :
          /\ cache'[j].from = entries[j].from
          /\ cache'[j].state = "pending" => entries[j].state = "pending"
          /\ cache'[j].state = "match" => cache'[j].list = list
          /\ cache'[j].state \notin {"pending", "match"} => entries[j].state \notin {"pending", "match"}
    <3>1. TAKE j \in Keys
    <3>2. CASE j # k
      BY <1>7, <2>8, <3>2
    <3>3. CASE j = k
      <4>1. entries[k].state = "match" => entries[k].list = list
        BY <1>1, <1>7
      <4> QED
        BY <2>8, <3>3, <1>4, <1>11, <4>1
    <3> QED
      BY <3>2, <3>3
  <2>10. CacheOK(cache, cacheGen)'
    <3>1. \A j \in Keys :
            /\ g = generation => cache'[j].from \in {Here, active}
            /\ cache'[j].state = "pending" => j \in panicked' \/ Running(j)' # {}
      <4>1. TAKE j \in Keys
      <4> QED
        BY <1>5, <1>6, <1>7, <2>6, <2>9
    <3>2. \A j \in Keys :
            /\ started'[j] <= g + 1
            /\ cache'[j].state \notin {"pending", "match"} => started'[j] <= g
      BY <1>8, <2>1, <2>9
    <3>3. \A j \in Keys : \A u \in Running(j)' :
            /\ tuneGen'[u] <= g
            /\ cache'[j].state \notin {"pending", "match"} => tuneGen'[u] < g
      <4>1. TAKE j \in Keys
      <4>2. TAKE u \in Running(j)'
      <4>3. u \in Running(j) /\ tuneGen'[u] = tuneGen[u]
        BY <2>6, <2>7, <4>1, <4>2
      <4>4. /\ tuneGen[u] <= g
            /\ entries[j].state \notin {"pending", "match"} => tuneGen[u] < g
        BY <1>9, <4>1, <4>3
      <4> QED
        BY <4>1, <4>3, <4>4, <2>9
    <3>4. \A j \in Keys : \A u, v \in Running(j)' : u # v => tuneGen'[u] # tuneGen'[v]
      BY <1>10, <2>6, <2>7
    <3> QED
      BY <1>2, <2>8, <2>9, <3>1, <3>2, <3>3, <3>4 DEF CacheOK, g
  <2> QED
    BY <1>1, <1>5, <2>1, <2>2, <2>4, <2>10
<1>12. CASE entry.state \notin {"match", "pending"}
  <2>1. /\ cache' = [entries EXCEPT ![k] = Pending] /\ Goto(t, "tune")
        /\ tuneGen' = [tuneGen EXCEPT ![t] = g]
        /\ started' = [started EXCEPT ![k] = @ + 1] /\ key' = key
    BY <1>5, <1>12
  <2>2. /\ tuneGen' \in [Threads -> Nat] /\ tuneGen'[t] = g
        /\ \A u \in Threads : u # t => tuneGen'[u] = tuneGen[u]
    BY <1>1, <1>2, <2>1
  <2>3. \A u \in Threads : tuneGen'[u] <= generation
    BY <1>1, <1>2, <2>2
  <2>4. /\ started' \in [Keys -> Nat] /\ started'[k] = started[k] + 1
        /\ \A j \in Keys : j # k => started'[j] = started[j]
    BY <1>1, <2>1
  <2>5. pc'[t] = "tune" /\ \A u \in Threads : u # t => pc'[u] = pc[u]
    BY <1>1, <2>1, OneMoves DEF Labels
  <2>6. /\ Running(k)' = Running(k) \cup {t}
        /\ \A j \in Keys : j # k => Running(j)' = Running(j)
        /\ \A j \in Keys : t \notin Running(j)
    BY <1>1, <2>1, <2>5 DEF Running, RunLabels
  <2>7. Pending \in CacheEntries /\ Pending.state = "pending" /\ Pending.from = Here
    BY DEF Pending, Entry, CacheEntries, States
  <2>8. /\ cache' \in [Keys -> CacheEntries]
        /\ cache'[k] = Pending /\ \A j \in Keys : j # k => cache'[j] = entries[j]
    BY <1>1, <1>3, <2>1, <2>7
  <2>9. entries[k].state \notin {"pending", "match"}
    BY <1>4, <1>12
  <2>10. \A j \in Keys :
         /\ g = generation => cache'[j].from \in {Here, active}
         /\ cache'[j].state = "pending" => j \in panicked' \/ Running(j)' # {}
         /\ cache'[j].state = "match" => cache'[j].list = list
    <3>1. TAKE j \in Keys
    <3>2. CASE j # k
      <4>1. cache'[j] = entries[j] /\ Running(j)' = Running(j)
        BY <2>6, <2>8, <3>2
      <4> QED
        BY <4>1, <1>5, <1>6, <1>7
    <3>3. CASE j = k
      <4>1. cache'[j] = Pending /\ Running(j)' # {}
        BY <2>6, <2>8, <3>3
      <4> QED
        BY <4>1, <2>7
    <3> QED
      BY <3>2, <3>3
  <2>11. \A j \in Keys :
           /\ started'[j] <= g + 1
           /\ cache'[j].state \notin {"pending", "match"} => started'[j] <= g
    <3>1. TAKE j \in Keys
    <3>2. CASE j # k
      BY <1>8, <2>4, <2>8, <3>2
    <3>3. CASE j = k
      <4>1. started[k] <= g /\ started[k] \in Nat
        BY <1>1, <1>8, <2>9
      <4>2. started'[k] <= g + 1
        BY <4>1, <2>4, <1>2
      <4> QED
        BY <3>3, <4>2, <2>7, <2>8
    <3> QED
      BY <3>2, <3>3
  <2>12. \A j \in Keys : \A u \in Running(j)' :
           /\ tuneGen'[u] <= g
           /\ cache'[j].state \notin {"pending", "match"} => tuneGen'[u] < g
    <3>1. TAKE j \in Keys
    <3>2. TAKE u \in Running(j)'
    <3>3. CASE j # k
      <4>1. u \in Running(j) /\ u \in Threads /\ u # t
        BY <3>1, <3>2, <3>3, <2>6 DEF Running
      <4> QED
        BY <1>9, <4>1, <2>2, <2>8, <3>1, <3>3
    <3>4. CASE j = k /\ u = t
      BY <3>4, <1>2, <2>2, <2>7, <2>8
    <3>5. CASE j = k /\ u # t
      <4>1. u \in Running(k) /\ u \in Threads
        BY <3>1, <3>2, <3>5, <2>6 DEF Running
      <4>2. tuneGen[u] <= g /\ tuneGen'[u] = tuneGen[u]
        BY <1>9, <4>1, <1>1, <2>2, <3>5
      <4> QED
        BY <4>2, <2>7, <2>8, <3>5
    <3> QED
      BY <3>3, <3>4, <3>5
  <2>13. \A j \in Keys : \A u, v \in Running(j)' : u # v => tuneGen'[u] # tuneGen'[v]
    <3>1. \A u \in Running(k) : tuneGen[u] < g
      BY <1>1, <1>9, <2>9
    <3>2. \A u \in Running(k) : tuneGen[u] # g
      <4>1. TAKE u \in Running(k)
      <4>2. tuneGen[u] \in Nat /\ tuneGen[u] < g
        BY <1>1, <3>1, <4>1 DEF Running
      <4> QED
        BY <4>2, <1>2
    <3>3. \A j \in Keys : \A u \in Running(j) : u \in Threads /\ u # t
      BY <2>6 DEF Running
    <3>4. \A j \in Keys : \A u \in Running(j) : tuneGen'[u] = tuneGen[u]
      BY <2>2, <3>3
    <3>5. \A j \in Keys : \A u, v \in Running(j) : u # v => tuneGen'[u] # tuneGen'[v]
      BY <1>10, <3>4
    <3>6. \A u \in Running(k) : tuneGen'[u] # tuneGen'[t]
      BY <1>1, <2>2, <3>2, <3>4
    <3>7. \A u, v \in Running(k)' : u # v => tuneGen'[u] # tuneGen'[v]
      <4>1. TAKE u, v \in Running(k)'
      <4>2. CASE u = t \/ v = t
        BY <2>6, <3>6, <4>1, <4>2
      <4>3. CASE u # t /\ v # t
        BY <1>1, <2>6, <3>5, <4>1, <4>3
      <4> QED
        BY <4>2, <4>3
    <3>8. TAKE j \in Keys
    <3>9. CASE j # k
      BY <2>6, <3>5, <3>9
    <3>10. CASE j = k
      BY <3>7, <3>10
    <3> QED
      BY <3>9, <3>10
  <2>14. CacheOK(cache, cacheGen)'
    BY <1>2, <2>8, <2>10, <2>11, <2>12, <2>13 DEF CacheOK, g
  <2> QED
    BY <1>1, <1>5, <2>1, <2>2, <2>3, <2>4, <2>14
<1> QED
  BY <1>11, <1>12

-----------------------------------------------------------------------------
(* The steps *)

\* FreshIsActive is about the store and the cache.
LEMMA FreshParts == FreshStore' /\ FreshCache' => FreshIsActive'
BY DEF FreshStore, FreshCache, FreshIsActive

\* Types that a step with the storage and the environment unchanged keeps.
LEMMA StoreTypesKept ==
  ASSUME Inv, UNCHANGED <<active, generation, storage, storeGen, storeEnv, foreign>>
  PROVE  StoreTypes' /\ generation' \in Nat
<1>1. StoreTypes
  BY DEF Inv
<1>2. generation \in Nat
  BY <1>1, Generations
<1> QED
  BY <1>1, <1>2 DEF StoreTypes

LEMMA NewStep ==
  ASSUME Inv, NEW t \in Threads, NEW k \in Keys, New(t, k)
  PROVE  Inv'
<1> USE DEF envVars, storeVars, durable, process, tuning
<1>1. /\ StoreTypes /\ CacheTypes /\ ThreadTypes /\ LockInv /\ FreshIsActive /\ UseInv /\ CacheInv
  BY DEF Inv
<1>2. /\ UNCHANGED <<active, generation, storage, storeGen, storeEnv, foreign, list, cache, hydrated,
                     lock, op, tuneGen, started, panicked>>
      /\ tuner = "none" /\ tuner' = "new" /\ cacheGen' = generation
      /\ key' = [key EXCEPT ![t] = k] /\ Goto(t, "new store")
  BY DEF New
<1>3. /\ pc' \in [Threads -> Labels] /\ pc'[t] = "new store"
      /\ \A u \in Threads : u # t => pc'[u] = pc[u]
  BY <1>1, <1>2, OneMoves DEF Labels
<1>4. /\ \A u \in Threads : pc[u] = "idle"
      /\ lock = NoThread /\ \A j \in Keys : cache[j] = Miss
  BY <1>1, <1>2 DEF LockInv
<1>5. StoreTypes' /\ generation' \in Nat
  BY <1>2, StoreTypesKept
<1>6. generation \in 0 .. generation /\ generation \in Nat
  BY <1>1, Generations
<1>7. CacheTypes'
  BY <1>1, <1>2, <1>6 DEF CacheTypes
<1>8. ThreadTypes'
  BY <1>1, <1>2, <1>3 DEF ThreadTypes
<1>9. LockInv'
  <2>1. \A u \in Threads : u # t => pc'[u] = "idle" /\ ~Making(u)' /\ ~InStore(u)'
    BY <1>3, <1>4 DEF Making, InStore
  <2>2. Making(t)'
    BY <1>3 DEF Making
  <2> QED
    BY <1>2, <1>3, <1>4, <2>1, <2>2 DEF LockInv, Miss, Entry
<1>10. \A j \in Keys : Running(j) = {} /\ Running(j)' = {}
  BY <1>3, <1>4 DEF Running
<1>11. \A j \in Keys : cache'[j].state = "miss" /\ cache'[j].from = Here
  <2>1. Miss.state = "miss" /\ Miss.from = Here
    BY DEF Miss, Entry
  <2> QED
    BY <1>2, <1>4, <2>1
<1>12. FreshIsActive' /\ UseInv'
  BY <1>1, <1>2, <1>3, <1>4, <1>11 DEF FreshIsActive, UseInv
<1>13. CacheInv'
  <2>1. CacheOK(cache, cacheGen)
    BY CacheIsOK
  <2>2. \A j \in Keys : cache[j].state = "miss"
    BY <1>2, <1>11
  <2>3. \A j \in Keys : started[j] <= cacheGen /\ started[j] \in Nat
    BY <1>1, <2>1, <2>2 DEF CacheOK, CacheTypes
  <2>4. cacheGen \in Nat /\ cacheGen <= generation
    BY <1>1, <1>6 DEF CacheTypes
  <2>5. \A j \in Keys : started'[j] <= cacheGen' /\ started'[j] <= cacheGen' + 1
    <3>1. started' = started /\ cacheGen' = generation
      BY <1>2
    <3>2. TAKE j \in Keys
    <3>3. started[j] \in Nat /\ started[j] <= cacheGen
      BY <2>3
    <3>4. started[j] <= generation /\ started[j] <= generation + 1
      BY <1>6, <2>4, <3>3
    <3> QED
      BY <3>1, <3>4
  <2>6. cacheGen' \in 0 .. generation' /\ cache' \in [Keys -> CacheEntries] /\ started' \in [Keys -> Nat]
    BY <1>7 DEF CacheTypes
  <2>7. CacheOK(cache, cacheGen)'
    BY <1>10, <1>11, <2>5, <2>6 DEF CacheOK
  <2> QED
    BY <1>5, <2>6, <2>7, OKIsCache
<1> QED
  BY <1>5, <1>7, <1>8, <1>9, <1>12, <1>13 DEF Inv

\* What execute's return leaves of its thread.
LEMMA Returned ==
  ASSUME ThreadTypes, generation \in Nat, NEW t \in Threads, Return(t)
  PROVE  /\ Goto(t, "idle")
         /\ key' \in [Threads -> Keys] /\ tuneGen' \in [Threads -> Nat]
         /\ \A u \in Threads : tuneGen'[u] <= generation
         /\ \A u \in Threads : u # t => key'[u] = key[u] /\ tuneGen'[u] = tuneGen[u]
<1>1. AnyKey \in Keys
  BY TunerAssumption DEF AnyKey
<1> QED
  BY <1>1 DEF Return, ThreadTypes

\* execute up to the fast path.
LEMMA ProbeStep ==
  ASSUME Inv, NEW t \in Threads, NEW k \in Keys, Probe(t, k)
  PROVE  Inv'
<1> USE DEF envVars, storeVars, durable, process
<1>1. /\ StoreTypes /\ CacheTypes /\ ThreadTypes /\ LockInv /\ FreshIsActive /\ UseInv /\ CacheInv
  BY DEF Inv
<1>2. /\ UNCHANGED <<active, generation, storage, storeGen, storeEnv, foreign, list, restarts, op,
                     lock, tuner, started, panicked>>
      /\ lock = NoThread /\ ResetIfSwitched /\ cache' = Kept
      /\ pc[t] \in {"idle", "probe"}
  BY DEF Probe
<1>3. tuner = "ready"
  BY Ready DEF Probe, Making
<1>4. \/ Return(t)
      \/ key' = [key EXCEPT ![t] = k] /\ Goto(t, "check") /\ UNCHANGED tuneGen
  BY DEF Probe
<1>5. StoreTypes' /\ generation' \in Nat /\ generation \in Nat
  BY <1>1, <1>2, StoreTypesKept, Generations
<1>6. /\ Goto(t, "idle") \/ Goto(t, "check")
      /\ key' \in [Threads -> Keys] /\ tuneGen' \in [Threads -> Nat]
      /\ \A u \in Threads : tuneGen'[u] <= generation
      /\ \A u \in Threads : u # t => key'[u] = key[u] /\ tuneGen'[u] = tuneGen[u]
  <2>1. CASE Return(t)
    BY <1>1, <1>5, <2>1, Returned
  <2>2. CASE key' = [key EXCEPT ![t] = k] /\ Goto(t, "check") /\ UNCHANGED tuneGen
    BY <1>1, <2>2 DEF ThreadTypes
  <2> QED
    BY <1>4, <2>1, <2>2
<1>7. PICK l \in {"idle", "check"} : Goto(t, l)
  BY <1>6
<1>8. /\ pc' \in [Threads -> Labels] /\ pc'[t] = l
      /\ \A u \in Threads : u # t => pc'[u] = pc[u]
  BY <1>1, <1>7, OneMoves DEF Labels
<1>9. ThreadTypes'
  BY <1>1, <1>2, <1>6, <1>8 DEF ThreadTypes
<1>10. \A u \in Threads : ~InStore(u)
  BY <1>2, <1>3, LockFree
<1>11. LockInv' /\ FreshStore' /\ UseInv'
  BY <1>2, <1>3, <1>7, <1>10, ThreadMoves
<1>12. \A j \in Keys : Running(j)' = Running(j)
  BY <1>2, <1>6, <1>8, RunningSame DEF RunLabels
<1>13. \A j \in Keys : \A u \in Running(j) : tuneGen'[u] = tuneGen[u]
  BY <1>2, <1>6 DEF Running
<1>14. CacheOK(cache, cacheGen)'
  <2>1. CacheOK(Kept, generation)
    BY KeptOK
  <2>2. cache' = Kept /\ cacheGen' = generation
    BY <1>2 DEF ResetIfSwitched
  <2> QED
    BY <1>2, <1>12, <1>13, <2>1, <2>2, CacheReplaced
<1>15. started' \in [Keys -> Nat] /\ list' \in Lists /\ hydrated' \in BOOLEAN
  BY <1>1, <1>2 DEF CacheTypes, ResetIfSwitched
<1>16. CacheInv' /\ FreshCache' /\ cache' \in [Keys -> CacheEntries] /\ cacheGen' \in 0 .. generation'
  BY <1>5, <1>14, <1>15, OKIsCache
<1>17. CacheTypes' /\ FreshIsActive'
  BY <1>11, <1>15, <1>16, FreshParts DEF CacheTypes
<1> QED
  BY <1>5, <1>9, <1>11, <1>16, <1>17 DEF Inv

\* Both locked sections of check_tune that end in a hit or a tune.
LEMMA ResolveStep ==
  ASSUME Inv, NEW t \in Threads, pc[t] \in {"check", "use"}, tuner = "ready",
         lock = NoThread \/ lock = t,
         NEW entries, CacheOK(entries, cacheGen'), Resolve(t, entries),
         cacheGen' = cacheGen \/ lock = NoThread, hydrated' \in BOOLEAN,
         UNCHANGED <<active, generation, storage, storeGen, storeEnv, foreign, list, op, tuner>>
  PROVE  Inv'
<1>1. /\ StoreTypes /\ CacheTypes /\ ThreadTypes /\ LockInv
  BY DEF Inv
<1>2. PICK k \in Keys : k = key[t]
  BY <1>1 DEF ThreadTypes
<1>3. StoreTypes' /\ generation' \in Nat
  BY StoreTypesKept
<1>4. pc[t] \notin RunLabels
  BY DEF RunLabels
<1>5. /\ CacheOK(cache, cacheGen)'
      /\ started' \in [Keys -> Nat]
      /\ key' \in [Threads -> Keys]
      /\ tuneGen' \in [Threads -> Nat] /\ \A u \in Threads : tuneGen'[u] <= generation
      /\ lock' = NoThread /\ (Goto(t, "idle") \/ Goto(t, "tune"))
  BY <1>2, <1>4, ResolveOK
<1>6. PICK l \in {"idle", "tune"} : Goto(t, l)
  BY <1>5
<1>7. pc' \in [Threads -> Labels]
  BY <1>1, <1>6, OneMoves DEF Labels
<1>8. ThreadTypes'
  BY <1>1, <1>5, <1>7 DEF ThreadTypes
<1>9. /\ \A u \in Threads : u # t => ~InStore(u)
      /\ lock = NoThread => \A u \in Threads : ~InStore(u)
  BY <1>1, TunerAssumption DEF LockInv
<1>10. LockInv' /\ FreshStore' /\ UseInv'
  BY <1>5, <1>6, <1>9, ThreadMoves
<1>11. CacheInv' /\ FreshCache' /\ cache' \in [Keys -> CacheEntries] /\ cacheGen' \in 0 .. generation'
  BY <1>3, <1>5, OKIsCache
<1>12. CacheTypes' /\ FreshIsActive'
  BY <1>1, <1>5, <1>10, <1>11, FreshParts DEF CacheTypes
<1> QED
  BY <1>3, <1>8, <1>10, <1>11, <1>12 DEF Inv

\* check_tune up to the store.
LEMMA CheckStep ==
  ASSUME Inv, NEW t \in Threads, Check(t)
  PROVE  Inv'
<1> USE DEF envVars, storeVars, durable, process, tuning
<1>1. /\ StoreTypes /\ CacheTypes /\ ThreadTypes /\ LockInv
  BY DEF Inv
<1>2. /\ pc[t] = "check" /\ lock = NoThread /\ ResetIfSwitched
      /\ UNCHANGED <<active, generation, storage, storeGen, storeEnv, foreign, list, tuner>>
  BY DEF Check
<1>3. tuner = "ready"
  BY <1>2, Ready DEF Making
<1>4. cacheGen' = generation /\ hydrated' \in BOOLEAN
  BY <1>2 DEF ResetIfSwitched
<1>5. CacheOK(Kept, generation)
  BY KeptOK
<1>6. CASE Resolve(t, Kept) /\ UNCHANGED op
  BY <1>2, <1>3, <1>4, <1>5, <1>6, ResolveStep
<1>7. CASE /\ cache' = Kept /\ lock' = t
           /\ op' = [op EXCEPT ![t] = "check"] /\ Goto(t, "fresh")
           /\ UNCHANGED <<key, tuneGen, started, panicked>>
  <2>1. StoreTypes' /\ generation' \in Nat
    BY <1>2, StoreTypesKept
  <2>2. /\ pc' \in [Threads -> Labels] /\ pc'[t] = "fresh"
        /\ \A u \in Threads : u # t => pc'[u] = pc[u]
    BY <1>1, <1>7, OneMoves DEF Labels
  <2>3. /\ op' \in [Threads -> {"new", "check", "store"}] /\ op'[t] = "check"
        /\ \A u \in Threads : u # t => op'[u] = op[u]
    BY <1>1, <1>7 DEF ThreadTypes
  <2>4. ThreadTypes'
    BY <1>1, <1>2, <1>7, <2>2, <2>3 DEF ThreadTypes
  <2>5. \A u \in Threads : ~InStore(u)
    BY <1>2, <1>3, LockFree
  <2>6. LockInv' /\ FreshStore' /\ UseInv'
    BY <1>2, <1>3, <1>7, <2>3, <2>5, ThreadMoves
  <2>7. \A j \in Keys : Running(j)' = Running(j)
    BY <1>2, <1>7, <2>2, RunningSame DEF RunLabels
  <2>8. CacheOK(cache, cacheGen)'
    BY <1>2, <1>4, <1>5, <1>7, <2>7, CacheReplaced
  <2>9. started' \in [Keys -> Nat] /\ list' \in Lists
    BY <1>1, <1>2, <1>7 DEF CacheTypes
  <2>10. CacheInv' /\ FreshCache' /\ cache' \in [Keys -> CacheEntries] /\ cacheGen' \in 0 .. generation'
    BY <2>1, <2>8, <2>9, OKIsCache
  <2>11. CacheTypes' /\ FreshIsActive'
    BY <1>4, <2>6, <2>9, <2>10, FreshParts DEF CacheTypes
  <2> QED
    BY <2>1, <2>4, <2>6, <2>10, <2>11 DEF Inv
<1> QED
  BY <1>6, <1>7 DEF Check

\* The rest of check_tune's locked section.
LEMMA HydrateAndResolveStep ==
  ASSUME Inv, NEW t \in Threads, HydrateAndResolve(t)
  PROVE  Inv'
<1> USE DEF envVars, storeVars, durable, process
<1>1. /\ pc[t] = "use" /\ op[t] = "check" /\ hydrated' \in BOOLEAN /\ cacheGen' = cacheGen
      /\ UNCHANGED <<active, generation, storage, storeGen, storeEnv, foreign, list, op, tuner>>
  BY DEF HydrateAndResolve
<1>2. PICK first \in Orders : Resolve(t, Ingested(first))
  BY DEF HydrateAndResolve
<1>3. CacheOK(Ingested(first), cacheGen)
  BY <1>1, IngestedOK
<1>4. InStore(t) /\ ~Making(t)
  BY <1>1 DEF InStore, Making
<1>5. tuner = "ready" /\ lock = t
  BY <1>1, <1>4, Ready DEF Inv, LockInv
<1> QED
  BY <1>1, <1>2, <1>3, <1>5, ResolveStep

\* The end of TuneCache::new.
LEMMA HydrateStep ==
  ASSUME Inv, NEW t \in Threads, Hydrate(t)
  PROVE  Inv'
<1> USE DEF envVars, storeVars, durable, process, tuning
<1>1. /\ StoreTypes /\ CacheTypes /\ ThreadTypes /\ LockInv /\ FreshIsActive
  BY DEF Inv
<1>2. /\ pc[t] = "use" /\ op[t] = "new" /\ hydrated' = TRUE /\ tuner' = "ready" /\ Goto(t, "probe")
      /\ UNCHANGED <<active, generation, storage, storeGen, storeEnv, foreign, list, cacheGen, key,
                     op, lock, tuneGen, started, panicked>>
  BY DEF Hydrate
<1>3. PICK first \in Orders : cache' = Ingested(first)
  BY DEF Hydrate
<1>4. CacheOK(Ingested(first), cacheGen)
  BY <1>2, IngestedOK
<1>5. StoreTypes' /\ generation' \in Nat
  BY <1>2, StoreTypesKept
<1>6. /\ pc' \in [Threads -> Labels] /\ pc'[t] = "probe"
      /\ \A u \in Threads : u # t => pc'[u] = pc[u]
  BY <1>1, <1>2, OneMoves DEF Labels
<1>7. ThreadTypes'
  BY <1>1, <1>2, <1>6 DEF ThreadTypes
<1>8. \A u \in Threads : u # t => pc'[u] = "idle"
  BY <1>1, <1>2, <1>6 DEF LockInv, Making
<1>9. LockInv' /\ UseInv'
  <2>1. \A u \in Threads : ~Making(u)' /\ ~InStore(u)' /\ pc'[u] # "use" /\ pc'[u] # "new open"
    BY <1>6, <1>8 DEF Making, InStore
  <2> QED
    BY <1>2, <2>1 DEF LockInv, UseInv
<1>10. FreshStore'
  BY <1>1, <1>2, <1>6 DEF FreshStore, FreshIsActive
<1>11. \A j \in Keys : Running(j)' = Running(j)
  BY <1>2, <1>6, RunningSame DEF RunLabels
<1>12. CacheOK(cache, cacheGen)'
  BY <1>2, <1>3, <1>4, <1>11, CacheReplaced
<1>13. started' \in [Keys -> Nat] /\ list' \in Lists
  BY <1>1, <1>2 DEF CacheTypes
<1>14. CacheInv' /\ FreshCache' /\ cache' \in [Keys -> CacheEntries] /\ cacheGen' \in 0 .. generation'
  BY <1>5, <1>12, <1>13, OKIsCache
<1>15. CacheTypes' /\ FreshIsActive'
  BY <1>2, <1>10, <1>13, <1>14, FreshParts DEF CacheTypes
<1> QED
  BY <1>5, <1>7, <1>9, <1>14, <1>15 DEF Inv

\* A step of one thread that leaves the cache alone.
LEMMA QuietStep ==
  ASSUME Inv, NEW t \in Threads, tuner = "ready",
         UNCHANGED <<active, generation, storeGen, storeEnv, tuner, list, cache, hydrated, cacheGen,
                     started>>,
         StoreTypes', op' \in [Threads -> {"new", "check", "store"}],
         NEW l \in {"idle", "measured", "guessed", "fresh", "repair"}, Goto(t, l),
         pc[t] \in {"tune", "store", "use", "repair"},
         \A u \in Threads : u # t => op'[u] = op[u],
         l = "fresh" => op'[t] # "new" /\ lock' = t,
         l = "repair" => lock' = t,
         lock' = lock \/ \A u \in Threads : u # t => ~InStore(u),
         lock' = lock \/ lock' = t \/ lock' = NoThread,
         \/ UNCHANGED <<key, tuneGen>> /\ (pc[t] = "tune" <=> l \in {"measured", "guessed"})
         \/ Return(t) /\ (pc[t] = "tune" => key[t] \in panicked'),
         panicked \subseteq panicked'
  PROVE  Inv'
<1>1. /\ StoreTypes /\ CacheTypes /\ ThreadTypes /\ CacheInv /\ FreshIsActive
  BY DEF Inv
<1>2. /\ pc' \in [Threads -> Labels] /\ pc'[t] = l
      /\ \A u \in Threads : u # t => pc'[u] = pc[u]
  BY <1>1, OneMoves DEF Labels
<1>3. generation \in Nat
  BY <1>1, Generations
<1>4. /\ key' \in [Threads -> Keys] /\ tuneGen' \in [Threads -> Nat]
      /\ \A u \in Threads : tuneGen'[u] <= generation
      /\ \A u \in Threads : u # t => key'[u] = key[u] /\ tuneGen'[u] = tuneGen[u]
  <2>1. CASE UNCHANGED <<key, tuneGen>>
    BY <1>1, <2>1 DEF ThreadTypes
  <2>2. CASE Return(t)
    BY <1>1, <1>3, <2>2, Returned
  <2> QED
    BY <2>1, <2>2
<1>5. ThreadTypes'
  <2>1. lock' \in Threads \cup {NoThread}
    BY <1>1 DEF ThreadTypes
  <2> QED
    BY <1>1, <1>2, <1>4, <2>1 DEF ThreadTypes
<1>6. CacheTypes'
  BY <1>1 DEF CacheTypes
<1>7. LockInv' /\ FreshStore' /\ UseInv'
  BY ThreadMoves
<1>8. FreshIsActive'
  BY <1>1, <1>7 DEF FreshIsActive, FreshStore
<1>9. Return(t) => pc'[t] = "idle"
  BY <1>1 DEF Return, Goto, ThreadTypes
<1>10. /\ \A k \in Keys : Running(k)' \subseteq Running(k)
       /\ \A k \in Keys : k \in panicked' \/ Running(k)' = Running(k)
  <2>1. CASE /\ UNCHANGED <<key, tuneGen>> /\ (pc[t] = "tune" <=> l \in {"measured", "guessed"})
    <3>1. \A u \in Threads : pc'[u] \in {"tune", "measured", "guessed"}
                               <=> pc[u] \in {"tune", "measured", "guessed"}
      BY <1>2, <2>1
    <3>2. \A u \in Threads : key'[u] = key[u]
      BY <2>1
    <3>3. \A k \in Keys : Running(k)' = Running(k)
      <4>1. TAKE k \in Keys
      <4>2. \A u : u \in Running(k)' <=> u \in Running(k)
        BY <3>1, <3>2 DEF Running
      <4> QED
        BY <4>2, Zenon
    <3> QED
      BY <3>3
  <2>2. CASE Return(t) /\ pc[t] # "tune"
    <3>1. pc[t] \notin RunLabels /\ pc'[t] \notin RunLabels
      BY <1>9, <2>2 DEF RunLabels
    <3> QED
      BY <1>2, <1>4, <3>1, RunningSame
  <2>3. CASE Return(t) /\ pc[t] = "tune" /\ key[t] \in panicked'
    <3>1. \A k \in Keys : Running(k)' = Running(k) \ {t}
      BY <1>2, <1>4, <1>9, <2>3 DEF Running
    <3>2. \A k \in Keys : k # key[t] => t \notin Running(k)
      BY DEF Running
    <3>3. \A k \in Keys : k # key[t] => Running(k)' = Running(k)
      BY <3>1, <3>2
    <3>4. \A k \in Keys : Running(k)' \subseteq Running(k)
      BY <3>1
    <3>5. \A k \in Keys : k \in panicked' \/ Running(k)' = Running(k)
      BY <2>3, <3>3
    <3> QED
      BY <3>4, <3>5
  <2> QED
    BY <2>1, <2>2, <2>3
<1>11. \A k \in Keys : \A u \in Running(k)' : tuneGen'[u] = tuneGen[u]
  <2>1. CASE UNCHANGED <<key, tuneGen>>
    BY <2>1
  <2>2. CASE Return(t)
    BY <1>4, <1>9, <2>2 DEF Running
  <2> QED
    BY <2>1, <2>2
<1>12. CacheInv'
  BY <1>1, <1>10, <1>11, CacheKept
<1> QED
  BY <1>5, <1>6, <1>7, <1>8, <1>12 DEF Inv

LEMMA BenchmarkStep ==
  ASSUME Inv, NEW t \in Threads, NEW outcome \in {"measured", "guessed"}, Benchmark(t, outcome)
  PROVE  Inv'
<1> USE DEF envVars, storeVars, durable, process, cacheVars, tuning
<1>1. /\ pc[t] = "tune" /\ Goto(t, outcome)
      /\ UNCHANGED <<active, generation, storage, storeGen, storeEnv, foreign, tuner, list, cache,
                     hydrated, cacheGen, started, key, tuneGen, op, lock, panicked>>
  BY DEF Benchmark
<1>2. tuner = "ready" /\ StoreTypes' /\ op' \in [Threads -> {"new", "check", "store"}]
  BY <1>1, Ready, StoreTypesKept DEF Making, Inv, ThreadTypes
<1> QED
  BY <1>1, <1>2, QuietStep

LEMMA TunePanicsStep ==
  ASSUME Inv, NEW t \in Threads, TunePanics(t)
  PROVE  Inv'
<1> USE DEF envVars, storeVars, durable, process, cacheVars
<1>1. /\ pc[t] = "tune" /\ Return(t) /\ Goto(t, "idle") /\ panicked' = panicked \cup {key[t]}
      /\ UNCHANGED <<active, generation, storage, storeGen, storeEnv, foreign, tuner, list, cache,
                     hydrated, cacheGen, started, op, lock>>
  BY DEF TunePanics, Return
<1>2. tuner = "ready" /\ StoreTypes' /\ op' \in [Threads -> {"new", "check", "store"}]
  BY <1>1, Ready, StoreTypesKept DEF Making, Inv, ThreadTypes
<1>3. panicked \subseteq panicked' /\ key[t] \in panicked'
  BY <1>1
<1> QED
  BY <1>1, <1>2, <1>3, QuietStep

LEMMA StoreAnswerStep ==
  ASSUME Inv, NEW t \in Threads, StoreAnswer(t)
  PROVE  Inv'
<1> USE DEF envVars, storeVars, durable, process, cacheVars, tuning
<1>1. /\ pc[t] = "store" /\ lock = NoThread /\ lock' = t /\ Goto(t, "fresh")
      /\ op' = [op EXCEPT ![t] = "store"]
      /\ UNCHANGED <<active, generation, storage, storeGen, storeEnv, foreign, tuner, list, cache,
                     hydrated, cacheGen, started, key, tuneGen, panicked>>
  BY DEF StoreAnswer
<1>2. tuner = "ready" /\ StoreTypes'
  BY <1>1, Ready, StoreTypesKept DEF Making
<1>3. /\ op' \in [Threads -> {"new", "check", "store"}] /\ op'[t] = "store"
      /\ \A u \in Threads : u # t => op'[u] = op[u]
  BY <1>1 DEF Inv, ThreadTypes
<1>4. \A u \in Threads : ~InStore(u)
  BY <1>1, <1>2, LockFree
<1> QED
  BY <1>1, <1>2, <1>3, <1>4, QuietStep

\* A row that is written holds an entry.
LEMMA RowWritten ==
  ASSUME Inv, NEW e \in Envs, NEW k \in StoreKeys, NEW v \in Values \cup ForeignValues,
         NEW origin \in Origins,
         \/ Insert(e, k, v, origin)
         \/ storage' = [storage EXCEPT ![e][k] = [value |-> v, origin |-> origin]]
         \/ UNCHANGED storage
  PROVE  storage' \in [Envs -> [StoreKeys -> Entries \cup {Absent}]]
<1>1. storage \in [Envs -> [StoreKeys -> Entries \cup {Absent}]]
  BY DEF Inv, StoreTypes
<1>2. [value |-> v, origin |-> origin] \in Entries
  BY DEF Entries
<1>3. \/ storage' = storage
      \/ storage' = [storage EXCEPT ![e][k] = [value |-> v, origin |-> origin]]
  BY DEF Insert
<1> QED
  BY <1>1, <1>2, <1>3

\* write_through and its repair, which release the mutex unless the repair
\* is still to come.
LEMMA WriteStep ==
  ASSUME Inv, NEW t \in Threads, NEW v \in Values, Write(t, v) \/ Repair(t, v)
  PROVE  Inv'
<1> USE DEF envVars, storeVars, process, cacheVars
<1>1. /\ pc[t] \in {"use", "repair"} /\ (pc[t] = "use" => op[t] = "store")
      /\ UNCHANGED <<active, generation, storeGen, storeEnv, foreign, tuner, list, cache,
                     hydrated, cacheGen, started, op, panicked>>
  BY DEF Write, Repair
<1>2. \/ Goto(t, "repair") /\ UNCHANGED <<key, tuneGen, lock>>
      \/ Return(t) /\ Goto(t, "idle") /\ lock' = NoThread
  BY DEF Write, Repair, Return
<1>3. InStore(t) /\ ~Making(t)
  BY <1>1 DEF InStore, Making
<1>4. tuner = "ready" /\ lock = t
  BY <1>1, <1>3, Ready DEF Inv, LockInv
<1>5. StoreTypes' /\ op' \in [Threads -> {"new", "check", "store"}]
  <2>1. StoreTypes /\ storeEnv \in Envs /\ key[t] \in Keys /\ list \in Lists
    BY DEF Inv, StoreTypes, ThreadTypes, CacheTypes
  <2>2. <<key[t], list>> \in StoreKeys
    BY <2>1, TunerAssumption
  <2>3. \/ Insert(storeEnv, <<key[t], list>>, v, "local")
        \/ storage' = [storage EXCEPT ![storeEnv][<<key[t], list>>] = [value |-> v, origin |-> "local"]]
        \/ UNCHANGED storage
    BY DEF Write, Repair, Replace
  <2>4. storage' \in [Envs -> [StoreKeys -> Entries \cup {Absent}]]
    BY <2>1, <2>2, <2>3, RowWritten DEF Origins
  <2> QED
    BY <1>1, <2>1, <2>4 DEF StoreTypes, Inv, ThreadTypes
<1>6. \A u \in Threads : u # t => ~InStore(u)
  BY <1>3, OneInStore
<1>7. CASE Goto(t, "repair") /\ UNCHANGED <<key, tuneGen, lock>>
  BY <1>1, <1>4, <1>5, <1>6, <1>7, QuietStep
<1>8. CASE Return(t) /\ Goto(t, "idle") /\ lock' = NoThread
  BY <1>1, <1>4, <1>5, <1>6, <1>8, QuietStep
<1> QED
  BY <1>2, <1>7, <1>8

\* cache_insert publishes the pick of a tune that ends.
LEMMA CommitStep ==
  ASSUME Inv, NEW t \in Threads, Commit(t)
  PROVE  Inv'
<1> USE DEF envVars, storeVars, durable, process
<1>1. /\ StoreTypes /\ CacheTypes /\ ThreadTypes
  BY DEF Inv
<1>2. PICK k \in Keys : k = key[t]
  BY <1>1 DEF ThreadTypes
<1>3. /\ pc[t] \in {"measured", "guessed"} /\ lock = NoThread
      /\ cache' = [cache EXCEPT ![k] = Entry("match", list, Here)]
      /\ (Goto(t, "store") /\ UNCHANGED <<key, tuneGen>>) \/ Return(t)
      /\ UNCHANGED <<active, generation, storage, storeGen, storeEnv, foreign, list, hydrated,
                     cacheGen, op, lock, tuner, started, panicked>>
  BY <1>2 DEF Commit
<1>4. tuner = "ready"
  BY <1>3, Ready DEF Making
<1>5. StoreTypes' /\ generation' \in Nat /\ generation \in Nat
  BY <1>1, <1>3, StoreTypesKept, Generations
<1>6. /\ Goto(t, "idle") \/ Goto(t, "store")
      /\ key' \in [Threads -> Keys] /\ tuneGen' \in [Threads -> Nat]
      /\ \A u \in Threads : tuneGen'[u] <= generation
      /\ \A u \in Threads : u # t => key'[u] = key[u] /\ tuneGen'[u] = tuneGen[u]
  <2>1. CASE Return(t)
    BY <1>1, <1>5, <2>1, Returned
  <2>2. CASE Goto(t, "store") /\ UNCHANGED <<key, tuneGen>>
    BY <1>1, <2>2 DEF ThreadTypes
  <2> QED
    BY <1>3, <2>1, <2>2
<1>7. PICK l \in {"idle", "store"} : Goto(t, l)
  BY <1>6
<1>8. /\ pc' \in [Threads -> Labels] /\ pc'[t] = l
      /\ \A u \in Threads : u # t => pc'[u] = pc[u]
  BY <1>1, <1>7, OneMoves DEF Labels
<1>9. ThreadTypes'
  BY <1>1, <1>3, <1>6, <1>8 DEF ThreadTypes
<1>10. LockInv' /\ FreshStore' /\ UseInv'
  BY <1>3, <1>4, <1>7, ThreadMoves
<1>11. \A j \in Keys : Running(j)' = Running(j) \ {t}
  BY <1>6, <1>8 DEF Running
<1>12. \A j \in Keys : j # k => Running(j)' = Running(j)
  <2>1. \A j \in Keys : j # k => t \notin Running(j)
    BY <1>2 DEF Running
  <2> QED
    BY <1>11, <2>1
<1>13. \A j \in Keys : \A u \in Running(j)' : u \in Running(j) /\ tuneGen'[u] = tuneGen[u]
  BY <1>6, <1>11 DEF Running
<1>14. CacheOK(cache, cacheGen)'
  <2>1. CacheOK(cache, cacheGen)
    BY CacheIsOK
  <2>2. /\ Entry("match", list, Here) \in CacheEntries /\ Entry("match", list, Here).state = "match"
        /\ Entry("match", list, Here).list = list /\ Entry("match", list, Here).from = Here
    BY <1>1 DEF Entry, CacheEntries, States, CacheTypes
  <2>3. /\ cache' \in [Keys -> CacheEntries] /\ cache'[k] = Entry("match", list, Here)
        /\ \A j \in Keys : j # k => cache'[j] = cache[j]
    BY <1>1, <1>3, <2>2 DEF CacheTypes
  <2>4. /\ cache'[k].state = "match" /\ cache'[k].list = list /\ cache'[k].from = Here
    BY <2>2, <2>3
  <2>5. \A j \in Keys :
          /\ cacheGen = generation => cache'[j].from \in {Here, active}
          /\ cache'[j].state = "pending" => j \in panicked \/ Running(j)' # {}
          /\ cache'[j].state = "match" => cache'[j].list = list
          /\ cache'[j].state \notin {"pending", "match"} => cache[j].state \notin {"pending", "match"}
    <3>1. TAKE j \in Keys
    <3>2. CASE j = k
      BY <2>4, <3>2
    <3>3. CASE j # k
      <4>1. cache'[j] = cache[j] /\ Running(j)' = Running(j)
        BY <1>12, <2>3, <3>3
      <4> QED
        BY <4>1, <2>1 DEF CacheOK
    <3> QED
      BY <3>2, <3>3
  <2>6. \A j \in Keys : \A u \in Running(j)' :
          /\ tuneGen'[u] <= cacheGen
          /\ cache'[j].state \notin {"pending", "match"} => tuneGen'[u] < cacheGen
    BY <1>13, <2>1, <2>5 DEF CacheOK
  <2>7. \A j \in Keys : \A u, v \in Running(j)' : u # v => tuneGen'[u] # tuneGen'[v]
    BY <1>13, <2>1 DEF CacheOK
  <2>8. \A j \in Keys :
          /\ started[j] <= cacheGen + 1
          /\ cache'[j].state \notin {"pending", "match"} => started[j] <= cacheGen
    BY <2>1, <2>5 DEF CacheOK
  <2>9. cacheGen \in 0 .. generation
    BY <2>1 DEF CacheOK
  <2> QED
    BY <1>3, <2>3, <2>5, <2>6, <2>7, <2>8, <2>9 DEF CacheOK
<1>15. started' \in [Keys -> Nat] /\ list' \in Lists /\ hydrated' \in BOOLEAN
  BY <1>1, <1>3 DEF CacheTypes
<1>16. CacheInv' /\ FreshCache' /\ cache' \in [Keys -> CacheEntries] /\ cacheGen' \in 0 .. generation'
  BY <1>5, <1>14, <1>15, OKIsCache
<1>17. CacheTypes' /\ FreshIsActive'
  BY <1>10, <1>15, <1>16, FreshParts DEF CacheTypes
<1> QED
  BY <1>5, <1>9, <1>10, <1>16, <1>17 DEF Inv

\* Who is where, when nobody moves.
LEMMA LockUntouched ==
  ASSUME LockInv, UNCHANGED <<tuner, lock, cache, pc, op>>
  PROVE  LockInv'
<1>1. \A t \in Threads : (Making(t)' <=> Making(t)) /\ (InStore(t)' <=> InStore(t))
  BY DEF Making, InStore
<1>2. Miss' = Miss
  BY DEF Miss, Entry
<1> QED
  BY <1>1, <1>2 DEF LockInv

\* A switch makes the store and the cache stale, wherever it lands.
LEMMA SwitchStep ==
  ASSUME Inv, NEW e \in Envs, Switch(e), UNCHANGED others
  PROVE  Inv'
<1> USE DEF others, process, cacheVars, control, tuning
<1>1. /\ StoreTypes /\ CacheTypes /\ ThreadTypes /\ LockInv /\ CacheInv
  BY DEF Inv
<1>2. /\ generation < MaxSwitch /\ active' = e /\ generation' = generation + 1
      /\ UNCHANGED <<storage, storeGen, storeEnv, foreign>>
      /\ UNCHANGED <<list, tuner, cache, hydrated, cacheGen, lock, pc, key, op, tuneGen, started,
                     panicked>>
  BY DEF Switch
<1>3. generation \in Nat /\ storeGen \in Nat /\ storeGen <= generation
  BY <1>1, Generations
<1>4. cacheGen \in Nat /\ cacheGen <= generation
  BY <1>1, <1>3 DEF CacheTypes
<1>5. /\ generation + 1 \in 0 .. MaxSwitch /\ storeGen \in 0 .. generation + 1
      /\ cacheGen \in 0 .. generation + 1
      /\ storeGen # generation + 1 /\ cacheGen # generation + 1
  BY <1>2, <1>3, <1>4, StoreAssumption
<1>6. StoreTypes'
  BY <1>1, <1>2, <1>5 DEF StoreTypes
<1>7. CacheTypes'
  BY <1>1, <1>2, <1>5 DEF CacheTypes
<1>8. ThreadTypes'
  <2>1. tuneGen \in [Threads -> Nat] /\ \A t \in Threads : tuneGen[t] <= generation
    BY <1>1 DEF ThreadTypes
  <2>2. \A t \in Threads : tuneGen[t] <= generation + 1
    <3>1. TAKE t \in Threads
    <3>2. tuneGen[t] \in Nat /\ tuneGen[t] <= generation
      BY <2>1
    <3> QED
      BY <1>3, <3>2
  <2> QED
    BY <1>1, <1>2, <2>2 DEF ThreadTypes
<1>9. LockInv'
  <2>1. UNCHANGED <<tuner, lock, cache, pc, op>>
    BY <1>2
  <2> QED
    BY <1>1, <2>1, LockUntouched
<1>10. FreshIsActive' /\ UseInv'
  BY <1>2, <1>5 DEF FreshIsActive, UseInv
<1>11. CacheInv'
  <2>1. UNCHANGED <<cache, cacheGen, list, started, panicked, key, pc, tuneGen>>
    BY <1>2
  <2> QED
    BY <1>1, <2>1, CacheUntouched
<1> QED
  BY <1>6, <1>7, <1>8, <1>9, <1>10, <1>11 DEF Inv

\* Writes of others touch the rows only.
LEMMA ForeignStep ==
  ASSUME Inv, NEW e \in Envs, NEW k \in StoreKeys, NEW v \in ForeignValues, NEW origin \in Origins,
         ForeignInsert(e, k, v, origin), UNCHANGED others
  PROVE  Inv'
<1> USE DEF others, process, cacheVars, control, tuning, envVars, storeVars
<1>1. /\ StoreTypes /\ CacheTypes /\ ThreadTypes /\ LockInv /\ CacheInv /\ FreshIsActive /\ UseInv
  BY DEF Inv
<1>2. /\ foreign < MaxForeign /\ foreign' = foreign + 1 /\ Insert(e, k, v, origin)
      /\ UNCHANGED <<active, generation, storeGen, storeEnv>>
      /\ UNCHANGED <<list, tuner, cache, hydrated, cacheGen, lock, pc, key, op, tuneGen, started,
                     panicked>>
  BY DEF ForeignInsert
<1>3. StoreTypes'
  <2>1. storage' \in [Envs -> [StoreKeys -> Entries \cup {Absent}]]
    BY <1>2, RowWritten
  <2>2. foreign \in 0 .. MaxForeign
    BY <1>1 DEF StoreTypes
  <2>3. foreign' \in 0 .. MaxForeign
    BY <1>2, <2>2, StoreAssumption
  <2> QED
    BY <1>1, <1>2, <2>1, <2>3 DEF StoreTypes
<1>4. CacheTypes' /\ ThreadTypes'
  BY <1>1, <1>2 DEF CacheTypes, ThreadTypes
<1>5. LockInv'
  <2>1. UNCHANGED <<tuner, lock, cache, pc, op>>
    BY <1>2
  <2> QED
    BY <1>1, <2>1, LockUntouched
<1>6. FreshIsActive' /\ UseInv'
  BY <1>1, <1>2 DEF FreshIsActive, UseInv
<1>7. CacheInv'
  <2>1. UNCHANGED <<cache, cacheGen, list, started, panicked, key, pc, tuneGen>>
    BY <1>2
  <2> QED
    BY <1>1, <2>1, CacheUntouched
<1> QED
  BY <1>3, <1>4, <1>5, <1>6, <1>7 DEF Inv

LEMMA InitInv == Init => Inv
<1> SUFFICES ASSUME Init PROVE Inv
  OBVIOUS
<1>1. Miss \in CacheEntries /\ Miss.state = "miss" /\ Miss.from = Here
  BY DEF Miss, Entry, CacheEntries, States
<1>2. AnyKey \in Keys
  BY TunerAssumption DEF AnyKey
<1>3. 0 \in 0 .. MaxSwitch /\ 0 \in 0 .. MaxForeign /\ 0 \in 0 .. 0
  BY StoreAssumption
<1>4. StoreTypes
  BY <1>3, StoreAssumption DEF Init, StoreTypes
<1>5. CacheTypes
  <2>1. hydrated \in BOOLEAN
    BY DEF Init
  <2>2. cache \in [Keys -> CacheEntries] /\ started \in [Keys -> Nat]
    BY <1>1 DEF Init
  <2> QED
    BY <1>3, <2>1, <2>2 DEF Init, CacheTypes
<1>6. ThreadTypes
  BY <1>2 DEF Init, ThreadTypes, Labels
<1>7. \A t \in Threads : pc[t] = "idle"
  BY DEF Init
<1>8. \A k \in Keys : cache[k] = Miss /\ started[k] = 0
  BY DEF Init
<1>9. LockInv
  BY <1>7, <1>8 DEF Init, LockInv, Making, InStore
<1>10. FreshIsActive /\ UseInv
  BY <1>1, <1>7, <1>8 DEF Init, FreshIsActive, UseInv
<1>11. CacheInv
  <2>1. PendingIsRunning /\ HitsAreOurs
    BY <1>1, <1>8 DEF PendingIsRunning, HitsAreOurs
  <2>2. \A k \in Keys : Running(k) = {}
    BY <1>7 DEF Running
  <2>3. \A k \in Keys : started[k] <= cacheGen + (IF Marked(k) THEN 1 ELSE 0)
    BY <1>1, <1>8 DEF Init, Marked
  <2> QED
    BY <2>1, <2>2, <2>3 DEF CacheInv, TuneInv
<1> QED
  BY <1>4, <1>5, <1>6, <1>9, <1>10, <1>11 DEF Inv

\* A restart leaves the rows, and nothing in the process.
LEMMA RestartStep ==
  ASSUME Inv, NEW l \in Lists, Restart(l)
  PROVE  Inv'
<1> USE DEF durable
<1>1. Miss \in CacheEntries /\ Miss.state = "miss" /\ Miss.from = Here
  BY DEF Miss, Entry, CacheEntries, States
<1>2. AnyKey \in Keys
  BY TunerAssumption DEF AnyKey
<1>3. 0 \in 0 .. MaxSwitch /\ 0 \in 0 .. MaxForeign /\ 0 \in 0 .. 0
  BY StoreAssumption
<1>4. StoreTypes'
  BY <1>3, StoreAssumption DEF Restart, Inv, StoreTypes
<1>5. CacheTypes'
  <2>1. hydrated' \in BOOLEAN
    BY DEF Restart
  <2>2. cache' \in [Keys -> CacheEntries] /\ started' \in [Keys -> Nat]
    BY <1>1 DEF Restart
  <2> QED
    BY <1>3, <2>1, <2>2 DEF Restart, CacheTypes
<1>6. ThreadTypes'
  BY <1>2 DEF Restart, ThreadTypes, Labels
<1>7. \A t \in Threads : pc'[t] = "idle"
  BY DEF Restart
<1>8. \A k \in Keys : cache'[k] = Miss /\ started'[k] = 0
  BY DEF Restart
<1>9. LockInv'
  BY <1>7, <1>8 DEF Restart, LockInv, Making, InStore, Miss, Entry
<1>10. FreshIsActive' /\ UseInv'
  BY <1>1, <1>7, <1>8 DEF Restart, FreshIsActive, UseInv
<1>11. CacheInv'
  <2>1. PendingIsRunning' /\ HitsAreOurs'
    BY <1>1, <1>8 DEF PendingIsRunning, HitsAreOurs
  <2>2. \A k \in Keys : Running(k)' = {}
    BY <1>7 DEF Running
  <2>3. \A k \in Keys : started'[k] <= cacheGen' + (IF Marked(k)' THEN 1 ELSE 0)
    BY <1>1, <1>8 DEF Restart, Marked
  <2> QED
    BY <2>1, <2>2, <2>3 DEF CacheInv, TuneInv
<1> QED
  BY <1>4, <1>5, <1>6, <1>9, <1>10, <1>11 DEF Inv

LEMMA NextInv == Inv /\ [Next]_vars => Inv'
<1> SUFFICES ASSUME Inv, [Next]_vars PROVE Inv'
  OBVIOUS
<1>1. ASSUME NEW t \in Threads, Call(t) PROVE Inv'
  BY <1>1, NewStep, ProbeStep DEF Call
<1>2. ASSUME NEW t \in Threads, Proceed(t) PROVE Inv'
  <2>1. CASE NewStore(t) \/ NewOpen(t) \/ Freshen(t) \/ Reopen(t)
    BY <2>1, StoreSteps
  <2>2. CASE pc[t] = "probe" /\ Probe(t, key[t])
    <3>1. PICK k \in Keys : k = key[t]
      BY DEF Inv, ThreadTypes
    <3> QED
      BY <2>2, <3>1, ProbeStep
  <2>3. CASE \E outcome \in {"measured", "guessed"} : Benchmark(t, outcome)
    BY <2>3, BenchmarkStep
  <2>4. CASE \E v \in Values : Write(t, v) \/ Repair(t, v)
    BY <2>4, WriteStep
  <2> QED
    BY <1>2, <2>1, <2>2, <2>3, <2>4, HydrateStep, CheckStep, HydrateAndResolveStep, TunePanicsStep,
       CommitStep, StoreAnswerStep DEF Proceed
<1>3. CASE Environment
  BY <1>3, SwitchStep, ForeignStep DEF Environment
<1>4. CASE UNCHANGED vars
  <2>1. UNCHANGED <<active, generation, storage, storeGen, storeEnv, foreign, list, tuner, cache,
                    hydrated, cacheGen, lock, pc, key, op, tuneGen, started, panicked>>
    BY <1>4 DEF vars
  <2>2. StoreTypes' /\ CacheTypes' /\ ThreadTypes'
    BY <2>1 DEF Inv, StoreTypes, CacheTypes, ThreadTypes
  <2>3. FreshIsActive' /\ UseInv'
    BY <2>1 DEF Inv, FreshIsActive, UseInv
  <2>4. LockInv' /\ CacheInv'
    BY <2>1, CacheUntouched, LockUntouched DEF Inv
  <2> QED
    BY <2>2, <2>3, <2>4 DEF Inv
<1> QED
  BY <1>1, <1>2, <1>3, <1>4, RestartStep DEF Next

LEMMA SpecInv == Spec => []Inv
BY InitInv, NextInv, PTL DEF Spec

-----------------------------------------------------------------------------

(***************************************************************************)
(* TuneCache and process_request, for any number of threads and keys: a key *)
(* marked pending has a thread that will publish its pick, unless its tune  *)
(* panicked, and a cached pick is one of this process's candidates.         *)
(***************************************************************************)
THEOREM TunerKept == Spec => []TunerInv
<1>1. Inv => TunerInv
  <2> SUFFICES ASSUME Inv PROVE TunerInv
    OBVIOUS
  <2>1. StoreTypes /\ CacheTypes /\ ThreadTypes
    BY DEF Inv
  <2>2. /\ generation \in Nat /\ generation <= MaxSwitch /\ storeGen \in Nat /\ storeGen <= generation
    BY <2>1, Generations, StoreAssumption DEF StoreTypes
  <2>3. storeGen \in 0 .. MaxSwitch
    BY <2>2, StoreAssumption
  <2>4. \A e \in Envs, k \in StoreKeys : storage[e][k] \in Entries \cup {Absent}
    BY <2>1 DEF StoreTypes
  <2>5. StoreTypeOK
    BY <2>1, <2>3, <2>4 DEF StoreTypes, StoreTypeOK
  <2>6. \A t \in Threads : key[t] \in Keys /\ tuneGen[t] \in 0 .. generation
    <3>1. TAKE t \in Threads
    <3>2. key[t] \in Keys /\ tuneGen[t] \in Nat /\ tuneGen[t] <= generation
      BY <2>1 DEF ThreadTypes
    <3> QED
      BY <2>2, <3>2
  <2>7. \A k \in Keys : cache[k].state \in {"miss", "pending", "verify", "match", "no match"}
    BY <2>1 DEF CacheTypes, CacheEntries, States
  <2>8. TypeOK
    BY <2>1, <2>5, <2>6, <2>7 DEF TypeOK, CacheTypes, ThreadTypes
  <2> QED
    BY <2>8 DEF Inv, CacheInv, TunerInv
<1> QED
  BY <1>1, SpecInv, PTL

(***************************************************************************)
(* reset_if_stale and reset_if_environment_switched, wherever switches land *)
(* between sampling a generation and opening a storage: an up-to-date       *)
(* generation vouches for what was read under it.                           *)
(***************************************************************************)
THEOREM GenerationVouches == Spec => []FreshIsActive
BY SpecInv, PTL DEF Inv

(***************************************************************************)
(* check_tune: a process tunes a key at most once for each environment it   *)
(* has been in, and two tunes of a key in flight belong to two generations. *)
(***************************************************************************)
THEOREM TunesAreBounded == Spec => []TunesBounded
<1>1. Inv => TunesBounded
  <2> SUFFICES ASSUME Inv, NEW k \in Keys
               PROVE  /\ started[k] <= 1 + generation
                      /\ \A t, u \in Running(k) : t # u => tuneGen[t] # tuneGen[u]
    BY DEF TunesBounded
  <2>1. CacheOK(cache, cacheGen)
    BY CacheIsOK
  <2>2. generation \in Nat /\ started[k] \in Nat
    BY Generations DEF Inv, CacheTypes
  <2>3. cacheGen \in Nat /\ cacheGen <= generation /\ started[k] <= cacheGen + 1
    BY <2>1, <2>2 DEF CacheOK
  <2> QED
    BY <2>1, <2>2, <2>3 DEF CacheOK
<1> QED
  BY <1>1, SpecInv, PTL

\* An insert changes no local row: replaces wants the row imported.
LEMMA InsertKeepsLocal ==
  ASSUME Inv, NEW d \in Envs, NEW j \in StoreKeys, NEW v, NEW origin, Insert(d, j, v, origin),
         NEW e \in Envs, NEW k \in StoreKeys,
         storage[e][k] # Absent, storage[e][k].origin = "local"
  PROVE  storage'[e][k] = storage[e][k]
<1>1. storage \in [Envs -> [StoreKeys -> Entries \cup {Absent}]]
  BY DEF Inv, StoreTypes
<1>2. CASE d = e /\ j = k
  <2>1. Declined(d, j, origin)
    BY <1>2 DEF Declined, Replaces
  <2> QED
    BY <2>1 DEF Insert
<1>3. CASE ~(d = e /\ j = k)
  BY <1>1, <1>3 DEF Insert
<1> QED
  BY <1>2, <1>3

(***************************************************************************)
(* Storage::insert under any number of threads, processes and crashes: a    *)
(* locally computed row is only ever replaced by write_through's repair of  *)
(* a row that did not decode.                                               *)
(***************************************************************************)
THEOREM LocalRowsStay == Spec => LocalKept
<1> DEFINE Kept1 == \A e \in Envs, k \in StoreKeys :
                      /\ storage[e][k] # Absent /\ storage'[e][k] # storage[e][k]
                      /\ storage[e][k].origin = "local"
                      => Undecodable(e, k) \/ \E t \in Threads : pc[t] = "repair"
<1>1. Inv /\ [Next]_vars => [Kept1]_vars
  <2> SUFFICES ASSUME Inv, Next, NEW e \in Envs, NEW k \in StoreKeys,
                      storage[e][k] # Absent, storage'[e][k] # storage[e][k],
                      storage[e][k].origin = "local"
               PROVE  \E t \in Threads : pc[t] = "repair"
    OBVIOUS
  <2>1. storage' # storage
    OBVIOUS
  <2>2. ASSUME NEW t \in Threads, Call(t) PROVE FALSE
    BY <2>1, <2>2 DEF Call, New, Probe, durable
  <2>3. ASSUME NEW t \in Threads, Proceed(t) PROVE pc[t] = "repair"
    <3> USE DEF durable
    <3>1. ~(NewStore(t) \/ NewOpen(t) \/ Freshen(t) \/ Reopen(t))
      BY <2>1 DEF NewStore, NewOpen, Freshen, Reopen
    <3>2. ~(Hydrate(t) \/ Probe(t, key[t]) \/ Check(t) \/ HydrateAndResolve(t))
      BY <2>1 DEF Hydrate, Probe, Check, HydrateAndResolve
    <3>3. /\ \A outcome \in {"measured", "guessed"} : ~Benchmark(t, outcome)
          /\ ~(TunePanics(t) \/ Commit(t) \/ StoreAnswer(t))
      BY <2>1 DEF Benchmark, TunePanics, Commit, StoreAnswer
    <3>4. PICK v \in Values : Write(t, v) \/ Repair(t, v)
      BY <2>3, <3>1, <3>2, <3>3 DEF Proceed
    <3>5. ASSUME Write(t, v) PROVE FALSE
      <4>1. Insert(storeEnv, <<key[t], list>>, v, "local")
        BY <2>1, <3>5 DEF Write
      <4>2. storeEnv \in Envs /\ <<key[t], list>> \in StoreKeys
        BY TunerAssumption DEF Inv, StoreTypes, ThreadTypes, CacheTypes
      <4> QED
        BY <4>1, <4>2, InsertKeepsLocal
    <3> QED
      BY <3>4, <3>5 DEF Repair
  <2>4. ASSUME Environment PROVE FALSE
    <3>1. PICK d \in Envs, j \in StoreKeys, v \in ForeignValues, origin \in Origins :
            Insert(d, j, v, origin)
      BY <2>1, <2>4 DEF Environment, Switch, ForeignInsert
    <3> QED
      BY <3>1, InsertKeepsLocal
  <2>5. ASSUME NEW l \in Lists, Restart(l) PROVE FALSE
    BY <2>1, <2>5 DEF Restart, durable
  <2> QED
    BY <2>2, <2>3, <2>4, <2>5 DEF Next
<1> QED
  BY <1>1, SpecInv, PTL DEF Spec, LocalKept

=============================================================================
