# TLA+ models of the CubeCL runtime

CubeCL compiles kernels written in Rust and runs them on CUDA, HIP, Metal, wgpu
and the CPU. Most of the repository generates code; what is concurrent, keeps
state and is hard to test is the runtime under it: the threads that own a
device, the streams and their events, the memory pools, the failure graph that
tells a reader which bytes are bad, and the autotuner with its persistent store.
Those are the parts modelled here. `PROJECT.json` maps every definition to the
lines it translates, lists the runs, the mutants that show each property can
fail, the hazards, and the theorems.

## How the parts fit together

A program thread holds a `DeviceHandle`. Creating one goes through the registry
(`DeviceRegistry`), which starts one runner thread per device and hands out
clients of its task channel (`DeviceChannel`). Closures sent through that channel
run one at a time on the runner, so everything below it is sequential except
where the program still acts on its own: it clones and drops memory handles
(`HandleCounts`), the device executes what was enqueued, and a second thread
waits for events (`MultiStream`). On the runner a command resolves its streams,
reserves memory from a manager (`MemoryManagement`, over `SlicedPool`,
`ExclusivePool`, `DirectPool`, `PersistentPool`, or the growing `PoolArena`) and
runs its body in a scope that claims what it writes (`Failures`, over `Taint`).
Which kernel a command launches is decided by the tuner (`Tuner`, over
`EnvironmentStore`).

The models are separate where the code is separated by the runner's task loop,
and composed where two components share a step:

| composition | how |
|---|---|
| `MemoryManagement` | extends `DirectPool`, instantiates `PersistentPool`, over `PoolSlice` |
| `SlicedPool` | pages of `MemoryPage`, slices of `PoolSlice` |
| `Tuner` | extends `EnvironmentStore`; the steps of a tune and those of the store interleave |
| `DeviceChannel` => `TaskChannel` | refinement, checked as the property `ImplementsTaskChannel` and proved (`ChannelImplements`) |
| `Taint` => `ByteClaims` | refinement, checked as the property `ImplementsByteClaims` and proved (`TaintImplements`) |
| `Failures` | uses claims per byte, which `Taint` shows the range lists implement |

## Modules

### Device threads

`DeviceChannel` (`cubecl-common/src/device/handle/channel.rs`). Clients claim a
slot with `available_index.fetch_add`, load `queue_ptr`, write the slot and count
it in `enqueued_count`; the server waits until the count reaches the capacity,
swaps the two buffers, resets both counters, and runs the tasks. Each atomic
access is its own action, and so is each step of `flush`, `pad_with_noops`, a
blocking call, the shutdown test and the drop of a client. The accesses are
Acquire/Release and every location is ordered by the counter that guards it, so
sequentially consistent interleavings are the ones the build has. While
`Wrapping` is false all values of `available_index` past the capacity are one;
`DeviceChannelWrap.cfg` keeps them apart. `TaskChannel` is what the channel
promises: closures of one client run once, in the order they were sent, and the
thread ends only when no client is left.

`DeviceRegistry` (same file). `CHANNELS` is the mutex, `RUNNERS` is only touched
under it. Actions are the steps of `init` between which other threads can run,
of `shutdown` (sweep, then joins with a timeout that may pass while a task still
runs) and of the runner (take, run, panic, end).

### Memory contents and failures

`ByteClaims`, `Taint` (`memory_management/taint.rs`). A slice's claims are a list
of disjoint sorted ranges with a failure each; claim, release and lookup are the
list surgery of the code, compared with a plain function from bytes to failures.

`Failures` (`stream/failures.rs`, `stream/execute_scope.rs`,
`memory_management/error_graph.rs`). The graph's nodes and their tag counts, each
allocation's claims, and the scope in progress: a scope enters (claims its write
set binding by binding), runs its body, and releases, taints, or is abandoned by
a panic; a launch that reads bad bytes is skipped and passes the failure on.
Slices are freed, rebound and swept between scopes. The history variable
`unwritten` records which bytes' last writer failed.

### Streams

`MultiStream` (`stream/event.rs`, `stream/base.rs`). Each stream has a queue of
enqueued operations and a cursor; a command resolves its bindings, waits for
events, enqueues, and registers shared buffers with the collector thread, whose
channel is bounded. `Execute` is the device taking the oldest operation of a
stream (external). A command is one step apart from the bounded send, because it
runs on the one server thread.

### Memory pools

`PoolSlice`, `MemoryPage`, `SlicedPool` (`memory_pool/{base,memory_page,sliced_pool}.rs`):
first-fit over pages, splitting and coalescing, guarded pages, the cleanup that
renumbers pages. `ExclusivePool` (`exclusive_pool.rs`): one allocation per page,
pages chosen by size, aged and given back. `cur_avg_size`, a float average, is any
size of the range. `DirectPool`, `PersistentPool` and `MemoryManagement`
(`direct_pool.rs`, `persistent_pool.rs`, `memory_manage.rs`): the manager's
routing by mode, its update of pools at explicit and periodic cleanups, and
recording windows during which nothing may move. `HandleCounts`
(`cubecl-runtime/src/memory_management/handle.rs`): the two reference counts of
an allocation, with every clone and drop an action of its thread.

`PoolArena` (`memory_management/dynamic/*.rs`, `memory_management/relocation/*.rs`).
A fixed array of slots, each holding a pool of one page size; growing outdates a
pool, and a relocation plans moves off outdated pages, waits for the device,
copies, and commits or gives up. An allocation records its page, whether the
bytes its owner wrote are there, and the page that work still to run will write
to. How a page is carved is the subject of `SlicedPool`.

### Autotuning

`EnvironmentStore` (`cubecl-environment/src/persistence/*.rs`): the active
environment, its generation, rows per environment, writes by other processes and
imports. `Tuner` (`cubecl-runtime/src/tune/{tuner,tune_cache}.rs`): the cache with
its misses, pending keys, entries still to verify and verified picks, hydration
from the store, the comparison with the candidate list, and restarts with another
list. A benchmark is one step
that measures, guesses, or panics.

## What the runs check

Times are with two workers. Deadlock is checked in `channel`, `taint`,
`handle_counts` and `arena`; in the others a program that has used up its bounds,
or is simply done, may stop.

| run | distinct states | time | what it asks |
|---|---|---|---|
| `channel` | 185,916 | 82 s | no slot is written by two clients or while it runs (`SlotsSafe`); claimed, owned, written and counted slots agree (`ChannelInv`); closures run once and in order (`ImplementsTaskChannel`); every blocking call returns, every flushed closure runs, a runner without clients ends |
| `taint` | 602 | 76 s | range lists stay sorted, disjoint and fused, hold one tag per claim (`ClaimsInv`), and behave as a function on bytes (`ImplementsByteClaims`) |
| `failures` | 283,285 | 32 s | tag counts are the carriers, carried failures have nodes, nothing unreachable stays (`GraphKept`); a read returns bytes if and only if their last writer succeeded; a body runs with all it writes claimed; a report reaches a root; the provisional error is only left where a scope is open or panicked (`ErrorsAreReal`) |
| `streams` | 426,875 | 59 s | no memory is reused under an enqueued kernel (`StreamsInv`); work on any stream finds the data a buffer was made with (`CreatedDataSeen`); pinned memory comes back (`MemoryReturns`) |
| `streams_sync` | - | - | the violation described below |
| `registry` | 64,303 | 60 s | one live runner per id unless a join gave up on it, cached clients are of the registered runner, a service is initialised once (`RegistryInv`); a shutdown outlasts the joins of a concurrent one; every call returns |
| `sliced_pool` | 50,477 | 42 s | descriptors find their slices, slices are disjoint (`PoolInv`); coalescing merges every run of free slices; no live allocation moves; guarded pages stay |
| `memory_manage` | 257,325 | 31 s | descriptors find their slices through tombstones and rebuilt indices; nothing owned moves; a reservation that may only add, or not allocate, keeps to it; a freed dedicated slice goes back to the device |
| `exclusive_pool` | 88,282 | 41 s | descriptors find their pages and pages fit (`PoolInv`); an unused page is given back within its period |
| `handle_counts` | 18,040 | 3 s | the counts balance and `is_free` is never early (`CountsInv`); when `can_mut` is true no other thread has or is making a handle |
| `arena` | 667,758 | 60 s | slots and placements agree (`ArenaInv`); what the owner's work wrote is where the handle leads, whatever moved or failed (`ContentsKept`); guarded, recorded and bound allocations stay; a page anything moves off goes back to the device in the same step |
| `tuner` | 325,780 | 40 s | a pending key has a running tune unless that tune panicked, a hit is an answer for this candidate list (`TunerInv`); an up-to-date generation means the active environment's entries; a key is tuned once and once more per switch; a readable local row is only replaced by a repair; a pending key settles unless its tune panics |

Every property has a mutant in `PROJECT.json`: a one-definition change of the
model, of the kind a slip in the code would be, under which TLC finds it violated.

### Bounds and why they are enough

- `channel`: 2 clients, buffers of 2 (`MAX_TASK` is 32 in the code), one closure
  and one flush per client, one retry of a spin. Two clients and two slots are
  what a race on a swap needs; flushing pads with no-ops, so buffers fill, swap
  and are reused several times. The proofs remove these bounds for safety.
- `taint`: 5 bytes and 3 failures. A split needs a range with a byte on each side,
  a fusion two equal neighbours; both fit twice over.
- `failures`: 2 allocations of 2 bytes, ranges of half or all, scopes of at most 2
  bindings, 2 mints, 2 skips in all and room for the record of one. A skip chain with
  a partly released carrier fits, and a dropped record. The proofs remove these bounds.
- `streams`: 2 streams, 2 buffers, 4 commands, and a collector channel of 1 (8 in
  the code) so that it does fill. The proofs remove these bounds for safety.
- `registry`: 2 program threads, 2 runner ids on one device, 2 starts, 3 calls:
  a shutdown racing an init, racing another shutdown, and a leaked runner next to
  its successor. The proofs remove these bounds for safety.
- pools: 2 or 3 handles, sizes below and above the alignment, enough pages for
  one cleanup to renumber another. `PageWrap` of the run is above `MaxPages`, as
  2^16 is above any real number of pages.
- `arena`: 2 slots, 3 handles (two share a page, one has its own), pages of 2 to 6
  units, one guard, one binding and one pending write. Growing, outdating, moving,
  failing at each stage and running out of slots are all reached. The proofs
  remove these bounds.
- `tuner`: 2 threads, 1 key, 2 candidate lists, 2 environments, one switch, one
  write of another process and one restart.

Symmetry is used over model values only, and only in runs without liveness.

### Fairness

- `DeviceChannel`: weak fairness on the server's loop and on each client's own
  steps inside a call: the operating system schedules runnable threads. No
  fairness on starting a call or dropping a client.
- `MultiStream`: weak fairness on the device executing each stream's queue and on
  the collector thread. Commands need not come.
- `DeviceRegistry`: weak fairness on the steps of an `init`, a `shutdown` and a
  runner already under way: tasks return and timeouts pass. No handle need ever
  be dropped.
- `Tuner`: weak fairness on a thread inside `execute`. A mutex is free again
  because its holder is inside one of those steps.

## What is proved

TLAPS checks these for every value of the constants.

- **Task channel** (`DeviceChannelProofs`). `ChannelInvariant`: `ChannelInv` always holds.
  `ChannelExclusive`: `SlotsSafe` always holds. Both for any number of clients,
  any buffer size and any number of calls, assuming `available_index` does not
  wrap (`~Wrapping`). That a slot has one writer is not inductive alone: it needs
  that the owners of a buffer's slots are exactly the clients between claim and
  count, that `enqueued_count` is the number of claimed slots nobody owns
  any more, so that a full count means that nobody owns a slot and the server may swap. `ChannelInv` is that
  invariant, and is itself inductive. The lemmas on finite sets say how
  a claim, a count and a padding change the set of counted slots.
- **Task channel, refinement** (`DeviceChannelProofs`, last part).
  `ChannelImplements`: under the same assumptions `DeviceChannel` implements
  `TaskChannel`, so closures of a client run once each, in the order sent,
  and the runner stops only when all have run. On top of `ChannelInv` it needs
  `OrderInv`: the closures of a client in the two buffers are exactly those
  written and not yet run (`QueuedInv`); they are sorted, the server's buffer before
  the clients', each by index, and the next one goes behind them
  (`SortedInv`); and a count of one reference read by `try_shutdown` stays true,
  because only threads with a handle are inside calls (`RefsInv`).
- **Tainted regions** (`TaintProofs`). `ClaimsHold` (`ClaimsInv`) and
  `TaintImplements` (`Taint` implements `ByteClaims`), for an allocation of any size and
  any set of failures. The walks of `subtract`, `add` and `retain_mut` are recursive
  functions over the positions of a list; each is shown to exist (`WalkExists`) and is then
  followed by induction on the position (`Induct`, by a least counterexample).
  `SubtractFacts` and `AddFacts` say what the list surgery is for: a normal list
  stays normal, and exactly the bytes of the range leave or join it. For `add` that needs
  that the growing range is apart from every range kept so far (`Apart`), and that
  those end before the ranges still to come. `ReleasedFacts` says the same of the
  claims, and that the tag of a claim goes with its last byte. The inductive
  invariant `Inv` is that claims are normal, of different failures, share no byte, and have
  one tag each; reads and the refinement follow from it.
- **Failures** (`FailuresProofs`). `FailuresKept`,
  `ReadsExact` and `BodiesClaimed`. The inductive invariant says, for each phase of
  a scope, which bytes are claimed: those whose last writer failed and those
  the scope has reached so far. With that, releasing binding by binding is exact
  even when bindings overlap. The graph part needs that a skip's failure is
  carried by what the launch would have read until its own outputs carry it.
  `ErrorsReal` (`ErrorsAreReal`) adds that the node of a scope that may still write is
  provisional (`ProvisionalInv`). `ReportsReach` (`ReportsReachRoot`) is about the walk
  of `ErrorGraph::report`. Its invariant, `TraceInv`, says of a node with all its
  records that what carries it, or is about to, is of the work that failed or was to be
  produced by a recorded skip, and that what a skip needed was so before the skip
  (`Chained`). That the walk then ends at a root is an induction over the records,
  by a least counterexample (`Least`, from the library's `WFMin`); the recursive
  function itself is unfolded once it is known to exist (`WalksExist`).
- **Registry** (`DeviceRegistryProofs`). `RegistryIsConsistent` (`RegistryInv`) and
  `ShutdownOutlastsRunners` (the action property `ShutdownOutlasts`), for any number of threads,
  devices, runners, services, starts and calls, and wherever joins and waits time
  out. What makes it inductive: the thread between taking and releasing `CHANNELS`
  is the one the lock names (`LockInv`); the registered runner of an id is its
  last one, alive and not marked (`EntryInv`); a runner that is to be joined is
  marked and belongs to one shutdown (`JoinInv`); a live thread is registered,
  about to be joined, or given up on (`LiveInv`, from which one runner per
  id follows); an `init` under the lock has a registered runner and nothing cached
  for its key, and its closure is queued once (`InitInv`, `QueueInv`); and a
  service the registered runner has is cached or about to be (`ServicesInv`, from
  which one `S::init` follows). The action property needs `PromiseInv`: a runner a
  shutdown found is gone, given up on, or still in some shutdown's hands, whose
  mark `wait_for_device_shutdown` sees.
- **Streams** (`MultiStreamProofs`). `MemoryNotReusedInFlight` (`StreamsInv`) and
  `CreatedDataIsSeen` (`CreatedDataSeen`), for any number of streams, stream ids, buffers and
  commands and any capacity of the collector's channel. Both assume that no slice
  is dedicated (`Dedicated = {}`): a dedicated slice keeps no cursor, and
  `MultiStreamDedicated.cfg` shows the data missed. `Inv` says that work
  on a foreign slice is pinned by a task whose event is behind it (`PinsInv`), so the
  slice is not bound again; that work on one stream is in the order of the
  allocations (`OrderInv`); and that work on a foreign slice is behind a
  wait for the owner's earlier work on the slice (`WaitsInv`). The last is
  what the comparison of `last_synced` with the cursor of the allocation is for, and
  `SyncedInv` says why that is enough for it: who counts as synced did
  wait for all that has to come before the current allocation.
- **Handle counts** (`HandleCountsProofs`). `CountsBalance` (`CountsInv`) and
  `CanMutIsExclusive` (`CanMutExclusive`), for any finite set of threads and any
  number of handles and bindings each. The counts are cardinalities of sets of
  tokens, one for each handle or binding of a thread; the lemmas say what one more
  or one less does to such a set, and the invariant adds that a thread in the middle of
  a clone still has the handle it clones from.
- **Arena** (`PoolArenaProofs`). `ArenaHolds` (all of `ArenaInv`), `ArenaContents`,
  `ArenaPinned` and `ArenaWholePages`. The invariant `Inv` adds to `TypeOK` and
  `SlotsInv` that owned allocations are on pages that are there (`LiveInv`), that
  nothing is planned while a stream records (`RecordInv`), that what a relocation
  has in hand sits on outdated pages nobody pins, that its targets are on current
  pages and that of a page with one planned move everything is planned
  (`PlanInv`), and that once copies landed nothing is pending and each copy is what
  its source holds (`BytesInv`). `Inv` was checked with TLC before it was proved.
  That no page is carved beyond its size (`RoomInv`) is proved on top of `Inv`: the
  units of a page are a set of tokens, one for each unit of a slice or of a planned
  target, so a step that drops or fails leaves a subset, a reservation or a
  planned move adds as many tokens as its size, and a commit maps the
  slices it leaves one to one into the slices and targets that were there. A move
  fits a new page because what moves fits an outdated page, which is smaller.
- **Tuner** (`TunerProofs`). `TunerKept`,
  `GenerationVouches`, `TunesAreBounded` and `LocalRowsStay`, for any number of
  threads, keys, lists, environments, switches, restarts and foreign writes. None of
  the invariants is inductive. `Inv` adds who may be in the store (`LockInv`: the thread
  in `TuneCache::new`, while everybody else is idle, or the holder of the
  mutex), that what is about to be ingested is the active environment's unless
  the cache is stale by now (`UseInv`), and how tunes are counted (`TuneInv`):
  a key was tuned at most once per generation of the cache before the current one, and
  once more if it is marked now; a tune in flight on an unmarked key belongs to an
  earlier generation. A reset that finds a switch keeps the count, because
  it moves to a later generation. `Inv` was checked with TLC before it was
  proved.

Assumptions on constants are the named `ASSUME`s of the modules; every run
evaluates them.

Only model-checked: all liveness (the prover has no rule for it); coalescing; the
safety of the pools and of the manager over them, for which no proof has been
attempted.

The proof modules begin with `USE ZenonT(3), SMTT(20)`: every leaf is first given to
Zenon for three seconds and then to the SMT solver, which is several times faster than
the default order because most leaves are first-order and large.

## Where the code and its documentation differ

Each of these has a configuration that reproduces the disagreement; the properties
are stated in the component's module. Paths are under `src/crates/`.

| configuration (property) | code | what it says |
|---|---|---|
| `MultiStreamSync.cfg` (`ResolvedIsSynced`), the run `streams_sync` | `cubecl-server/src/stream/event.rs:369` waits only if `last_synced` is below the cursor the slice got when it was bound, so later writes of the origin stream are not waited for | `event.rs:295`: "ensures that the stream is synchronized with any shared bindings from other streams" |
| `MultiStreamDedicated.cfg` (`CreatedDataSeen`) | `cubecl-server/src/memory_management/memory_pool/direct_pool.rs:309` ignores the cursor it is bound with, so the same comparison never waits for a dedicated slice | `event.rs:295` |
| `DeviceChannelWrap.cfg` (`SlotExclusive`) | `cubecl-common/src/device/handle/channel.rs:961` adds to a 32-bit index that only a swap resets | `channel.rs:987`: "Exclusive access per slot is guaranteed by `available_index.fetch_add`." It takes 2^32 claims in one stall |
| `DeviceRegistryNested.cfg` (`InitReturns`) | `channel.rs:319` holds the registry lock while it waits for a closure on a runner, whose current task may want that lock | `channel.rs:181`: "to prevent deadlocks and allow for recursive calls" |
| `DeviceRegistryLeak.cfg` (`ServiceFound`) | `channel.rs:398` tells the runner by its id, which a runner a join gave up on shares with its successor | `channel.rs:440`: "Service state not found" |
| `FailuresLeak.cfg` (`NoNodeWithoutCarrier`) | `cubecl-server/src/stream/execute_scope.rs:235`: a scope that claims nothing and panics leaves its node | `error_graph.rs:14`: "the graph leaks if and only if the program leaks memory" |
| `SlicedPoolRefit.cfg` (`ServesWhatFits`) | `memory_pool/memory_page.rs:206` compares the padded request with `utilization.size`, which leaves out the padding of the free slice | `memory_page.rs:193`: reserves "if there is enough place in the page" |
| `MemoryManagementFit.cfg` (`PersistentFits`) | `memory_pool/persistent_pool.rs:128` takes a new size for a reused slice and keeps its old padding | `direct_pool.rs:193`: "Both, or `effective_size()` stops describing the device allocation" |
| `ExclusivePoolSmallest.cfg` (`SmallestFits`) | `memory_pool/exclusive_pool.rs:128` takes the minimum of `free_count`, not of the size | `exclusive_pool.rs:124`: "Return the smallest free page that fits." |
| `ExclusivePoolWrap.cfg` (`HandlesFound`) | `exclusive_pool.rs:224` keeps `idx as u16` | needs more than 2^16 pages; the configuration wraps at 2 |
| `HandleCountsBound.cfg` (`BoundSeen`) | `cubecl-runtime/src/memory_management/handle.rs:229` loads the two counts one after the other while owners clone and drop | `handle.rs:225`: "the difference is the bindings". `PoolArena` takes `is_bound` as exact |
| `TunerShadow.cfg` (`NoRedundantTune`) | `cubecl-runtime/src/tune/tune_cache.rs:328` keeps the entry that is there, so an answer for another list hides one for this list | `tuner.rs:249`: "Ingest them before starting a redundant tune." |

Smaller remarks from reading. A tune that panics leaves its key pending for the
rest of the process (`tune/tuner.rs:435`), which is why `KeySettles` excludes it.
`reserve_held` in automatic mode goes to the dynamic pools where `reserve_adding`
would use the persistent one (`memory_manage.rs:523`). The comment at
`command/base.rs:91` speaks of "a guard on its page"; what is held there is the
binding (`memory_manage.rs:364`).

## Not modelled

- **Graph capture**: seen only through what it asks of memory (guarded pages,
  recordings, the update a reservation may make). Preparing, warming up, failing
  and replaying a graph are left out.
- **Drop queue and staging, metadata cache, scheduled streams**: each is driven by
  one thread in an order its caller fixes, and is small enough for its unit tests.
- **Commands, collectives, profiling, the compute client**: commands are modelled
  where they drive memory and streams; the rest ends in driver calls or builds
  descriptors and submits closures.
- **Autotune schedule and benchmarks, throughput**: a tune is one step with its
  possible outcomes.
- **Bytes, records, bundles, configuration, common utilities**: pure code, files
  and formats.
- **CUDA, HIP, Metal, wgpu and CPU servers**: driver calls over the shared runtime
  code that is modelled.
- **Intermediate representation, optimizer, code generators, frontend and macros,
  kernels, shapes**: a compiler over unbounded graphs. What it promises is the
  meaning of generated programs, and this is by far the largest part of the
  repository, which is why the mapped lines are a small share of it.

Within modelled parts: `normal_channel`, which no build selects; the choice among
exclusive buckets and among the three adaptive pools by size; `WeakMemoryBinding`;
eager stores, remove and purge, the SQL of `turso.rs`, and bundles; a tuner with
persistence disabled, `LocalTuner::clear`, and tune records.

## Running

    tlc -workers 2 -config DeviceChannel.cfg DeviceChannel
    tlc -workers 2 -config PoolArena.cfg MCPoolArena
    tlapm PoolArenaProofs.tla

A configuration goes with the module of its name, prefixed by `MC` where there is
one (`TunerShadow.cfg` with `MCTuner`).
