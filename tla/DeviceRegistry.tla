---------------------------- MODULE DeviceRegistry ----------------------------
(***************************************************************************)
(* The process-wide registry of device runners and cached channels of       *)
(* cubecl-common (device/handle/channel.rs): ChannelDeviceState::init and   *)
(* shutdown_device, called by program threads and by tasks that run on the  *)
(* runner threads themselves.                                               *)
(*                                                                         *)
(* CHANNELS is a spin lock held across a whole init, which waits under it   *)
(* for a closure to run on the runner. RUNNERS is only ever taken under it  *)
(* and for one step, so it is not modelled. A runner executes its queue in  *)
(* order (module DeviceChannel) and exits once it is drained and no client  *)
(* of it is left. A task is an act_on, with STATES borrowed around it, or   *)
(* an exclusive, without.                                                   *)
(***************************************************************************)
EXTENDS Integers, Sequences, FiniteSets

CONSTANTS
  Program,      \* threads of the program
  Runners,      \* RunnerIds
  DeviceOf,     \* the device of a RunnerId
  Services,     \* the TypeIds of the services
  TasksMayCall, \* whether tasks on a runner call init and shutdown_device
  MaxStarts,    \* bound: threads started for one RunnerId
  MaxCalls,     \* bound: calls in a behaviour
  MaxTasks,     \* bound: tasks submitted in a behaviour
  None

ASSUME RegistryAssumption ==
  /\ MaxStarts \in Nat /\ MaxCalls \in Nat /\ MaxTasks \in Nat
  /\ TasksMayCall \in BOOLEAN
  /\ None \notin Program \cup (Runners \X (1 .. MaxStarts))

VARIABLES
  lock,         \* who holds CHANNELS
  cached,       \* Registry::channels: the thread the client of a key reaches, 0 for none
  entry,        \* RUNNERS: the thread registered for an id, 0 for none
  shutting,     \* Registry::shutting_down
  started,      \* how many threads an id has had
  stopped,      \* runner threads that exited
  services,     \* STATES: the services on each runner thread
  queue,        \* closures queued for each runner thread
  busy,         \* the task each runner thread is in
  pc,           \* where each thread is in a call, "idle" outside
  arg,          \* the RunnerId and service, or the device, of the call
  client,       \* the client a call holds: of the runner it waits for
  swept,        \* the runners a shutdown still has to join
  holds,        \* handles each thread has
  leaked,       \* history: threads a join gave up on
  promised,     \* history: the runners a shutdown has to outlast
  calls, tasks  \* calls and tasks so far

registry == <<lock, cached, entry, shutting>>
threads == <<started, stopped, services, queue, busy>>
frames == <<pc, arg, client, swept, holds>>
history == <<leaked, promised>>
counts == <<calls, tasks>>
vars == <<registry, threads, frames, history, counts>>

Instances == Runners \X (1 .. MaxStarts)
Threads == Program \cup Instances
Keys == Runners \X Services
Devices == {DeviceOf[r] : r \in Runners}

\* SERVER_THREAD: a runner thread knows its RunnerId, not which start it is.
RunsFor(t, r) == t \in Instances /\ t[1] = r
OnDevice(t, d) == t \in Instances /\ DeviceOf[t[1]] = d

Alive(i) == i[2] <= started[i[1]] /\ i \notin stopped

\* The clients of a runner besides the server's own reference.
Referenced(i) ==
  \/ entry[i[1]] = i[2]
  \/ \E s \in Services : cached[<<i[1], s>>] = i[2]
  \/ \E t \in Threads :
       i \in holds[t] \cup swept[t] \/ (client[t] = i /\ pc[t] \in {"direct", "recv", "reply"})

MayCall(t) ==
  /\ pc[t] = "idle" /\ calls < MaxCalls
  /\ t \in Instances => TasksMayCall /\ busy[t] # "none"

Closure(kind, by) == [kind |-> kind, by |-> by]

Return(t) == pc' = [pc EXCEPT ![t] = "idle"]

-----------------------------------------------------------------------------

InitCall(t, key) ==
  /\ MayCall(t)
  /\ pc' = [pc EXCEPT ![t] = "lock"]
  /\ arg' = [arg EXCEPT ![t] = key]
  /\ calls' = calls + 1
  /\ UNCHANGED <<registry, threads, client, swept, holds, history, tasks>>

\* A runner of the device cannot wait for its own shutdown.
InitRefused(t) ==
  /\ pc[t] = "lock" /\ lock = None
  /\ arg[t][1] \in shutting /\ OnDevice(t, DeviceOf[arg[t][1]])
  /\ Return(t)
  /\ UNCHANGED <<registry, threads, arg, client, swept, holds, history, counts>>

\* The cached state is cloned; insert, which brings its own service, fails.
InitCached(t) ==
  /\ pc[t] = "lock" /\ lock = None /\ arg[t][1] \notin shutting
  /\ cached[arg[t]] # 0
  /\ \/ holds' = [holds EXCEPT ![t] = @ \cup {<<arg[t][1], cached[arg[t]]>>}]
     \/ UNCHANGED holds
  /\ Return(t)
  /\ UNCHANGED <<registry, threads, arg, client, swept, history, counts>>

\* The runner of the call: the registered one, or a fresh thread.
RunnerFor(r) == IF entry[r] # 0 THEN entry[r] ELSE started[r] + 1

MutantIgnoresMark(t) ==
  LET r == arg[t][1]
      n == RunnerFor(r)
  IN  /\ pc[t] = "lock" /\ lock = None
      /\ cached[arg[t]] = 0 /\ n <= MaxStarts
      /\ lock' = t
      /\ entry' = [entry EXCEPT ![r] = n]
      /\ started' = [started EXCEPT ![r] = IF n > @ THEN n ELSE @]
      /\ client' = [client EXCEPT ![t] = <<r, n>>]
      /\ IF RunsFor(t, r)
         THEN pc' = [pc EXCEPT ![t] = "direct"] /\ UNCHANGED queue
         ELSE /\ pc' = [pc EXCEPT ![t] = "recv"]
              /\ queue' = [queue EXCEPT ![<<r, n>>] = Append(@, Closure("init", t))]
      /\ UNCHANGED <<cached, shutting, stopped, services, busy, arg, swept, holds,
                     history, counts>>

\* The closure runs at once on the runner's own thread, and is queued for it
\* by any other.
InitFresh(t) ==
  LET r == arg[t][1]
      n == RunnerFor(r)
  IN  /\ pc[t] = "lock" /\ lock = None /\ r \notin shutting
      /\ cached[arg[t]] = 0 /\ n <= MaxStarts
      /\ lock' = t
      /\ entry' = [entry EXCEPT ![r] = n]
      /\ started' = [started EXCEPT ![r] = IF n > @ THEN n ELSE @]
      /\ client' = [client EXCEPT ![t] = <<r, n>>]
      /\ IF RunsFor(t, r)
         THEN pc' = [pc EXCEPT ![t] = "direct"] /\ UNCHANGED queue
         ELSE /\ pc' = [pc EXCEPT ![t] = "recv"]
              /\ queue' = [queue EXCEPT ![<<r, n>>] = Append(@, Closure("init", t))]
      /\ UNCHANGED <<cached, shutting, stopped, services, busy, arg, swept, holds,
                     history, counts>>

\* initialize_service on the calling thread: it fails when the task around it
\* has STATES borrowed, and a panic of S::init is caught.
InitDirect(t) ==
  /\ pc[t] = "direct"
  /\ \/ /\ busy[t] = "exclusive"
        /\ services' = [services EXCEPT ![t] = @ \cup {arg[t][2]}]
        /\ pc' = [pc EXCEPT ![t] = "reply"]
     \/ /\ UNCHANGED services
        /\ pc' = [pc EXCEPT ![t] = "failed"]
  /\ UNCHANGED <<registry, started, stopped, queue, busy, arg, client, swept, holds,
                 history, counts>>

\* initialize_service on the runner. Its callback is dropped when S::init
\* panics.
RunInit(i) ==
  /\ Alive(i) /\ busy[i] = "none" /\ queue[i] # <<>> /\ Head(queue[i]).kind = "init"
  /\ queue' = [queue EXCEPT ![i] = Tail(@)]
  /\ LET t == Head(queue[i]).by
     IN  \/ /\ services' = [services EXCEPT ![i] = @ \cup {arg[t][2]}]
            /\ pc' = [pc EXCEPT ![t] = "reply"]
         \/ /\ UNCHANGED services
            /\ pc' = [pc EXCEPT ![t] = "failed"]
  /\ UNCHANGED <<registry, started, stopped, busy, arg, client, swept, holds,
                 history, counts>>

\* The state is cached and the lock released.
InitDone(t) ==
  /\ pc[t] = "reply"
  /\ cached' = [cached EXCEPT ![arg[t]] = client[t][2]]
  /\ holds' = [holds EXCEPT ![t] = @ \cup {client[t]}]
  /\ lock' = None
  /\ Return(t)
  /\ UNCHANGED <<entry, shutting, threads, arg, client, swept, history, counts>>

\* An error or a panic: the guard is dropped either way.
InitFailed(t) ==
  /\ pc[t] = "failed"
  /\ lock' = None
  /\ Return(t)
  /\ UNCHANGED <<cached, entry, shutting, threads, arg, client, swept, holds,
                 history, counts>>

-----------------------------------------------------------------------------

\* send from another thread. On the runner's own thread the task would run
\* within the one that sends it.
Submit(t, i, kind) ==
  /\ pc[t] = "idle" /\ ~RunsFor(t, i[1])
  /\ i \in holds[t] /\ tasks < MaxTasks
  /\ queue' = [queue EXCEPT ![i] = Append(@, Closure(kind, None))]
  /\ tasks' = tasks + 1
  /\ UNCHANGED <<registry, started, stopped, services, busy, frames, history, calls>>

DropHandle(t, i) ==
  /\ pc[t] = "idle" /\ i \in holds[t]
  /\ holds' = [holds EXCEPT ![t] = @ \ {i}]
  /\ UNCHANGED <<registry, threads, pc, arg, client, swept, history, counts>>

RunTask(i) ==
  /\ Alive(i) /\ busy[i] = "none" /\ queue[i] # <<>> /\ Head(queue[i]).kind # "init"
  /\ busy' = [busy EXCEPT ![i] = Head(queue[i]).kind]
  /\ queue' = [queue EXCEPT ![i] = Tail(@)]
  /\ UNCHANGED <<registry, started, stopped, services, frames, history, counts>>

\* The task returns; the handles it made go with it.
TaskDone(i) ==
  /\ busy[i] # "none" /\ pc[i] = "idle"
  /\ busy' = [busy EXCEPT ![i] = "none"]
  /\ holds' = [holds EXCEPT ![i] = {}]
  /\ UNCHANGED <<registry, started, stopped, services, queue, pc, arg, client, swept,
                 history, counts>>

RunnerExit(i) ==
  /\ Alive(i) /\ busy[i] = "none" /\ queue[i] = <<>> /\ ~Referenced(i)
  /\ stopped' = stopped \cup {i}
  /\ UNCHANGED <<registry, started, services, queue, busy, frames, history, counts>>

-----------------------------------------------------------------------------

ShutdownCall(t, d) ==
  /\ MayCall(t) /\ ~OnDevice(t, d)
  /\ pc' = [pc EXCEPT ![t] = "sweep"]
  /\ arg' = [arg EXCEPT ![t] = d]
  /\ calls' = calls + 1
  /\ UNCHANGED <<registry, threads, client, swept, holds, history, tasks>>

Registered(d) == {i \in Instances : DeviceOf[i[1]] = d /\ entry[i[1]] = i[2]}

\* Both registries are swept and the runners marked under the locks.
Sweep(t) ==
  LET d == arg[t]
  IN  /\ pc[t] = "sweep" /\ lock = None
      /\ swept' = [swept EXCEPT ![t] = Registered(d)]
      /\ entry' = [r \in Runners |-> IF DeviceOf[r] = d THEN 0 ELSE entry[r]]
      /\ cached' = [key \in Keys |-> IF DeviceOf[key[1]] = d THEN 0 ELSE cached[key]]
      /\ shutting' = shutting \cup {i[1] : i \in Registered(d)}
      /\ promised' = [promised EXCEPT ![t] =
           {i \in Instances : DeviceOf[i[1]] = d /\ Alive(i)}]
      /\ pc' = [pc EXCEPT ![t] = "next"]
      /\ UNCHANGED <<lock, threads, arg, client, holds, leaked, counts>>

\* request_shutdown, and the drop of the client the registry had.
NextRunner(t) ==
  /\ pc[t] = "next"
  /\ \E i \in swept[t] :
       /\ swept' = [swept EXCEPT ![t] = @ \ {i}]
       /\ client' = [client EXCEPT ![t] = i]
  /\ pc' = [pc EXCEPT ![t] = "join"]
  /\ UNCHANGED <<registry, threads, arg, holds, history, counts>>

Joined(t) ==
  /\ pc[t] = "join" /\ client[t] \in stopped
  /\ pc' = [pc EXCEPT ![t] = "clear"]
  /\ UNCHANGED <<registry, threads, arg, client, swept, holds, history, counts>>

MutantKeepsMark(t) ==
  /\ pc[t] = "join" /\ client[t] \notin stopped
  /\ leaked' = leaked \cup {client[t]}
  /\ pc' = [pc EXCEPT ![t] = "next"]
  /\ UNCHANGED <<registry, threads, arg, client, swept, holds, promised, counts>>

\* SHUTDOWN_JOIN_TIMEOUT passes.
JoinTimeout(t) ==
  /\ pc[t] = "join" /\ client[t] \notin stopped
  /\ leaked' = leaked \cup {client[t]}
  /\ pc' = [pc EXCEPT ![t] = "clear"]
  /\ UNCHANGED <<registry, threads, arg, client, swept, holds, promised, counts>>

ClearMark(t) ==
  /\ pc[t] = "clear" /\ lock = None
  /\ shutting' = shutting \ {client[t][1]}
  /\ pc' = [pc EXCEPT ![t] = "next"]
  /\ UNCHANGED <<lock, cached, entry, threads, arg, client, swept, holds, history, counts>>

NextDone(t) ==
  /\ pc[t] = "next" /\ swept[t] = {}
  /\ pc' = [pc EXCEPT ![t] = "wait"]
  /\ UNCHANGED <<registry, threads, arg, client, swept, holds, history, counts>>

StillShutting(d) == \E r \in shutting : DeviceOf[r] = d

MutantNoWait(t) ==
  /\ pc[t] = "wait"
  /\ Return(t)
  /\ UNCHANGED <<registry, threads, arg, client, swept, holds, history, counts>>

\* wait_for_device_shutdown: another call may still be joining.
Waited(t) ==
  /\ pc[t] = "wait" /\ lock = None /\ ~StillShutting(arg[t])
  /\ Return(t)
  /\ UNCHANGED <<registry, threads, arg, client, swept, holds, history, counts>>

WaitTimeout(t) ==
  /\ pc[t] = "wait" /\ lock = None /\ StillShutting(arg[t])
  /\ promised' = [promised EXCEPT ![t] = {}]
  /\ Return(t)
  /\ UNCHANGED <<registry, threads, arg, client, swept, holds, leaked, counts>>

-----------------------------------------------------------------------------

Init ==
  /\ lock = None
  /\ cached = [key \in Keys |-> 0] /\ entry = [r \in Runners |-> 0]
  /\ shutting = {}
  /\ started = [r \in Runners |-> 0] /\ stopped = {}
  /\ services = [i \in Instances |-> {}]
  /\ queue = [i \in Instances |-> <<>>] /\ busy = [i \in Instances |-> "none"]
  /\ pc = [t \in Threads |-> "idle"] /\ arg = [t \in Threads |-> None]
  /\ client = [t \in Threads |-> None] /\ swept = [t \in Threads |-> {}]
  /\ holds = [t \in Threads |-> {}]
  /\ leaked = {} /\ promised = [t \in Threads |-> {}]
  /\ calls = 0 /\ tasks = 0

InitStep(t) ==
  \/ InitRefused(t) \/ InitCached(t) \/ InitFresh(t) \/ InitDirect(t)
  \/ InitDone(t) \/ InitFailed(t)

ShutdownStep(t) ==
  \/ Sweep(t) \/ NextRunner(t) \/ Joined(t) \/ JoinTimeout(t) \/ ClearMark(t)
  \/ NextDone(t) \/ Waited(t) \/ WaitTimeout(t)

RunnerStep(i) == RunInit(i) \/ RunTask(i) \/ TaskDone(i) \/ RunnerExit(i)

Next ==
  \/ \E t \in Threads :
       \/ InitStep(t) \/ ShutdownStep(t)
       \/ \E key \in Keys : InitCall(t, key)
       \/ \E d \in Devices : ShutdownCall(t, d)
       \/ \E i \in Instances : DropHandle(t, i) \/ \E kind \in {"act", "exclusive"} :
                                                     Submit(t, i, kind)
  \/ \E i \in Instances : RunnerStep(i)

Spec == Init /\ [][Next]_vars

\* Threads are scheduled, tasks return and timeouts pass. A handle need never
\* be dropped.
Fairness ==
  /\ \A t \in Threads : WF_vars(InitStep(t) \/ ShutdownStep(t))
  /\ \A i \in Instances : WF_vars(RunnerStep(i))

FairSpec == Spec /\ Fairness

-----------------------------------------------------------------------------

Labels == {"idle", "lock", "direct", "recv", "reply", "failed",
           "sweep", "next", "join", "clear", "wait"}
Closures == [kind : {"init", "act", "exclusive"}, by : Threads \cup {None}]

TypeOK ==
  /\ lock \in Threads \cup {None}
  /\ cached \in [Keys -> 0 .. MaxStarts] /\ entry \in [Runners -> 0 .. MaxStarts]
  /\ started \in [Runners -> 0 .. MaxStarts]
  /\ shutting \subseteq Runners
  /\ stopped \subseteq Instances /\ leaked \subseteq Instances
  /\ services \in [Instances -> SUBSET Services]
  /\ queue \in [Instances -> Seq(Closures)]
  /\ busy \in [Instances -> {"none", "act", "exclusive"}]
  /\ pc \in [Threads -> Labels] /\ arg \in [Threads -> Keys \cup Devices \cup {None}]
  /\ client \in [Threads -> Instances \cup {None}]
  /\ swept \in [Threads -> SUBSET Instances] /\ holds \in [Threads -> SUBSET Instances]
  /\ promised \in [Threads -> SUBSET Instances]
  /\ lock # None <=> \E t \in Threads : pc[t] \in {"direct", "recv", "reply", "failed"}

\* No id has two live threads, but for one a join gave up on: neither a racing
\* init nor an init during a shutdown starts a second (shutting_down).
OneRunnerPerId ==
  \A i, j \in Instances \ leaked :
    Alive(i) /\ Alive(j) /\ i[1] = j[1] => i = j

\* A cached client is of the registered runner: an init that raced with a
\* sweep never caches a client of a runner about to be joined, which would
\* park that runner forever.
CacheIsRegistered == \A key \in Keys : cached[key] # 0 => entry[key[1]] = cached[key]

\* S::init never runs for a service its runner already has, however many
\* threads ask for it at once, unless the runner was given up on.
InitOnce ==
  \A i \in Instances \ leaked : \A k \in DOMAIN queue[i] :
    queue[i][k].kind = "init" => arg[queue[i][k].by][2] \notin services[i]

\* What the lock and the shutting_down marks keep true at every step.
RegistryInv == TypeOK /\ OneRunnerPerId /\ CacheIsRegistered /\ InitOnce

\* When a shutdown returns, every runner the device had when it swept is gone,
\* whoever joined it, unless a join or the wait timed out.
ShutdownOutlasts ==
  [][\A t \in Threads :
       pc[t] = "wait" /\ pc'[t] = "idle" => promised'[t] \subseteq stopped \cup leaked]_vars

\* Every init returns.
InitReturns == \A t \in Threads : pc[t] = "lock" ~> pc[t] = "idle"

\* No call hangs on the lock, on a runner or on another call: every init and
\* every shutdown returns, whatever handles stay alive.
CallsReturn == \A t \in Threads : pc[t] # "idle" ~> pc[t] = "idle"

\* The service of a cached channel is on the thread its client reaches
\* (act_on: "Service state not found").
ServiceFound ==
  \A key \in Keys : cached[key] # 0 => key[2] \in services[<<key[1], cached[key]>>]
=============================================================================
