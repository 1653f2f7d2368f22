------------------------- MODULE DeviceRegistryProofs -------------------------
(***************************************************************************)
(* The registry of device runners, proved for any threads, runner ids,      *)
(* devices and services, and any number of calls and tasks.                 *)
(***************************************************************************)
EXTENDS DeviceRegistry, TLAPS

USE ZenonT(3), SMTT(20)

Locked == {"direct", "recv", "reply", "failed"}
Shutting == {"next", "join", "clear"}

\* The runners a shutdown has swept and whose marks it has not cleared.
Joining(t) == swept[t] \cup {i \in {client[t]} : pc[t] \in {"join", "clear"}}

\* The lock is with the thread inside init, and only there.
LockInv == \A t \in Threads : lock = t <=> pc[t] \in Locked

\* A call has the arguments of its kind, and a task around it when it is made
\* on a runner.
CallsInv ==
  \A t \in Threads :
    /\ pc[t] \in Locked \cup {"lock"} => arg[t] \in Keys
    /\ pc[t] \notin Shutting => swept[t] = {}
    /\ t \in Instances /\ pc[t] # "idle" => busy[t] # "none"
    /\ pc[t] = "direct" => t \in Instances /\ t[1] = arg[t][1]

\* The registered runner of an id is its last one, and alive.
EntryInv ==
  /\ \A i \in stopped : i[2] <= started[i[1]]
  /\ \A i \in Instances :
       /\ busy[i] # "none" => Alive(i)
       /\ services[i] # {} => i[2] <= started[i[1]]
  /\ \A r \in Runners :
       entry[r] # 0 => entry[r] = started[r] /\ <<r, entry[r]>> \notin stopped /\ r \notin shutting

\* A runner that is to be joined is marked, by one shutdown, and is gone or
\* given up on when its mark is cleared.
JoinInv ==
  /\ \A t \in Threads : \A i \in Joining(t) : i \in Instances /\ i[1] \in shutting
  /\ \A t, u \in Threads : \A i \in Joining(t), j \in Joining(u) : i[1] = j[1] => t = u /\ i = j
  /\ \A t \in Threads :
       /\ pc[t] \in {"join", "clear"} => client[t] \in Instances /\ client[t] \notin swept[t]
       /\ pc[t] = "clear" => client[t] \in stopped \cup leaked

\* A live thread is registered, about to be joined, or given up on.
LiveInv ==
  \A i \in Instances \ leaked :
    Alive(i) => entry[i[1]] = i[2] \/ \E t \in Threads : i \in Joining(t)

\* An init under the lock is for a runner that is registered and has no
\* service cached for the key.
InitInv ==
  \A t \in Threads : pc[t] \in {"direct", "recv", "reply"} =>
    /\ client[t] \in Instances /\ client[t][1] = arg[t][1]
    /\ entry[client[t][1]] = client[t][2] /\ cached[arg[t]] = 0

\* The closure of an init is queued once, for the runner its caller waits for.
QueueInv ==
  \A i \in Instances : \A k \in 1 .. Len(queue[i]) : queue[i][k].kind = "init" =>
    /\ queue[i][k].by \in Threads /\ pc[queue[i][k].by] = "recv" /\ client[queue[i][k].by] = i
    /\ \A m \in 1 .. Len(queue[i]) : queue[i][m].kind = "init" => m = k

\* What a registered runner has was cached, or is about to be.
ServicesInv ==
  \A i \in Instances \ leaked : \A s \in services[i] :
    entry[i[1]] = i[2] =>
      \/ cached[<<i[1], s>>] = i[2]
      \/ \E t \in Threads : pc[t] = "reply" /\ client[t] = i /\ arg[t] = <<i[1], s>>

\* What a shutdown has to outlast is gone, given up on, or joined by someone.
PromiseInv ==
  \A t \in Threads : pc[t] \in Shutting \cup {"wait"} => \A i \in promised[t] :
    /\ DeviceOf[i[1]] = arg[t]
    /\ i \in stopped \cup leaked \/ \E u \in Threads : i \in Joining(u)

Inv ==
  /\ TypeOK /\ CacheIsRegistered /\ LockInv /\ CallsInv /\ EntryInv /\ JoinInv /\ LiveInv
  /\ InitInv /\ QueueInv /\ ServicesInv /\ PromiseInv

-----------------------------------------------------------------------------

LEMMA Types ==
  ASSUME TypeOK
  PROVE  /\ cached \in [Keys -> 0 .. MaxStarts] /\ entry \in [Runners -> 0 .. MaxStarts]
         /\ started \in [Runners -> 0 .. MaxStarts] /\ shutting \subseteq Runners
         /\ stopped \subseteq Instances /\ leaked \subseteq Instances
         /\ services \in [Instances -> SUBSET Services]
         /\ queue \in [Instances -> Seq(Closures)]
         /\ busy \in [Instances -> {"none", "act", "exclusive"}]
         /\ pc \in [Threads -> Labels] /\ arg \in [Threads -> Keys \cup Devices \cup {None}]
         /\ client \in [Threads -> Instances \cup {None}]
         /\ swept \in [Threads -> SUBSET Instances] /\ holds \in [Threads -> SUBSET Instances]
         /\ promised \in [Threads -> SUBSET Instances]
  BY DEF TypeOK

LEMMA Constants ==
  /\ MaxStarts \in Nat /\ None \notin Threads /\ Instances \subseteq Threads
  /\ \A i \in Instances : i[1] \in Runners /\ i[2] \in 1 .. MaxStarts /\ i = <<i[1], i[2]>>
  /\ \A r \in Runners : \A n \in 1 .. MaxStarts : <<r, n>> \in Instances
  BY RegistryAssumption DEF Threads, Instances

LEMMA InitOK == Init => Inv
<1> SUFFICES ASSUME Init
             PROVE  Inv
  OBVIOUS
<1>1. TypeOK
  <2>1. \A t \in Threads : pc[t] = "idle"
    BY DEF Init
  <2>2. <<>> \in Seq(Closures)
    OBVIOUS
  <2>3. 0 \in 0 .. MaxStarts
    BY Constants
  <2> QED
    BY <2>1, <2>2, <2>3 DEF Init, TypeOK, Labels
<1>2. \A t \in Threads : Joining(t) = {} /\ pc[t] = "idle" /\ swept[t] = {}
  BY DEF Init, Joining
<1>3. \A i \in Instances : Len(queue[i]) = 0 /\ ~Alive(i)
  BY Constants DEF Init, Alive
<1>4. CacheIsRegistered
  BY DEF Init, CacheIsRegistered
<1>5. LockInv
  BY Constants DEF Init, LockInv, Locked
<1>6. CallsInv /\ JoinInv /\ InitInv /\ PromiseInv
  BY <1>2 DEF CallsInv, JoinInv, InitInv, PromiseInv, Locked, Shutting
<1>7. EntryInv
  BY DEF Init, EntryInv
<1>8. LiveInv
  BY <1>3 DEF LiveInv
<1>9. QueueInv
  BY <1>3 DEF QueueInv
<1>10. ServicesInv
  BY DEF Init, ServicesInv
<1> QED
  BY <1>1, <1>4, <1>5, <1>6, <1>7, <1>8, <1>9, <1>10 DEF Inv

\* Each part of the invariant is about these variables.
LEMMA Frame ==
  ASSUME Inv
  PROVE  /\ UNCHANGED <<cached, entry>> => CacheIsRegistered'
         /\ UNCHANGED <<lock, pc>> => LockInv'
         /\ UNCHANGED <<pc, arg, swept, busy>> => CallsInv'
         /\ UNCHANGED <<stopped, started, services, busy, entry, shutting>> => EntryInv'
         /\ UNCHANGED <<swept, client, pc, shutting, stopped, leaked>> => JoinInv'
         /\ UNCHANGED <<leaked, started, stopped, entry, swept, client, pc>> => LiveInv'
         /\ UNCHANGED <<pc, client, arg, entry, cached>> => InitInv'
         /\ UNCHANGED <<queue, pc, client>> => QueueInv'
         /\ UNCHANGED <<leaked, services, entry, cached, pc, client, arg>> => ServicesInv'
         /\ UNCHANGED <<pc, promised, arg, stopped, leaked, swept, client>> => PromiseInv'
<1>1. UNCHANGED <<cached, entry>> => CacheIsRegistered'
  BY DEF Inv, CacheIsRegistered
<1>2. UNCHANGED <<lock, pc>> => LockInv'
  BY DEF Inv, LockInv
<1>3. UNCHANGED <<pc, arg, swept, busy>> => CallsInv'
  BY DEF Inv, CallsInv
<1>4. UNCHANGED <<stopped, started, services, busy, entry, shutting>> => EntryInv'
  BY DEF Inv, EntryInv, Alive
<1>5. ASSUME UNCHANGED <<swept, client, pc>>
      PROVE  \A t : Joining(t)' = Joining(t)
  BY <1>5 DEF Joining
<1>6. UNCHANGED <<swept, client, pc, shutting, stopped, leaked>> => JoinInv'
  BY <1>5 DEF Inv, JoinInv
<1>7. UNCHANGED <<leaked, started, stopped, entry, swept, client, pc>> => LiveInv'
  BY <1>5 DEF Inv, LiveInv, Alive
<1>8. UNCHANGED <<pc, client, arg, entry, cached>> => InitInv'
  BY DEF Inv, InitInv
<1>9. UNCHANGED <<queue, pc, client>> => QueueInv'
  BY DEF Inv, QueueInv
<1>10. UNCHANGED <<leaked, services, entry, cached, pc, client, arg>> => ServicesInv'
  BY DEF Inv, ServicesInv
<1>11. UNCHANGED <<pc, promised, arg, stopped, leaked, swept, client>> => PromiseInv'
  BY <1>5 DEF Inv, PromiseInv
<1> QED
  BY <1>1, <1>2, <1>3, <1>4, <1>6, <1>7, <1>8, <1>9, <1>10, <1>11

\* What a thread that only moves on leaves alone.
LEMMA Moves ==
  ASSUME Inv, NEW t \in Threads, NEW to \in Labels, pc' = [pc EXCEPT ![t] = to]
  PROVE  /\ pc[t] \notin Locked /\ to \notin Locked /\ UNCHANGED lock => LockInv'
         /\ to \notin {"direct", "recv", "reply"} /\ UNCHANGED <<client, arg, entry, cached>> => InitInv'
         /\ pc[t] # "recv" /\ UNCHANGED <<queue, client>> => QueueInv'
         /\ pc[t] # "reply" /\ UNCHANGED <<leaked, services, entry, cached, client, arg>> => ServicesInv'
         /\ pc[t] \notin {"join", "clear"} /\ to \notin {"join", "clear"} /\ UNCHANGED <<swept, client>> =>
              \A u \in Threads : Joining(u)' = Joining(u)
<1>1. /\ pc'[t] = to /\ \A u \in Threads : u # t => pc'[u] = pc[u]
  BY Types DEF Inv
<1>2. pc[t] \notin Locked /\ to \notin Locked /\ UNCHANGED lock => LockInv'
  BY <1>1 DEF Inv, LockInv
<1>3. to \notin {"direct", "recv", "reply"} /\ UNCHANGED <<client, arg, entry, cached>> => InitInv'
  BY <1>1 DEF Inv, InitInv
<1>4. pc[t] # "recv" /\ UNCHANGED <<queue, client>> => QueueInv'
  BY <1>1 DEF Inv, QueueInv
<1>5. pc[t] # "reply" /\ UNCHANGED <<leaked, services, entry, cached, client, arg>> => ServicesInv'
  BY <1>1 DEF Inv, ServicesInv
<1>6. ASSUME pc[t] \notin {"join", "clear"}, to \notin {"join", "clear"}, UNCHANGED <<swept, client>>,
             NEW u \in Threads
      PROVE  Joining(u)' = Joining(u)
  <2>1. pc'[u] \in {"join", "clear"} <=> pc[u] \in {"join", "clear"}
    BY <1>1, <1>6
  <2> QED
    BY <1>6, <2>1 DEF Joining
<1> QED
  BY <1>2, <1>3, <1>4, <1>5, <1>6

\* The same shutdowns join the same runners.
LEMMA SameJoins ==
  ASSUME Inv, \A u \in Threads : Joining(u)' = Joining(u)
  PROVE  /\ /\ UNCHANGED <<shutting, stopped, leaked, client, swept>>
            /\ \A u \in Threads : pc'[u] \in {"join", "clear"} => pc'[u] = pc[u]
            => JoinInv'
         /\ UNCHANGED <<leaked, started, stopped, entry>> => LiveInv'
         /\ /\ UNCHANGED <<promised, arg, stopped, leaked>>
            /\ \A u \in Threads : pc'[u] \in Shutting \cup {"wait"} => pc[u] \in Shutting \cup {"wait"}
            => PromiseInv'
<1>1. /\ UNCHANGED <<shutting, stopped, leaked, client, swept>>
      /\ \A u \in Threads : pc'[u] \in {"join", "clear"} => pc'[u] = pc[u]
      => JoinInv'
  BY DEF Inv, JoinInv
<1>2. UNCHANGED <<leaked, started, stopped, entry>> => LiveInv'
  BY DEF Inv, LiveInv, Alive
<1>3. /\ UNCHANGED <<promised, arg, stopped, leaked>>
      /\ \A u \in Threads : pc'[u] \in Shutting \cup {"wait"} => pc[u] \in Shutting \cup {"wait"}
      => PromiseInv'
  BY DEF Inv, PromiseInv
<1> QED
  BY <1>1, <1>2, <1>3

LEMMA LockTypes ==
  ASSUME LockInv', lock' \in Threads \cup {None}
  PROVE  lock' # None <=> \E t \in Threads : pc'[t] \in {"direct", "recv", "reply", "failed"}
  BY Constants DEF LockInv, Locked

LEMMA Labelled ==
  ASSUME Inv, NEW t \in Threads, NEW to \in Labels, pc' = [pc EXCEPT ![t] = to]
  PROVE  /\ pc' \in [Threads -> Labels] /\ pc'[t] = to
         /\ \A u \in Threads : u # t => pc'[u] = pc[u]
  BY Types DEF Inv

-----------------------------------------------------------------------------
(* Calls and returns *)

\* A thread that enters init with a key, or shutdown_device with a device.
LEMMA CallOK ==
  ASSUME Inv, NEW t \in Threads, NEW to \in {"lock", "sweep"}, NEW a \in Keys \cup Devices,
         to = "lock" => a \in Keys, MayCall(t),
         pc' = [pc EXCEPT ![t] = to], arg' = [arg EXCEPT ![t] = a],
         UNCHANGED <<lock, cached, entry, shutting, started, stopped, services, queue, busy,
                     client, swept, holds, leaked, promised>>
  PROVE  Inv'
<1>1. pc[t] = "idle" /\ to \in Labels /\ (t \in Instances => busy[t] # "none")
  BY DEF MayCall, Labels
<1>2. /\ pc' \in [Threads -> Labels] /\ pc'[t] = to
      /\ \A u \in Threads : u # t => pc'[u] = pc[u]
  BY <1>1, Labelled
<1>3. /\ arg'[t] = a /\ \A u \in Threads : u # t => arg'[u] = arg[u]
      /\ arg' \in [Threads -> Keys \cup Devices \cup {None}]
  BY Types DEF Inv
<1>4. LockInv' /\ QueueInv' /\ \A u \in Threads : Joining(u)' = Joining(u)
  BY <1>1, Moves DEF Locked
<1>5. TypeOK'
  BY <1>1, <1>2, <1>3, <1>4, LockTypes DEF Inv, TypeOK
<1>6. CallsInv'
  BY <1>1, <1>2, <1>3 DEF Inv, CallsInv, Locked, Shutting
<1>7. JoinInv' /\ LiveInv'
  BY <1>1, <1>2, <1>4, SameJoins
<1>8. InitInv'
  BY <1>1, <1>2, <1>3 DEF Inv, InitInv
<1>9. ServicesInv'
  BY <1>1, <1>2, <1>3 DEF Inv, ServicesInv
<1>10. PromiseInv'
  BY <1>1, <1>2, <1>3, <1>4 DEF Inv, PromiseInv, Shutting
<1> QED
  BY <1>1, <1>4, <1>5, <1>6, <1>7, <1>8, <1>9, <1>10, Frame DEF Inv

\* A call that ends without having changed the registry, and the step from the
\* joins of a shutdown to its wait.
LEMMA ReturnOK ==
  ASSUME Inv, NEW t \in Threads, NEW to \in {"idle", "wait"}, pc' = [pc EXCEPT ![t] = to],
         \/ to = "idle" /\ pc[t] \in {"lock", "wait"}
         \/ to = "wait" /\ pc[t] = "next" /\ swept[t] = {},
         \/ UNCHANGED promised
         \/ to = "idle" /\ promised' = [promised EXCEPT ![t] = {}],
         holds' \in [Threads -> SUBSET Instances],
         UNCHANGED <<lock, cached, entry, shutting, started, stopped, services, queue, busy,
                     arg, client, swept, leaked>>
  PROVE  Inv'
<1>1. to \in Labels
  BY DEF Labels
<1>2. /\ pc' \in [Threads -> Labels] /\ pc'[t] = to
      /\ \A u \in Threads : u # t => pc'[u] = pc[u]
  BY <1>1, Labelled
<1>3. promised' \in [Threads -> SUBSET Instances] /\ \A u \in Threads : u # t => promised'[u] = promised[u]
  BY Types DEF Inv
<1>4. LockInv' /\ InitInv' /\ QueueInv' /\ ServicesInv' /\ \A u \in Threads : Joining(u)' = Joining(u)
  <2>1. pc[t] \in {"lock", "next", "wait"}
    OBVIOUS
  <2> QED
    BY <1>1, <2>1, Moves DEF Locked
<1>5. TypeOK'
  BY <1>2, <1>3, <1>4, LockTypes DEF Inv, TypeOK
<1>6. CallsInv'
  BY <1>2 DEF Inv, CallsInv, Locked, Shutting
<1>7. JoinInv' /\ LiveInv'
  BY <1>2, <1>4, SameJoins
<1>8. PromiseInv'
  BY <1>2, <1>3, <1>4 DEF Inv, PromiseInv, Shutting
<1> QED
  BY <1>4, <1>5, <1>6, <1>7, <1>8, Frame DEF Inv

LEMMA InitRefusedOK ==
  ASSUME Inv, NEW t \in Threads, InitRefused(t)
  PROVE  Inv'
<1>1. /\ pc[t] = "lock" /\ pc' = [pc EXCEPT ![t] = "idle"]
      /\ UNCHANGED <<lock, cached, entry, shutting, started, stopped, services, queue, busy,
                     arg, client, swept, holds, leaked, promised>>
  BY DEF InitRefused, Return, registry, threads, history
<1> QED
  BY <1>1, Types, ReturnOK DEF Inv

LEMMA InitCachedOK ==
  ASSUME Inv, NEW t \in Threads, InitCached(t)
  PROVE  Inv'
<1>1. /\ pc[t] = "lock" /\ pc' = [pc EXCEPT ![t] = "idle"] /\ cached[arg[t]] # 0
      /\ \/ holds' = [holds EXCEPT ![t] = @ \cup {<<arg[t][1], cached[arg[t]]>>}]
         \/ UNCHANGED holds
      /\ UNCHANGED <<lock, cached, entry, shutting, started, stopped, services, queue, busy,
                     arg, client, swept, leaked, promised>>
  BY DEF InitCached, Return, registry, threads, history
<1>2. <<arg[t][1], cached[arg[t]]>> \in Instances
  <2>1. arg[t] \in Keys
    BY <1>1 DEF Inv, CallsInv
  <2>2. arg[t][1] \in Runners /\ cached[arg[t]] \in 1 .. MaxStarts
    BY <1>1, <2>1, Types, Constants DEF Inv, Keys
  <2> QED
    BY <2>2, Constants
<1>3. holds' \in [Threads -> SUBSET Instances]
  <2>1. holds \in [Threads -> SUBSET Instances] /\ holds[t] \subseteq Instances
    BY Types DEF Inv
  <2>2. holds[t] \cup {<<arg[t][1], cached[arg[t]]>>} \in SUBSET Instances
    BY <1>2, <2>1
  <2> QED
    BY <1>1, <2>1, <2>2
<1> QED
  BY <1>1, <1>3, ReturnOK

LEMMA NextDoneOK ==
  ASSUME Inv, NEW t \in Threads, NextDone(t)
  PROVE  Inv'
<1>1. /\ pc[t] = "next" /\ swept[t] = {} /\ pc' = [pc EXCEPT ![t] = "wait"]
      /\ UNCHANGED <<lock, cached, entry, shutting, started, stopped, services, queue, busy,
                     arg, client, swept, holds, leaked, promised>>
  BY DEF NextDone, registry, threads, history
<1> QED
  BY <1>1, Types, ReturnOK DEF Inv

LEMMA WaitOverOK ==
  ASSUME Inv, NEW t \in Threads, Waited(t) \/ WaitTimeout(t)
  PROVE  Inv'
<1>1. /\ pc[t] = "wait" /\ pc' = [pc EXCEPT ![t] = "idle"]
      /\ UNCHANGED promised \/ promised' = [promised EXCEPT ![t] = {}]
      /\ UNCHANGED <<lock, cached, entry, shutting, started, stopped, services, queue, busy,
                     arg, client, swept, holds, leaked>>
  BY DEF Waited, WaitTimeout, Return, registry, threads, history
<1> QED
  BY <1>1, Types, ReturnOK DEF Inv

-----------------------------------------------------------------------------
(* Runners and handles *)

\* Handles come and go, and tasks are queued, without a word to the registry.
LEMMA TasksOK ==
  ASSUME Inv, holds' \in [Threads -> SUBSET Instances], queue' \in [Instances -> Seq(Closures)],
         \A i \in Instances : \A k \in 1 .. Len(queue'[i]) : queue'[i][k].kind = "init" =>
           \E m \in 1 .. Len(queue[i]) :
             /\ queue'[i][k] = queue[i][m]
             /\ \A n \in 1 .. Len(queue'[i]) : queue'[i][n].kind = "init" => n = k,
         UNCHANGED <<lock, cached, entry, shutting, started, stopped, services, pc,
                     arg, client, swept, leaked, promised>>
  PROVE  UNCHANGED busy \/ (TypeOK' /\ CallsInv' /\ EntryInv') => Inv'
<1>1. QueueInv'
  BY DEF Inv, QueueInv
<1>2. UNCHANGED busy => TypeOK'
  BY DEF Inv, TypeOK
<1> QED
  BY <1>1, <1>2, Frame DEF Inv

LEMMA Shortened ==
  ASSUME NEW S, NEW q \in Seq(S), q # <<>>
  PROVE  /\ Tail(q) \in Seq(S) /\ Len(Tail(q)) = Len(q) - 1 /\ Len(q) \in Nat \ {0}
         /\ Head(q) = q[1] /\ q[1] \in S
         /\ \A k \in 1 .. Len(Tail(q)) : Tail(q)[k] = q[k + 1] /\ k + 1 \in 1 .. Len(q)
  OBVIOUS

LEMMA Lengthened ==
  ASSUME NEW S, NEW q \in Seq(S), NEW e \in S
  PROVE  /\ Append(q, e) \in Seq(S) /\ Len(Append(q, e)) = Len(q) + 1 /\ Len(q) \in Nat
         /\ Append(q, e)[Len(q) + 1] = e
         /\ \A k \in 1 .. Len(q) : Append(q, e)[k] = q[k]
  OBVIOUS

LEMMA DropHandleOK ==
  ASSUME Inv, NEW t \in Threads, NEW i \in Instances, DropHandle(t, i)
  PROVE  Inv'
<1>1. /\ holds' = [holds EXCEPT ![t] = @ \ {i}]
      /\ UNCHANGED <<lock, cached, entry, shutting, started, stopped, services, queue, busy, pc,
                     arg, client, swept, leaked, promised>>
  BY DEF DropHandle, registry, threads, history
<1>2. holds' \in [Threads -> SUBSET Instances]
  <2>1. holds \in [Threads -> SUBSET Instances] /\ holds[t] \ {i} \in SUBSET Instances
    BY Types DEF Inv
  <2> QED
    BY <1>1, <2>1
<1>3. \A j \in Instances : \A k \in 1 .. Len(queue[j]) : queue[j][k].kind = "init" =>
        \A n \in 1 .. Len(queue[j]) : queue[j][n].kind = "init" => n = k
  BY DEF Inv, QueueInv
<1> QED
  BY <1>1, <1>2, <1>3, TasksOK, Types DEF Inv

LEMMA SubmitOK ==
  ASSUME Inv, NEW t \in Threads, NEW i \in Instances, NEW kind \in {"act", "exclusive"},
         Submit(t, i, kind)
  PROVE  Inv'
<1> DEFINE e == Closure(kind, None)
<1>1. /\ queue' = [queue EXCEPT ![i] = Append(@, e)]
      /\ UNCHANGED <<lock, cached, entry, shutting, started, stopped, services, busy, pc,
                     arg, client, swept, holds, leaked, promised>>
  BY DEF Submit, registry, frames, history
<1>2. e \in Closures /\ e.kind # "init"
  BY DEF Closure, Closures
<1> HIDE DEF e
<1>3. queue \in [Instances -> Seq(Closures)] /\ queue[i] \in Seq(Closures)
  BY Types DEF Inv
<1>4. /\ Append(queue[i], e) \in Seq(Closures) /\ Len(Append(queue[i], e)) = Len(queue[i]) + 1
      /\ Len(queue[i]) \in Nat /\ Append(queue[i], e)[Len(queue[i]) + 1] = e
      /\ \A k \in 1 .. Len(queue[i]) : Append(queue[i], e)[k] = queue[i][k]
  BY <1>2, <1>3, Lengthened
<1>5. queue' \in [Instances -> Seq(Closures)]
  BY <1>1, <1>3, <1>4
<1>6. ASSUME NEW j \in Instances, NEW k \in 1 .. Len(queue'[j]), queue'[j][k].kind = "init"
      PROVE  k \in 1 .. Len(queue[j]) /\ queue'[j][k] = queue[j][k]
  <2>1. CASE j = i
    <3>1. queue'[i] = Append(queue[i], e)
      BY <1>1, <1>3
    <3>2. k # Len(queue[i]) + 1
      BY <1>2, <1>4, <1>6, <2>1, <3>1
    <3> QED
      BY <1>4, <2>1, <3>1, <3>2
  <2>2. CASE j # i
    BY <1>1, <1>3, <2>2
  <2> QED
    BY <2>1, <2>2
<1>7. \A j \in Instances : \A k, n \in 1 .. Len(queue[j]) :
        queue[j][k].kind = "init" /\ queue[j][n].kind = "init" => n = k
  BY DEF Inv, QueueInv
<1>8. ASSUME NEW j \in Instances, NEW k \in 1 .. Len(queue'[j]), queue'[j][k].kind = "init"
      PROVE  \E m \in 1 .. Len(queue[j]) :
               /\ queue'[j][k] = queue[j][m]
               /\ \A n \in 1 .. Len(queue'[j]) : queue'[j][n].kind = "init" => n = k
  BY <1>6, <1>7, <1>8
<1> QED
  BY <1>1, <1>5, <1>8, TasksOK, Types DEF Inv

LEMMA RunTaskOK ==
  ASSUME Inv, NEW i \in Instances, RunTask(i)
  PROVE  Inv'
<1>1. /\ Alive(i) /\ busy[i] = "none" /\ queue[i] # <<>> /\ Head(queue[i]).kind # "init"
      /\ busy' = [busy EXCEPT ![i] = Head(queue[i]).kind]
      /\ queue' = [queue EXCEPT ![i] = Tail(@)]
      /\ UNCHANGED <<lock, cached, entry, shutting, started, stopped, services, pc,
                     arg, client, swept, holds, leaked, promised>>
  BY DEF RunTask, registry, frames, history
<1>2. queue \in [Instances -> Seq(Closures)] /\ queue[i] \in Seq(Closures)
      /\ busy \in [Instances -> {"none", "act", "exclusive"}]
  BY Types DEF Inv
<1>3. /\ Tail(queue[i]) \in Seq(Closures) /\ Len(Tail(queue[i])) = Len(queue[i]) - 1
      /\ Len(queue[i]) \in Nat \ {0} /\ Head(queue[i]) = queue[i][1] /\ queue[i][1] \in Closures
      /\ \A k \in 1 .. Len(Tail(queue[i])) :
           Tail(queue[i])[k] = queue[i][k + 1] /\ k + 1 \in 1 .. Len(queue[i])
  BY <1>1, <1>2, Shortened
<1>4. queue' \in [Instances -> Seq(Closures)]
  BY <1>1, <1>2, <1>3
<1>5. /\ busy' \in [Instances -> {"none", "act", "exclusive"}] /\ busy'[i] # "none"
      /\ \A j \in Instances : j # i => busy'[j] = busy[j]
  <2>1. Head(queue[i]).kind \in {"act", "exclusive"}
    BY <1>1, <1>3 DEF Closures
  <2> QED
    BY <1>1, <1>2, <2>1
<1>6. ASSUME NEW j \in Instances, NEW k \in 1 .. Len(queue'[j])
      PROVE  IF j = i THEN queue'[j][k] = queue[j][k + 1] /\ k + 1 \in 1 .. Len(queue[j])
                      ELSE queue'[j][k] = queue[j][k] /\ k \in 1 .. Len(queue[j])
  <2>1. CASE j = i
    BY <1>1, <1>2, <1>3, <2>1
  <2>2. CASE j # i
    BY <1>1, <1>2, <2>2
  <2> QED
    BY <2>1, <2>2
<1>7. \A j \in Instances : \A k, n \in 1 .. Len(queue[j]) :
        queue[j][k].kind = "init" /\ queue[j][n].kind = "init" => n = k
  BY DEF Inv, QueueInv
<1>8. ASSUME NEW j \in Instances, NEW k \in 1 .. Len(queue'[j]), queue'[j][k].kind = "init"
      PROVE  \E m \in 1 .. Len(queue[j]) :
               /\ queue'[j][k] = queue[j][m]
               /\ \A n \in 1 .. Len(queue'[j]) : queue'[j][n].kind = "init" => n = k
  <2>1. CASE j = i
    <3>1. queue'[j][k] = queue[j][k + 1] /\ k + 1 \in 1 .. Len(queue[j])
      BY <1>6, <2>1
    <3>2. ASSUME NEW n \in 1 .. Len(queue'[j]), queue'[j][n].kind = "init"
          PROVE  n = k
      <4>1. queue'[j][n] = queue[j][n + 1] /\ n + 1 \in 1 .. Len(queue[j])
        BY <1>6, <2>1
      <4>2. n + 1 = k + 1
        BY <1>7, <1>8, <3>1, <3>2, <4>1
      <4> QED
        BY <4>2
    <3> QED
      BY <3>1, <3>2
  <2>2. CASE j # i
    BY <1>6, <1>7, <1>8, <2>2
  <2> QED
    BY <2>1, <2>2
<1>9. TypeOK'
  BY <1>1, <1>4, <1>5 DEF Inv, TypeOK
<1>10. CallsInv'
  BY <1>1, <1>5 DEF Inv, CallsInv
<1>11. EntryInv'
  BY <1>1, <1>5 DEF Inv, EntryInv, Alive
<1> QED
  BY <1>1, <1>4, <1>8, <1>9, <1>10, <1>11, TasksOK, Types DEF Inv

LEMMA TaskDoneOK ==
  ASSUME Inv, NEW i \in Instances, TaskDone(i)
  PROVE  Inv'
<1>1. /\ busy[i] # "none" /\ pc[i] = "idle"
      /\ busy' = [busy EXCEPT ![i] = "none"] /\ holds' = [holds EXCEPT ![i] = {}]
      /\ UNCHANGED <<lock, cached, entry, shutting, started, stopped, services, queue, pc,
                     arg, client, swept, leaked, promised>>
  BY DEF TaskDone, registry, history
<1>2. holds' \in [Threads -> SUBSET Instances]
  BY <1>1, Types DEF Inv
<1>3. /\ busy' \in [Instances -> {"none", "act", "exclusive"}] /\ busy'[i] = "none"
      /\ \A j \in Instances : j # i => busy'[j] = busy[j]
  BY <1>1, Types DEF Inv
<1>4. \A j \in Instances : \A k \in 1 .. Len(queue[j]) : queue[j][k].kind = "init" =>
        \A n \in 1 .. Len(queue[j]) : queue[j][n].kind = "init" => n = k
  BY DEF Inv, QueueInv
<1>5. TypeOK'
  BY <1>1, <1>2, <1>3 DEF Inv, TypeOK
<1>6. CallsInv'
  BY <1>1, <1>3 DEF Inv, CallsInv
<1>7. EntryInv'
  BY <1>1, <1>3 DEF Inv, EntryInv, Alive
<1> QED
  BY <1>1, <1>2, <1>4, <1>5, <1>6, <1>7, TasksOK, Types DEF Inv

LEMMA RunnerExitOK ==
  ASSUME Inv, NEW i \in Instances, RunnerExit(i)
  PROVE  Inv'
<1>1. /\ Alive(i) /\ busy[i] = "none" /\ entry[i[1]] # i[2] /\ stopped' = stopped \cup {i}
      /\ UNCHANGED <<lock, cached, entry, shutting, started, services, queue, busy, pc,
                     arg, client, swept, holds, leaked, promised>>
  BY DEF RunnerExit, Referenced, registry, frames, history
<1>2. TypeOK'
  BY <1>1 DEF Inv, TypeOK
<1>3. EntryInv'
  BY <1>1 DEF Inv, EntryInv, Alive
<1>4. \A u \in Threads : Joining(u)' = Joining(u)
  BY <1>1 DEF Joining
<1>5. JoinInv'
  BY <1>1, <1>4 DEF Inv, JoinInv
<1>6. LiveInv'
  BY <1>1, <1>4 DEF Inv, LiveInv, Alive
<1>7. PromiseInv'
  BY <1>1, <1>4 DEF Inv, PromiseInv
<1> QED
  BY <1>1, <1>2, <1>3, <1>5, <1>6, <1>7, Frame DEF Inv

-----------------------------------------------------------------------------
(* init *)

\* While nobody has the lock no init is on its way.
LEMMA Unlocked ==
  ASSUME Inv, lock = None
  PROVE  /\ \A t \in Threads : pc[t] \notin Locked
         /\ \A i \in Instances : \A k \in 1 .. Len(queue[i]) : queue[i][k].kind # "init"
  BY Constants DEF Inv, LockInv, QueueInv, Locked

\* The runner an init gets: the registered one or the next of its id.
LEMMA RunnerForIs ==
  ASSUME Inv, NEW r \in Runners, RunnerFor(r) <= MaxStarts
  PROVE  /\ RunnerFor(r) \in 1 .. MaxStarts /\ <<r, RunnerFor(r)>> \in Instances
         /\ <<r, RunnerFor(r)>> \notin stopped
         /\ \/ entry[r] = RunnerFor(r) /\ started[r] = RunnerFor(r)
            \/ entry[r] = 0 /\ started[r] = RunnerFor(r) - 1
<1>1. entry[r] \in 0 .. MaxStarts /\ started[r] \in 0 .. MaxStarts
  BY Types DEF Inv
<1>2. /\ RunnerFor(r) \in 1 .. MaxStarts
      /\ \/ entry[r] = RunnerFor(r) /\ started[r] = RunnerFor(r)
         \/ entry[r] = 0 /\ started[r] = RunnerFor(r) - 1
  <2>1. CASE entry[r] # 0
    <3>1. RunnerFor(r) = entry[r] /\ entry[r] = started[r]
      BY <2>1 DEF Inv, EntryInv, RunnerFor
    <3> QED
      BY <1>1, <2>1, <3>1, Constants
  <2>2. CASE entry[r] = 0
    <3>1. RunnerFor(r) = started[r] + 1
      BY <2>2 DEF RunnerFor
    <3> QED
      BY <1>1, <2>2, <3>1, Constants
  <2> QED
    BY <2>1, <2>2
<1>3. <<r, RunnerFor(r)>> \notin stopped
  <2>1. CASE entry[r] # 0
    BY <2>1 DEF Inv, EntryInv, RunnerFor
  <2>2. CASE entry[r] = 0
    BY <1>1, <2>2 DEF Inv, EntryInv, RunnerFor
  <2> QED
    BY <2>1, <2>2
<1> QED
  BY <1>2, <1>3, Constants

\* What init has done when it waits for the runner, or is about to run on it.
Fresh(t, r, n) ==
  /\ pc[t] = "lock" /\ lock = None /\ r \notin shutting /\ cached[arg[t]] = 0
  /\ r \in Runners /\ r = arg[t][1] /\ arg[t] \in Keys
  /\ n \in 1 .. MaxStarts /\ <<r, n>> \in Instances /\ <<r, n>> \notin stopped
  /\ \/ entry[r] = n /\ started[r] = n
     \/ entry[r] = 0 /\ started[r] = n - 1
  /\ lock' = t
  /\ entry' \in [Runners -> 0 .. MaxStarts] /\ entry'[r] = n
  /\ \A q \in Runners : q # r => entry'[q] = entry[q] /\ started'[q] = started[q]
  /\ started' \in [Runners -> 0 .. MaxStarts] /\ started'[r] = n
  /\ client' \in [Threads -> Instances \cup {None}] /\ client'[t] = <<r, n>>
  /\ \A u \in Threads : u # t => client'[u] = client[u]
  /\ \/ pc' = [pc EXCEPT ![t] = "direct"] /\ UNCHANGED queue /\ t \in Instances /\ t[1] = r
     \/ /\ pc' = [pc EXCEPT ![t] = "recv"]
        /\ queue' = [queue EXCEPT ![<<r, n>>] = Append(@, Closure("init", t))]
  /\ UNCHANGED <<cached, shutting, stopped, services, busy, arg, swept, holds, leaked, promised>>

LEMMA InitFreshIs ==
  ASSUME Inv, NEW t \in Threads, InitFresh(t)
  PROVE  \E r \in Runners, n \in 1 .. MaxStarts : Fresh(t, r, n)
<1>1. arg[t] \in Keys
  BY DEF InitFresh, Inv, CallsInv
<1>2. PICK r \in Runners : r = arg[t][1]
  BY <1>1 DEF Keys
<1>3. /\ pc[t] = "lock" /\ lock = None /\ r \notin shutting /\ cached[arg[t]] = 0
      /\ RunnerFor(r) <= MaxStarts /\ lock' = t
      /\ entry' = [entry EXCEPT ![r] = RunnerFor(r)]
      /\ started' = [started EXCEPT ![r] = IF RunnerFor(r) > @ THEN RunnerFor(r) ELSE @]
      /\ client' = [client EXCEPT ![t] = <<r, RunnerFor(r)>>]
      /\ IF RunsFor(t, r)
         THEN pc' = [pc EXCEPT ![t] = "direct"] /\ UNCHANGED queue
         ELSE /\ pc' = [pc EXCEPT ![t] = "recv"]
              /\ queue' = [queue EXCEPT ![<<r, RunnerFor(r)>>] = Append(@, Closure("init", t))]
      /\ UNCHANGED <<cached, shutting, stopped, services, busy, arg, swept, holds, leaked, promised>>
  BY <1>2 DEF InitFresh, history
<1>4. PICK n \in 1 .. MaxStarts :
        /\ n = RunnerFor(r) /\ <<r, n>> \in Instances /\ <<r, n>> \notin stopped
        /\ \/ entry[r] = n /\ started[r] = n
           \/ entry[r] = 0 /\ started[r] = n - 1
  BY <1>3, RunnerForIs
<1>5. /\ entry \in [Runners -> 0 .. MaxStarts] /\ started \in [Runners -> 0 .. MaxStarts]
      /\ client \in [Threads -> Instances \cup {None}]
  BY Types DEF Inv
<1>6. n \in 0 .. MaxStarts /\ n \in Nat
  BY Constants
<1>7. /\ entry' \in [Runners -> 0 .. MaxStarts] /\ entry'[r] = n
      /\ \A q \in Runners : q # r => entry'[q] = entry[q]
  BY <1>3, <1>4, <1>5, <1>6
<1>8. started' = [started EXCEPT ![r] = n]
  <2>1. (IF n > started[r] THEN n ELSE started[r]) = n
    BY <1>4, <1>6
  <2> QED
    BY <1>3, <1>4, <2>1
<1>9. /\ started' \in [Runners -> 0 .. MaxStarts] /\ started'[r] = n
      /\ \A q \in Runners : q # r => started'[q] = started[q]
  BY <1>5, <1>6, <1>8
<1>10. /\ client' \in [Threads -> Instances \cup {None}] /\ client'[t] = <<r, n>>
       /\ \A u \in Threads : u # t => client'[u] = client[u]
  BY <1>3, <1>4, <1>5
<1> QED
  BY <1>1, <1>2, <1>3, <1>4, <1>7, <1>9, <1>10, ZenonT(40) DEF Fresh, RunsFor

LEMMA InitFreshOK ==
  ASSUME Inv, NEW t \in Threads, InitFresh(t)
  PROVE  Inv'
<1>1. PICK r \in Runners, n \in 1 .. MaxStarts : Fresh(t, r, n)
  BY InitFreshIs
<1> USE DEF Fresh
<1>2. /\ \A u \in Threads : pc[u] \notin Locked
      /\ \A i \in Instances : \A k \in 1 .. Len(queue[i]) : queue[i][k].kind # "init"
  BY <1>1, Unlocked
<1>3. PICK to \in {"direct", "recv"} :
        /\ pc' = [pc EXCEPT ![t] = to]
        /\ to = "direct" => UNCHANGED queue /\ t \in Instances /\ t[1] = r
        /\ to = "recv" => queue' = [queue EXCEPT ![<<r, n>>] = Append(@, Closure("init", t))]
  BY <1>1
<1>4. /\ pc' \in [Threads -> Labels] /\ pc'[t] = to
      /\ \A u \in Threads : u # t => pc'[u] = pc[u]
  <2>1. to \in Labels
    BY DEF Labels
  <2> QED
    BY <1>3, <2>1, Labelled
<1>5. LockInv'
  BY <1>1, <1>2, <1>4 DEF LockInv, Locked
<1>6. \A u \in Threads : Joining(u)' = Joining(u)
  <2> SUFFICES ASSUME NEW u \in Threads
               PROVE  Joining(u)' = Joining(u)
    OBVIOUS
  <2>1. CASE u = t
    <3>1. pc[t] \notin {"join", "clear"} /\ pc'[t] \notin {"join", "clear"}
      BY <1>1, <1>4
    <3> QED
      BY <1>1, <2>1, <3>1 DEF Joining
  <2>2. CASE u # t
    BY <1>1, <1>4, <2>2 DEF Joining
  <2> QED
    BY <2>1, <2>2
<1> DEFINE e == Closure("init", t)
           i == <<r, n>>
<1>7. e \in Closures /\ e.kind = "init" /\ e.by = t
  BY DEF Closure, Closures
<1> HIDE DEF e
<1>8. /\ queue \in [Instances -> Seq(Closures)] /\ queue[i] \in Seq(Closures) /\ i \in Instances
  BY <1>1, Types DEF Inv
<1> HIDE DEF i
<1>9. /\ Append(queue[i], e) \in Seq(Closures) /\ Len(Append(queue[i], e)) = Len(queue[i]) + 1
      /\ Len(queue[i]) \in Nat /\ Append(queue[i], e)[Len(queue[i]) + 1] = e
      /\ \A k \in 1 .. Len(queue[i]) : Append(queue[i], e)[k] = queue[i][k]
  BY <1>7, <1>8, Lengthened
<1>10. to = "recv" => queue' = [queue EXCEPT ![i] = Append(queue[i], e)]
  BY <1>3 DEF i, e
<1>11. queue' \in [Instances -> Seq(Closures)]
  <2>1. CASE to = "recv"
    BY <1>8, <1>9, <1>10, <2>1
  <2>2. CASE to = "direct"
    BY <1>3, <1>8, <2>2
  <2> QED
    BY <2>1, <2>2
<1>12. TypeOK'
  <2>1. lock' \in Threads \cup {None}
    BY <1>1
  <2> QED
    BY <1>1, <1>4, <1>5, <1>11, <2>1, LockTypes DEF Inv, TypeOK
<1>13. CacheIsRegistered'
  <2> SUFFICES ASSUME NEW key \in Keys, cached[key] # 0
               PROVE  entry'[key[1]] = cached[key]
    BY <1>1 DEF CacheIsRegistered
  <2>1. entry[key[1]] = cached[key] /\ key[1] \in Runners
    BY DEF Inv, CacheIsRegistered, Keys
  <2> QED
    BY <1>1, <2>1
<1>14. CallsInv'
  BY <1>1, <1>3, <1>4 DEF Inv, CallsInv, Locked, Shutting
<1>15. EntryInv'
  <2>1. \A q \in Runners : started[q] <= started'[q]
    <3>1. \A q \in Runners : started[q] \in Nat
      BY Types DEF Inv
    <3>2. started'[r] = n /\ (started[r] = n \/ started[r] = n - 1) /\ n \in Nat
          /\ \A q \in Runners : q # r => started'[q] = started[q]
      BY <1>1
    <3> QED
      BY <3>1, <3>2
  <2>2. \A j \in Instances : j[2] <= started[j[1]] => j[2] <= started'[j[1]]
    BY <1>1, <2>1, Constants, Types DEF Inv
  <2>3. \A j \in stopped : j[2] <= started'[j[1]]
    BY <2>2, Types DEF Inv, EntryInv
  <2>4. \A j \in Instances :
          /\ busy[j] # "none" => j[2] <= started'[j[1]] /\ j \notin stopped
          /\ services[j] # {} => j[2] <= started'[j[1]]
    BY <2>2 DEF Inv, EntryInv, Alive
  <2>5. ASSUME NEW q \in Runners, entry'[q] # 0
        PROVE  entry'[q] = started'[q] /\ <<q, entry'[q]>> \notin stopped /\ q \notin shutting
    BY <1>1, <2>5 DEF Inv, EntryInv
  <2> QED
    BY <1>1, <2>3, <2>4, <2>5 DEF EntryInv, Alive
<1>16. JoinInv'
  <2>1. \A u \in Threads : pc'[u] \in {"join", "clear"} =>
          u # t /\ pc[u] = pc'[u] /\ client'[u] = client[u] /\ swept'[u] = swept[u]
    BY <1>1, <1>4
  <2>2. UNCHANGED <<shutting, stopped, leaked>>
    BY <1>1
  <2> HIDE DEF Fresh
  <2> QED
    BY <1>6, <2>1, <2>2 DEF Inv, JoinInv
<1>17. LiveInv'
  <2> SUFFICES ASSUME NEW j \in Instances \ leaked, j[2] <= started'[j[1]], j \notin stopped
               PROVE  entry'[j[1]] = j[2] \/ \E u \in Threads : j \in Joining(u)
    BY <1>1, <1>6 DEF LiveInv, Alive
  <2>1. j[1] \in Runners /\ j[2] \in 1 .. MaxStarts
    BY Constants
  <2>2. Alive(j) => entry[j[1]] = j[2] \/ \E u \in Threads : j \in Joining(u)
    BY DEF Inv, LiveInv
  <2>3. CASE j[1] # r
    BY <1>1, <2>1, <2>2, <2>3 DEF Alive
  <2>4. CASE j[1] = r /\ j[2] = n
    BY <1>1, <2>4
  <2>5. CASE j[1] = r /\ j[2] # n
    <3>1. j[2] <= started[r]
      BY <1>1, <2>1, <2>5
    <3> QED
      BY <1>1, <2>1, <2>2, <2>5, <3>1 DEF Alive
  <2> QED
    BY <2>3, <2>4, <2>5
<1>18. InitInv'
  <2>1. \A u \in Threads : u # t => pc'[u] \notin {"direct", "recv", "reply"}
    BY <1>2, <1>4 DEF Locked
  <2>2. /\ client'[t] \in Instances /\ client'[t][1] = arg'[t][1]
        /\ entry'[client'[t][1]] = client'[t][2] /\ cached'[arg'[t]] = 0
    BY <1>1
  <2> HIDE DEF Fresh
  <2> QED
    BY <2>1, <2>2 DEF InitInv
<1>19. QueueInv'
  <2> SUFFICES ASSUME NEW j \in Instances, NEW k \in 1 .. Len(queue'[j]), queue'[j][k].kind = "init"
               PROVE  /\ queue'[j][k].by = t /\ to = "recv" /\ j = i
                      /\ \A m \in 1 .. Len(queue'[j]) : queue'[j][m].kind = "init" => m = k
    BY <1>1, <1>4, ZenonT(40) DEF QueueInv, i
  <2>1. to = "recv"
    BY <1>2, <1>3
  <2>2. j = i
    BY <1>2, <1>8, <1>10, <2>1
  <2>3. queue'[i] = Append(queue[i], e)
    BY <1>8, <1>10, <2>1
  <2>4. \A m \in 1 .. Len(queue'[i]) : queue'[i][m].kind = "init" => m = Len(queue[i]) + 1
    BY <1>2, <1>8, <1>9, <2>3
  <2> QED
    BY <1>7, <1>9, <2>1, <2>2, <2>3, <2>4
<1>20. ServicesInv'
  <2> SUFFICES ASSUME NEW j \in Instances \ leaked, NEW s \in services[j], entry'[j[1]] = j[2]
               PROVE  cached[<<j[1], s>>] = j[2]
    BY <1>1 DEF ServicesInv
  <2>1. j[2] <= started[j[1]] /\ j[1] \in Runners /\ j[2] \in 1 .. MaxStarts
    BY Constants DEF Inv, EntryInv
  <2>2. entry[j[1]] = j[2]
    BY <1>1, <2>1
  <2>3. \A u \in Threads : pc[u] # "reply"
    BY <1>2 DEF Locked
  <2> QED
    BY <2>2, <2>3 DEF Inv, ServicesInv
<1>21. PromiseInv'
  <2>1. \A u \in Threads : pc'[u] \in Shutting \cup {"wait"} => pc[u] \in Shutting \cup {"wait"}
    BY <1>4 DEF Shutting
  <2> QED
    BY <1>1, <1>6, <2>1, SameJoins
<1> QED
  BY <1>5, <1>12, <1>13, <1>14, <1>15, <1>16, <1>17, <1>18, <1>19, <1>20, <1>21 DEF Inv

\* initialize_service ran on thread i for the call of t, or failed there.
LEMMA InitializedOK ==
  ASSUME Inv, NEW t \in Threads, NEW i \in Instances, NEW to \in {"reply", "failed"},
         pc[t] \in {"direct", "recv"}, pc' = [pc EXCEPT ![t] = to],
         i[2] <= started[i[1]], i[1] = arg[t][1], entry[i[1]] = i[2] => client[t] = i,
         \/ to = "reply" /\ services' = [services EXCEPT ![i] = @ \cup {arg[t][2]}]
         \/ UNCHANGED services,
         queue' \in [Instances -> Seq(Closures)], QueueInv',
         UNCHANGED <<lock, cached, entry, shutting, started, stopped, busy, arg, client, swept,
                     holds, leaked, promised>>
  PROVE  Inv'
<1>1. /\ pc' \in [Threads -> Labels] /\ pc'[t] = to
      /\ \A u \in Threads : u # t => pc'[u] = pc[u]
  <2>1. to \in Labels
    BY DEF Labels
  <2> QED
    BY <2>1, Labelled
<1>2. arg[t] \in Keys /\ arg[t][2] \in Services /\ arg[t] = <<arg[t][1], arg[t][2]>>
  <2>1. arg[t] \in Keys
    BY DEF Inv, CallsInv, Locked
  <2> QED
    BY <2>1 DEF Keys
<1>3. /\ services' \in [Instances -> SUBSET Services]
      /\ \A j \in Instances : \A s \in services'[j] :
           s \in services[j] \/ (j = i /\ s = arg[t][2] /\ to = "reply")
  <2>1. services \in [Instances -> SUBSET Services] /\ services[i] \cup {arg[t][2]} \in SUBSET Services
    BY <1>2, Types DEF Inv
  <2>2. CASE UNCHANGED services
    BY <2>1, <2>2
  <2>3. CASE to = "reply" /\ services' = [services EXCEPT ![i] = @ \cup {arg[t][2]}]
    BY <2>1, <2>3
  <2> QED
    BY <2>2, <2>3
<1>4. LockInv'
  BY <1>1 DEF Inv, LockInv, Locked
<1>5. TypeOK'
  BY <1>1, <1>3, <1>4, LockTypes DEF Inv, TypeOK
<1>6. CallsInv'
  BY <1>1 DEF Inv, CallsInv, Locked, Shutting
<1>7. EntryInv'
  BY <1>3 DEF Inv, EntryInv, Alive
<1>8. \A u \in Threads : Joining(u)' = Joining(u)
  BY Moves, <1>1 DEF Labels
<1>9. JoinInv' /\ LiveInv'
  BY <1>1, <1>8, SameJoins
<1>10. InitInv'
  BY <1>1 DEF Inv, InitInv
<1>11. ServicesInv'
  <2> SUFFICES ASSUME NEW j \in Instances \ leaked', NEW s \in services'[j], entry'[j[1]] = j[2]
               PROVE  \/ cached'[<<j[1], s>>] = j[2]
                      \/ \E u \in Threads : pc'[u] = "reply" /\ client'[u] = j /\ arg'[u] = <<j[1], s>>
    BY DEF ServicesInv
  <2>1. j \in Instances \ leaked /\ entry[j[1]] = j[2]
    OBVIOUS
  <2>2. CASE s \in services[j]
    <3>1. CASE cached[<<j[1], s>>] = j[2]
      BY <3>1
    <3>2. CASE \E u \in Threads : pc[u] = "reply" /\ client[u] = j /\ arg[u] = <<j[1], s>>
      <4>1. PICK u \in Threads : pc[u] = "reply" /\ client[u] = j /\ arg[u] = <<j[1], s>>
        BY <3>2
      <4>2. pc'[u] = "reply" /\ client'[u] = j /\ arg'[u] = <<j[1], s>>
        BY <1>1, <4>1
      <4> QED
        BY <4>2
    <3> QED
      BY <2>1, <2>2, <3>1, <3>2 DEF Inv, ServicesInv
  <2>3. CASE j = i /\ s = arg[t][2] /\ to = "reply"
    <3>1. pc'[t] = "reply" /\ client'[t] = j /\ arg'[t] = <<j[1], s>>
      BY <1>1, <1>2, <2>1, <2>3
    <3> QED
      BY <3>1
  <2> QED
    BY <1>3, <2>2, <2>3
<1>12. PromiseInv'
  <2>1. \A u \in Threads : pc'[u] \in Shutting \cup {"wait"} => pc[u] \in Shutting \cup {"wait"}
    BY <1>1 DEF Shutting
  <2> QED
    BY <1>8, <2>1, SameJoins
<1> QED
  BY <1>4, <1>5, <1>6, <1>7, <1>9, <1>10, <1>11, <1>12, Frame DEF Inv

LEMMA InitDirectOK ==
  ASSUME Inv, NEW t \in Threads, InitDirect(t)
  PROVE  Inv'
<1>1. /\ pc[t] = "direct"
      /\ UNCHANGED <<lock, cached, entry, shutting, started, stopped, queue, busy, arg, client,
                     swept, holds, leaked, promised>>
  BY DEF InitDirect, registry, history
<1>2. PICK to \in {"reply", "failed"} :
        /\ pc' = [pc EXCEPT ![t] = to]
        /\ \/ to = "reply" /\ services' = [services EXCEPT ![t] = @ \cup {arg[t][2]}]
           \/ UNCHANGED services
  BY DEF InitDirect
<1>3. t \in Instances /\ t[1] = arg[t][1] /\ busy[t] # "none"
  BY <1>1 DEF Inv, CallsInv
<1>4. t[2] <= started[t[1]]
  BY <1>3 DEF Inv, EntryInv, Alive
<1>5. entry[t[1]] = t[2] => client[t] = t
  <2>1. client[t] \in Instances /\ client[t][1] = t[1] /\ entry[t[1]] = client[t][2]
    BY <1>1, <1>3 DEF Inv, InitInv
  <2> QED
    BY <1>3, <2>1, Constants
<1>6. QueueInv' /\ queue' \in [Instances -> Seq(Closures)]
  BY <1>1, <1>2, Moves, Types DEF Inv, Labels
<1> QED
  BY <1>1, <1>2, <1>3, <1>4, <1>5, <1>6, InitializedOK

LEMMA RunInitOK ==
  ASSUME Inv, NEW i \in Instances, RunInit(i)
  PROVE  Inv'
<1>1. /\ Alive(i) /\ queue[i] # <<>> /\ Head(queue[i]).kind = "init"
      /\ queue' = [queue EXCEPT ![i] = Tail(@)]
      /\ UNCHANGED <<lock, cached, entry, shutting, started, stopped, busy, arg, client,
                     swept, holds, leaked, promised>>
  BY DEF RunInit, registry, history
<1>2. queue \in [Instances -> Seq(Closures)] /\ queue[i] \in Seq(Closures)
  BY Types DEF Inv
<1>3. /\ Tail(queue[i]) \in Seq(Closures) /\ Len(Tail(queue[i])) = Len(queue[i]) - 1
      /\ Len(queue[i]) \in Nat \ {0} /\ Head(queue[i]) = queue[i][1]
      /\ \A k \in 1 .. Len(Tail(queue[i])) :
           Tail(queue[i])[k] = queue[i][k + 1] /\ k + 1 \in 1 .. Len(queue[i])
  BY <1>1, <1>2, Shortened
<1>4. 1 \in 1 .. Len(queue[i]) /\ queue[i][1].kind = "init"
  BY <1>1, <1>3
<1>5. PICK t \in Threads : t = Head(queue[i]).by /\ pc[t] = "recv" /\ client[t] = i
  BY <1>3, <1>4 DEF Inv, QueueInv
<1>6. PICK to \in {"reply", "failed"} :
        /\ pc' = [pc EXCEPT ![t] = to]
        /\ \/ to = "reply" /\ services' = [services EXCEPT ![i] = @ \cup {arg[t][2]}]
           \/ UNCHANGED services
  BY <1>5 DEF RunInit
<1>7. i[1] = arg[t][1] /\ i[2] <= started[i[1]]
  BY <1>1, <1>5 DEF Inv, InitInv, Alive
\* The lock is with t, so there is no other init, and this one was queued once.
<1>8. \A j \in Instances : \A k \in 1 .. Len(queue[j]) : queue[j][k].kind = "init" => j = i /\ k = 1
  <2>1. lock = t
    BY <1>5 DEF Inv, LockInv, Locked
  <2>2. \A u \in Threads : pc[u] = "recv" => u = t
    BY <2>1 DEF Inv, LockInv, Locked
  <2> QED
    BY <1>4, <1>5, <2>2 DEF Inv, QueueInv
<1>9. \A j \in Instances : \A k \in 1 .. Len(queue'[j]) : queue'[j][k].kind # "init"
  <2> SUFFICES ASSUME NEW j \in Instances, NEW k \in 1 .. Len(queue'[j])
               PROVE  queue'[j][k].kind # "init"
    OBVIOUS
  <2>1. CASE j = i
    <3>1. queue'[i] = Tail(queue[i])
      BY <1>1, <1>2
    <3>2. queue'[j][k] = queue[i][k + 1] /\ k + 1 \in 1 .. Len(queue[i]) /\ k + 1 # 1
      BY <1>3, <2>1, <3>1
    <3> QED
      BY <1>8, <3>2
  <2>2. CASE j # i
    BY <1>1, <1>2, <1>8, <2>2
  <2> QED
    BY <2>1, <2>2
<1>10. QueueInv'
  BY <1>9 DEF QueueInv
<1>11. queue' \in [Instances -> Seq(Closures)]
  BY <1>1, <1>2, <1>3
<1> QED
  BY <1>1, <1>5, <1>6, <1>7, <1>10, <1>11, InitializedOK

LEMMA InitFailedOK ==
  ASSUME Inv, NEW t \in Threads, InitFailed(t)
  PROVE  Inv'
<1>1. /\ pc[t] = "failed" /\ lock' = None /\ pc' = [pc EXCEPT ![t] = "idle"] /\ "idle" \in Labels
      /\ UNCHANGED <<cached, entry, shutting, started, stopped, services, queue, busy, arg, client,
                     swept, holds, leaked, promised>>
  BY DEF InitFailed, Return, threads, history, Labels
<1>2. /\ pc' \in [Threads -> Labels] /\ pc'[t] = "idle"
      /\ \A u \in Threads : u # t => pc'[u] = pc[u]
  BY <1>1, Labelled
<1>3. LockInv'
  BY <1>1, <1>2, Constants DEF Inv, LockInv, Locked
<1>4. TypeOK'
  BY <1>1, <1>2, <1>3, LockTypes DEF Inv, TypeOK
<1>5. CallsInv'
  BY <1>1, <1>2 DEF Inv, CallsInv, Locked, Shutting
<1>6. InitInv' /\ QueueInv' /\ ServicesInv' /\ \A u \in Threads : Joining(u)' = Joining(u)
  BY <1>1, Moves
<1>7. JoinInv' /\ LiveInv'
  BY <1>1, <1>2, <1>6, SameJoins
<1>8. PromiseInv'
  BY <1>1, <1>2, <1>6, SameJoins DEF Shutting
<1> QED
  BY <1>1, <1>3, <1>4, <1>5, <1>6, <1>7, <1>8, Frame DEF Inv

LEMMA InitDoneOK ==
  ASSUME Inv, NEW t \in Threads, InitDone(t)
  PROVE  Inv'
<1>1. /\ pc[t] = "reply" /\ lock' = None /\ pc' = [pc EXCEPT ![t] = "idle"] /\ "idle" \in Labels
      /\ cached' = [cached EXCEPT ![arg[t]] = client[t][2]]
      /\ holds' = [holds EXCEPT ![t] = @ \cup {client[t]}]
      /\ UNCHANGED <<entry, shutting, started, stopped, services, queue, busy, arg, client,
                     swept, leaked, promised>>
  BY DEF InitDone, Return, threads, history, Labels
<1>2. /\ pc' \in [Threads -> Labels] /\ pc'[t] = "idle"
      /\ \A u \in Threads : u # t => pc'[u] = pc[u]
  BY <1>1, Labelled
<1>3. LockInv' /\ \A u \in Threads : pc'[u] \notin Locked
  BY <1>1, <1>2, Constants DEF Inv, LockInv, Locked
<1>4. /\ client[t] \in Instances /\ client[t][1] = arg[t][1] /\ arg[t] \in Keys
      /\ entry[client[t][1]] = client[t][2] /\ cached[arg[t]] = 0
  BY <1>1 DEF Inv, InitInv, CallsInv, Locked
<1>5. /\ cached' \in [Keys -> 0 .. MaxStarts] /\ cached'[arg[t]] = client[t][2]
      /\ \A key \in Keys : key # arg[t] => cached'[key] = cached[key]
  <2>1. cached \in [Keys -> 0 .. MaxStarts] /\ client[t][2] \in 0 .. MaxStarts
    BY <1>4, Types, Constants DEF Inv
  <2> QED
    BY <1>1, <1>4, <2>1
<1>6. holds' \in [Threads -> SUBSET Instances]
  <2>1. holds \in [Threads -> SUBSET Instances] /\ holds[t] \cup {client[t]} \in SUBSET Instances
    BY <1>4, Types DEF Inv
  <2> QED
    BY <1>1, <2>1
<1>7. TypeOK'
  BY <1>1, <1>2, <1>3, <1>5, <1>6, LockTypes DEF Inv, TypeOK
<1>8. CacheIsRegistered'
  BY <1>1, <1>4, <1>5 DEF Inv, CacheIsRegistered
<1>9. CallsInv'
  BY <1>1, <1>2 DEF Inv, CallsInv, Locked, Shutting
<1>10. InitInv'
  BY <1>3 DEF InitInv, Locked
<1>11. QueueInv' /\ \A u \in Threads : Joining(u)' = Joining(u)
  BY <1>1, Moves
<1>12. JoinInv' /\ LiveInv'
  BY <1>1, <1>2, <1>11, SameJoins
<1>13. ServicesInv'
  <2> SUFFICES ASSUME NEW j \in Instances \ leaked, NEW s \in services[j], entry[j[1]] = j[2]
               PROVE  cached'[<<j[1], s>>] = j[2]
    BY <1>1 DEF ServicesInv
  <2>1. <<j[1], s>> \in Keys /\ j[2] # 0
    BY Types, Constants DEF Inv, Keys
  <2>2. \A u \in Threads : pc[u] = "reply" => u = t
    BY <1>1 DEF Inv, LockInv, Locked
  <2>3. CASE cached[<<j[1], s>>] = j[2]
    BY <1>4, <1>5, <2>1, <2>3
  <2>4. CASE client[t] = j /\ arg[t] = <<j[1], s>>
    BY <1>5, <2>4
  <2> QED
    BY <2>2, <2>3, <2>4 DEF Inv, ServicesInv
<1>14. PromiseInv'
  BY <1>1, <1>2, <1>11, SameJoins DEF Shutting
<1> QED
  BY <1>1, <1>3, <1>7, <1>8, <1>9, <1>10, <1>11, <1>12, <1>13, <1>14, Frame DEF Inv

-----------------------------------------------------------------------------
(* shutdown_device *)

LEMMA NextRunnerOK ==
  ASSUME Inv, NEW t \in Threads, NextRunner(t)
  PROVE  Inv'
<1>1. /\ pc[t] = "next" /\ pc' = [pc EXCEPT ![t] = "join"] /\ "join" \in Labels
      /\ UNCHANGED <<lock, cached, entry, shutting, started, stopped, services, queue, busy, arg,
                     holds, leaked, promised>>
  BY DEF NextRunner, registry, threads, history, Labels
<1>2. PICK i \in swept[t] : /\ swept' = [swept EXCEPT ![t] = @ \ {i}]
                            /\ client' = [client EXCEPT ![t] = i]
  BY DEF NextRunner
<1>3. swept \in [Threads -> SUBSET Instances] /\ client \in [Threads -> Instances \cup {None}]
      /\ i \in Instances
  BY Types DEF Inv
<1>4. /\ pc' \in [Threads -> Labels] /\ pc'[t] = "join"
      /\ \A u \in Threads : u # t => pc'[u] = pc[u]
  BY <1>1, Labelled
<1>5. /\ swept' \in [Threads -> SUBSET Instances] /\ swept'[t] = swept[t] \ {i}
      /\ client' \in [Threads -> Instances \cup {None}] /\ client'[t] = i
      /\ \A u \in Threads : u # t => swept'[u] = swept[u] /\ client'[u] = client[u]
  <2>1. swept[t] \ {i} \in SUBSET Instances
    BY <1>3
  <2> QED
    BY <1>2, <1>3, <2>1
<1>6. \A u \in Threads : Joining(u)' = Joining(u)
  <2>1. Joining(t)' = swept'[t] \cup {client'[t]} /\ Joining(t) = swept[t]
    BY <1>1, <1>4 DEF Joining
  <2>2. Joining(t)' = Joining(t)
    BY <1>5, <2>1
  <2>3. ASSUME NEW u \in Threads, u # t
        PROVE  Joining(u)' = Joining(u)
    BY <1>4, <1>5, <2>3 DEF Joining
  <2> QED
    BY <2>2, <2>3
<1>7. LockInv'
  BY <1>1, Moves DEF Locked
<1>8. TypeOK'
  BY <1>1, <1>4, <1>5, <1>7, LockTypes DEF Inv, TypeOK
<1>9. CallsInv'
  BY <1>1, <1>4, <1>5 DEF Inv, CallsInv, Locked, Shutting
<1>10. JoinInv'
  BY <1>1, <1>3, <1>4, <1>5, <1>6 DEF Inv, JoinInv
<1>11. LiveInv'
  BY <1>1, <1>6, SameJoins
<1>12. InitInv'
  BY <1>1, <1>4, <1>5 DEF Inv, InitInv
<1>13. QueueInv'
  BY <1>1, <1>4, <1>5 DEF Inv, QueueInv
<1>14. ServicesInv'
  <2>1. \A u \in Threads : pc[u] = "reply" => pc'[u] = "reply" /\ client'[u] = client[u]
    BY <1>1, <1>4, <1>5
  <2> QED
    BY <1>1, <2>1 DEF Inv, ServicesInv
<1>15. PromiseInv'
  BY <1>1, <1>4, <1>6, SameJoins DEF Shutting
<1> QED
  BY <1>1, <1>7, <1>8, <1>9, <1>10, <1>11, <1>12, <1>13, <1>14, <1>15, Frame DEF Inv

\* A join is over: the runner is gone, or given up on.
LEMMA JoinOverOK ==
  ASSUME Inv, NEW t \in Threads, Joined(t) \/ JoinTimeout(t)
  PROVE  Inv'
<1>1. /\ pc[t] = "join" /\ pc' = [pc EXCEPT ![t] = "clear"] /\ "clear" \in Labels
      /\ leaked \subseteq leaked' /\ leaked' \subseteq leaked \cup {client[t]}
      /\ client[t] \in stopped \cup leaked'
      /\ UNCHANGED <<lock, cached, entry, shutting, started, stopped, services, queue, busy, arg,
                     client, swept, holds, promised>>
  BY DEF Joined, JoinTimeout, registry, threads, history, Labels
<1>2. /\ pc' \in [Threads -> Labels] /\ pc'[t] = "clear"
      /\ \A u \in Threads : u # t => pc'[u] = pc[u]
  BY <1>1, Labelled
<1>3. client[t] \in Instances
  BY <1>1 DEF Inv, JoinInv
<1>4. \A u \in Threads : Joining(u)' = Joining(u)
  <2> SUFFICES ASSUME NEW u \in Threads
               PROVE  Joining(u)' = Joining(u)
    OBVIOUS
  <2>1. pc'[u] \in {"join", "clear"} <=> pc[u] \in {"join", "clear"}
    BY <1>1, <1>2
  <2> QED
    BY <1>1, <2>1 DEF Joining
<1>5. LockInv' /\ InitInv' /\ QueueInv'
  BY <1>1, Moves DEF Locked
<1>6. TypeOK'
  <2>1. leaked' \subseteq Instances
    BY <1>1, <1>3, Types DEF Inv
  <2> QED
    BY <1>1, <1>2, <1>5, <2>1, LockTypes DEF Inv, TypeOK
<1>7. CallsInv'
  BY <1>1, <1>2 DEF Inv, CallsInv, Locked, Shutting
<1>8. JoinInv'
  BY <1>1, <1>2, <1>3, <1>4 DEF Inv, JoinInv
<1>9. LiveInv'
  BY <1>1, <1>4 DEF Inv, LiveInv, Alive
<1>10. ServicesInv'
  BY <1>1, <1>2 DEF Inv, ServicesInv
<1>11. PromiseInv'
  BY <1>1, <1>2, <1>4 DEF Inv, PromiseInv, Shutting
<1> QED
  BY <1>1, <1>5, <1>6, <1>7, <1>8, <1>9, <1>10, <1>11, Frame DEF Inv

\* The mark goes when the one runner it stood for is gone or given up on.
LEMMA ClearMarkOK ==
  ASSUME Inv, NEW t \in Threads, ClearMark(t)
  PROVE  Inv'
<1>1. /\ pc[t] = "clear" /\ pc' = [pc EXCEPT ![t] = "next"] /\ "next" \in Labels
      /\ shutting' = shutting \ {client[t][1]}
      /\ UNCHANGED <<lock, cached, entry, started, stopped, services, queue, busy, arg,
                     client, swept, holds, leaked, promised>>
  BY DEF ClearMark, threads, history, Labels
<1>2. /\ pc' \in [Threads -> Labels] /\ pc'[t] = "next"
      /\ \A u \in Threads : u # t => pc'[u] = pc[u]
  BY <1>1, Labelled
<1>3. client[t] \in Instances /\ client[t] \notin swept[t] /\ client[t] \in stopped \cup leaked
      /\ client[t] \in Joining(t)
  BY <1>1 DEF Inv, JoinInv, Joining
<1>4. Joining(t)' = Joining(t) \ {client[t]}
  <2>1. Joining(t)' = swept[t] /\ Joining(t) = swept[t] \cup {client[t]}
    BY <1>1, <1>2 DEF Joining
  <2> QED
    BY <1>3, <2>1
<1>5. \A u \in Threads : u # t => Joining(u)' = Joining(u)
  BY <1>1, <1>2 DEF Joining
<1>6. ASSUME NEW u \in Threads, NEW j \in Joining(u), j # client[t]
      PROVE  j \in Joining(u)'
  BY <1>4, <1>5, <1>6
<1>7. LockInv' /\ InitInv' /\ QueueInv' /\ ServicesInv'
  BY <1>1, Moves DEF Locked
<1>8. TypeOK'
  BY <1>1, <1>2, <1>7, LockTypes DEF Inv, TypeOK
<1>9. CallsInv'
  BY <1>1, <1>2 DEF Inv, CallsInv, Locked, Shutting
<1>10. EntryInv'
  BY <1>1 DEF Inv, EntryInv, Alive
<1>11. JoinInv'
  <2>1. \A u \in Threads : \A j \in Joining(u)' : j \in Joining(u) /\ (u = t => j # client[t])
    BY <1>4, <1>5
  <2>2. ASSUME NEW u \in Threads, NEW j \in Joining(u)'
        PROVE  j \in Instances /\ j[1] \in shutting'
    BY <1>1, <1>3, <2>1 DEF Inv, JoinInv
  <2>3. ASSUME NEW u \in Threads, NEW v \in Threads, NEW j \in Joining(u)', NEW k \in Joining(v)',
               j[1] = k[1]
        PROVE  u = v /\ j = k
    BY <2>1, <2>3 DEF Inv, JoinInv
  <2>4. \A u \in Threads :
          /\ pc'[u] \in {"join", "clear"} => client[u] \in Instances /\ client[u] \notin swept[u]
          /\ pc'[u] = "clear" => client[u] \in stopped \cup leaked
    BY <1>1, <1>2 DEF Inv, JoinInv
  <2> QED
    BY <1>1, <2>2, <2>3, <2>4 DEF JoinInv
<1>12. LiveInv'
  BY <1>1, <1>3, <1>6 DEF Inv, LiveInv, Alive
<1>13. PromiseInv'
  BY <1>1, <1>2, <1>3, <1>6 DEF Inv, PromiseInv, Shutting
<1> QED
  BY <1>1, <1>7, <1>8, <1>9, <1>10, <1>11, <1>12, <1>13, Frame DEF Inv

LEMMA SweepOK ==
  ASSUME Inv, NEW t \in Threads, Sweep(t)
  PROVE  Inv'
<1> DEFINE d == arg[t]
<1>1. /\ pc[t] = "sweep" /\ lock = None /\ pc' = [pc EXCEPT ![t] = "next"] /\ "next" \in Labels
      /\ swept' = [swept EXCEPT ![t] = Registered(d)]
      /\ entry' = [r \in Runners |-> IF DeviceOf[r] = d THEN 0 ELSE entry[r]]
      /\ cached' = [key \in Keys |-> IF DeviceOf[key[1]] = d THEN 0 ELSE cached[key]]
      /\ shutting' = shutting \cup {i[1] : i \in Registered(d)}
      /\ promised' = [promised EXCEPT ![t] = {i \in Instances : DeviceOf[i[1]] = d /\ Alive(i)}]
      /\ UNCHANGED <<lock, started, stopped, services, queue, busy, arg, client, holds, leaked>>
  BY DEF Sweep, threads, Labels
<1>2. /\ pc' \in [Threads -> Labels] /\ pc'[t] = "next"
      /\ \A u \in Threads : u # t => pc'[u] = pc[u]
  BY <1>1, Labelled
<1>3. /\ \A i \in Registered(d) : /\ i \in Instances /\ DeviceOf[i[1]] = d /\ entry[i[1]] = i[2]
                                  /\ i[1] \in Runners /\ i[2] # 0 /\ i[1] \notin shutting
      /\ \A i \in Instances : DeviceOf[i[1]] = d /\ entry[i[1]] = i[2] => i \in Registered(d)
  BY Constants DEF Registered, Inv, EntryInv
<1> HIDE DEF d
<1>4. /\ swept' \in [Threads -> SUBSET Instances] /\ swept'[t] = Registered(d)
      /\ \A u \in Threads : u # t => swept'[u] = swept[u]
  BY <1>1, <1>3, Types DEF Inv
<1>5. /\ promised' \in [Threads -> SUBSET Instances]
      /\ promised'[t] = {i \in Instances : DeviceOf[i[1]] = d /\ Alive(i)}
      /\ \A u \in Threads : u # t => promised'[u] = promised[u]
  <2>1. promised \in [Threads -> SUBSET Instances]
        /\ {i \in Instances : DeviceOf[i[1]] = d /\ Alive(i)} \in SUBSET Instances
    BY Types DEF Inv
  <2> QED
    BY <1>1, <2>1
<1>6. /\ entry' \in [Runners -> 0 .. MaxStarts] /\ cached' \in [Keys -> 0 .. MaxStarts]
      /\ \A r \in Runners : entry'[r] # 0 => DeviceOf[r] # d /\ entry'[r] = entry[r]
      /\ \A r \in Runners : DeviceOf[r] # d => entry'[r] = entry[r]
      /\ \A key \in Keys : cached'[key] # 0 => DeviceOf[key[1]] # d /\ cached'[key] = cached[key]
      /\ \A key \in Keys : DeviceOf[key[1]] # d => cached'[key] = cached[key]
  <2>1. /\ cached \in [Keys -> 0 .. MaxStarts] /\ entry \in [Runners -> 0 .. MaxStarts]
        /\ 0 \in 0 .. MaxStarts
    BY Types, Constants DEF Inv
  <2> QED
    BY <1>1, <2>1
<1>7. \A u \in Threads : pc[u] \notin Locked /\ pc'[u] \notin Locked
  BY <1>1, <1>2, Unlocked DEF Locked
<1>8. /\ Joining(t)' = Registered(d) /\ Joining(t) = {}
      /\ \A u \in Threads : u # t => Joining(u)' = Joining(u)
  <2>1. Joining(t)' = swept'[t] /\ Joining(t) = swept[t] /\ swept[t] = {}
    BY <1>1, <1>2 DEF Joining, Inv, CallsInv, Shutting
  <2>2. \A u \in Threads : u # t => Joining(u)' = Joining(u)
    BY <1>1, <1>2, <1>4 DEF Joining
  <2> QED
    BY <1>4, <2>1, <2>2
<1>9. \A u \in Threads : \A j \in Joining(u) : j \in Joining(u)'
  BY <1>8
<1>10. LockInv' /\ QueueInv'
  BY <1>1, Moves DEF Locked
<1>11. TypeOK'
  <2>1. shutting' \subseteq Runners
    BY <1>1, <1>3, Types DEF Inv
  <2> QED
    BY <1>1, <1>2, <1>4, <1>5, <1>6, <1>10, <2>1, LockTypes DEF Inv, TypeOK
<1>12. CacheIsRegistered'
  <2> SUFFICES ASSUME NEW key \in Keys, cached'[key] # 0
               PROVE  entry'[key[1]] = cached'[key]
    BY DEF CacheIsRegistered
  <2>1. cached'[key] = cached[key] /\ key[1] \in Runners /\ DeviceOf[key[1]] # d
    BY <1>6 DEF Keys
  <2> QED
    BY <1>6, <2>1 DEF Inv, CacheIsRegistered
<1>13. CallsInv'
  BY <1>1, <1>2, <1>4 DEF Inv, CallsInv, Locked, Shutting
<1>14. EntryInv'
  <2>1. ASSUME NEW r \in Runners, entry'[r] # 0
        PROVE  entry'[r] = started[r] /\ <<r, entry'[r]>> \notin stopped /\ r \notin shutting'
    BY <1>1, <1>3, <1>6, <2>1 DEF Inv, EntryInv
  <2> QED
    BY <1>1, <2>1 DEF Inv, EntryInv, Alive
<1>15. JoinInv'
  <2>1. ASSUME NEW u \in Threads, NEW j \in Joining(u)'
        PROVE  j \in Instances /\ j[1] \in shutting' /\ (u # t => j[1] \in shutting)
    BY <1>1, <1>3, <1>8 DEF Inv, JoinInv
  <2>2. ASSUME NEW u \in Threads, NEW v \in Threads, NEW j \in Joining(u)', NEW k \in Joining(v)',
               j[1] = k[1]
        PROVE  u = v /\ j = k
    <3>1. CASE u = t /\ v = t
      BY <1>3, <1>8, <2>2, <3>1, Constants
    <3>2. CASE u = t /\ v # t
      BY <1>3, <1>8, <2>1, <2>2, <3>2
    <3>3. CASE u # t /\ v = t
      BY <1>3, <1>8, <2>1, <2>2, <3>3
    <3>4. CASE u # t /\ v # t
      BY <1>8, <2>2, <3>4 DEF Inv, JoinInv
    <3> QED
      BY <3>1, <3>2, <3>3, <3>4
  <2>3. \A u \in Threads :
          /\ pc'[u] \in {"join", "clear"} => client[u] \in Instances /\ client[u] \notin swept'[u]
          /\ pc'[u] = "clear" => client[u] \in stopped \cup leaked
    BY <1>1, <1>2, <1>4 DEF Inv, JoinInv
  <2> QED
    BY <1>1, <2>1, <2>2, <2>3 DEF JoinInv
<1>16. ASSUME NEW j \in Instances \ leaked, Alive(j)
       PROVE  (entry'[j[1]] = j[2] /\ DeviceOf[j[1]] # d) \/ \E u \in Threads : j \in Joining(u)'
  <2>1. CASE entry[j[1]] = j[2] /\ DeviceOf[j[1]] = d
    BY <1>3, <1>8, <2>1
  <2>2. CASE entry[j[1]] = j[2] /\ DeviceOf[j[1]] # d
    BY <1>6, <2>2, Constants
  <2>3. CASE \E u \in Threads : j \in Joining(u)
    BY <1>9, <2>3
  <2> QED
    BY <1>16, <2>1, <2>2, <2>3 DEF Inv, LiveInv
<1>17. LiveInv'
  BY <1>1, <1>16 DEF LiveInv, Alive
<1>18. InitInv'
  BY <1>7 DEF InitInv, Locked
<1>19. ServicesInv'
  <2> SUFFICES ASSUME NEW j \in Instances \ leaked, NEW s \in services[j], entry'[j[1]] = j[2]
               PROVE  cached'[<<j[1], s>>] = j[2]
    BY <1>1 DEF ServicesInv
  <2>1. <<j[1], s>> \in Keys /\ j[1] \in Runners /\ j[2] # 0
    BY Types, Constants DEF Inv, Keys
  <2>2. entry[j[1]] = j[2] /\ DeviceOf[j[1]] # d
    BY <1>6, <2>1
  <2>3. cached[<<j[1], s>>] = j[2]
    BY <1>7, <2>2 DEF Inv, ServicesInv, Locked
  <2> QED
    BY <1>6, <2>1, <2>2, <2>3
<1>20. PromiseInv'
  <2>1. ASSUME NEW i \in promised'[t]
        PROVE  /\ DeviceOf[i[1]] = arg[t]
               /\ i \in stopped \cup leaked \/ \E u \in Threads : i \in Joining(u)'
    <3>1. i \in Instances /\ DeviceOf[i[1]] = d /\ Alive(i)
      BY <1>5
    <3> QED
      BY <1>16, <3>1 DEF d
  <2>2. ASSUME NEW u \in Threads, u # t, pc'[u] \in Shutting \cup {"wait"}, NEW i \in promised'[u]
        PROVE  /\ DeviceOf[i[1]] = arg[u]
               /\ i \in stopped \cup leaked \/ \E v \in Threads : i \in Joining(v)'
    BY <1>2, <1>5, <1>9, <2>2 DEF Inv, PromiseInv
  <2> QED
    BY <1>1, <2>1, <2>2 DEF PromiseInv
<1> QED
  BY <1>10, <1>11, <1>12, <1>13, <1>14, <1>15, <1>17, <1>18, <1>19, <1>20 DEF Inv

-----------------------------------------------------------------------------

LEMMA InitStepOK ==
  ASSUME Inv, NEW t \in Threads, InitStep(t)
  PROVE  Inv'
  BY InitRefusedOK, InitCachedOK, InitFreshOK, InitDirectOK, InitDoneOK, InitFailedOK DEF InitStep

LEMMA ShutdownStepOK ==
  ASSUME Inv, NEW t \in Threads, ShutdownStep(t)
  PROVE  Inv'
  BY SweepOK, NextRunnerOK, JoinOverOK, ClearMarkOK, NextDoneOK, WaitOverOK DEF ShutdownStep

LEMMA RunnerStepOK ==
  ASSUME Inv, NEW i \in Instances, RunnerStep(i)
  PROVE  Inv'
  BY RunInitOK, RunTaskOK, TaskDoneOK, RunnerExitOK DEF RunnerStep

LEMMA CallsOK ==
  ASSUME Inv, NEW t \in Threads,
         (\E key \in Keys : InitCall(t, key)) \/ (\E d \in Devices : ShutdownCall(t, d))
  PROVE  Inv'
<1>1. ASSUME NEW key \in Keys, InitCall(t, key)
      PROVE  Inv'
  <2>1. /\ MayCall(t) /\ pc' = [pc EXCEPT ![t] = "lock"] /\ arg' = [arg EXCEPT ![t] = key]
        /\ UNCHANGED <<lock, cached, entry, shutting, started, stopped, services, queue, busy,
                       client, swept, holds, leaked, promised>>
    BY <1>1 DEF InitCall, registry, threads, history
  <2> QED
    BY <2>1, CallOK
<1>2. ASSUME NEW d \in Devices, ShutdownCall(t, d)
      PROVE  Inv'
  <2>1. /\ MayCall(t) /\ pc' = [pc EXCEPT ![t] = "sweep"] /\ arg' = [arg EXCEPT ![t] = d]
        /\ UNCHANGED <<lock, cached, entry, shutting, started, stopped, services, queue, busy,
                       client, swept, holds, leaked, promised>>
    BY <1>2 DEF ShutdownCall, registry, threads, history
  <2> QED
    BY <2>1, CallOK
<1> QED
  BY <1>1, <1>2

LEMMA NextOK ==
  ASSUME Inv, [Next]_vars
  PROVE  Inv'
<1>1. CASE Next
  BY <1>1, InitStepOK, ShutdownStepOK, RunnerStepOK, CallsOK, DropHandleOK, SubmitOK DEF Next
<1>2. CASE UNCHANGED vars
  <2>1. UNCHANGED <<lock, cached, entry, shutting, started, stopped, services, queue, busy, pc, arg,
                    client, swept, holds, leaked, promised>>
    BY <1>2 DEF vars, registry, threads, frames, history
  <2>2. TypeOK'
    BY <2>1 DEF Inv, TypeOK
  <2> QED
    BY <2>1, <2>2, Frame DEF Inv
<1> QED
  BY <1>1, <1>2

\* Two live threads of an id that nobody gave up on are the same: with an entry
\* the id is not marked, so both are the registered one, and without one both
\* are the runner that the mark stands for.
LEMMA OneRunner == Inv => OneRunnerPerId
<1> SUFFICES ASSUME Inv, NEW i \in Instances \ leaked, NEW j \in Instances \ leaked,
                    Alive(i), Alive(j), i[1] = j[1]
             PROVE  i = j
  BY DEF OneRunnerPerId
<1>1. i = <<i[1], i[2]>> /\ j = <<j[1], j[2]>> /\ i[2] # 0 /\ j[2] # 0 /\ i[1] \in Runners
  BY Constants
<1>2. /\ entry[i[1]] = i[2] \/ \E t \in Threads : i \in Joining(t)
      /\ entry[j[1]] = j[2] \/ \E t \in Threads : j \in Joining(t)
  BY DEF Inv, LiveInv
<1>3. CASE entry[i[1]] # 0
  <2>1. \A t \in Threads : i \notin Joining(t) /\ j \notin Joining(t)
    BY <1>1, <1>3 DEF Inv, EntryInv, JoinInv
  <2> QED
    BY <1>1, <1>2, <2>1
<1>4. CASE entry[i[1]] = 0
  BY <1>1, <1>2, <1>4 DEF Inv, JoinInv
<1> QED
  BY <1>3, <1>4

\* The init in the queue has the lock, so no other is about to cache, and its
\* key is not cached: the service is not there yet.
LEMMA InitsOnce == Inv => InitOnce
<1> SUFFICES ASSUME Inv, NEW i \in Instances \ leaked, NEW k \in DOMAIN queue[i],
                    queue[i][k].kind = "init", arg[queue[i][k].by][2] \in services[i]
             PROVE  FALSE
  BY DEF InitOnce
<1>1. k \in 1 .. Len(queue[i])
  <2>1. queue[i] \in Seq(Closures)
    BY Types DEF Inv
  <2> QED
    BY <2>1
<1>2. PICK t \in Threads : t = queue[i][k].by /\ pc[t] = "recv" /\ client[t] = i
  BY <1>1 DEF Inv, QueueInv
<1>3. i[1] = arg[t][1] /\ entry[i[1]] = i[2] /\ cached[arg[t]] = 0
  BY <1>2 DEF Inv, InitInv
<1>4. arg[t] = <<i[1], arg[t][2]>>
  BY <1>2, <1>3 DEF Inv, CallsInv, Locked, Keys
<1>5. i[2] # 0
  BY Constants
<1>6. \A u \in Threads : pc[u] # "reply"
  <2>1. lock = t
    BY <1>2 DEF Inv, LockInv, Locked
  <2> QED
    BY <1>2, <2>1 DEF Inv, LockInv, Locked
<1>7. cached[<<i[1], arg[t][2]>>] = i[2]
      \/ \E u \in Threads : pc[u] = "reply"
  BY <1>2, <1>3 DEF Inv, ServicesInv
<1> QED
  BY <1>3, <1>4, <1>5, <1>6, <1>7

LEMMA RegistryInductive == Spec => []Inv
<1>1. Inv /\ [Next]_vars => Inv'
  BY NextOK
<1> QED
  BY <1>1, InitOK, PTL DEF Spec

\* However init and shutdown_device interleave, from program threads and from
\* tasks on the runners, CHANNELS and the shutting_down marks keep one live
\* runner per id, cached clients of registered runners only, and one S::init
\* per service of a runner.
THEOREM RegistryIsConsistent == Spec => []RegistryInv
<1>1. Inv => RegistryInv
  BY OneRunner, InitsOnce DEF Inv, RegistryInv
<1> QED
  BY <1>1, RegistryInductive, PTL

-----------------------------------------------------------------------------

\* A thread leaves the wait of a shutdown only when the wait is over.
LEMMA WaitsEnd ==
  ASSUME Inv, [Next]_vars, NEW t \in Threads, pc[t] = "wait", pc'[t] = "idle"
  PROVE  Waited(t) \/ WaitTimeout(t)
<1>1. ASSUME NEW u \in Threads, NEW to, pc[u] # "wait", pc' = [pc EXCEPT ![u] = to]
      PROVE  FALSE
  BY <1>1, Types DEF Inv
<1>2. ASSUME UNCHANGED pc
      PROVE  FALSE
  BY <1>2
<1>3. ASSUME NEW u \in Threads, InitStep(u)
      PROVE  FALSE
  <2>1. \E to : pc[u] # "wait" /\ pc' = [pc EXCEPT ![u] = to]
    BY <1>3 DEF InitStep, InitRefused, InitCached, InitFresh, InitDirect, InitDone, InitFailed, Return
  <2> QED
    BY <1>1, <2>1
<1>4. ASSUME NEW u \in Threads, ShutdownStep(u)
      PROVE  u = t /\ (Waited(u) \/ WaitTimeout(u))
  <2>1. CASE Waited(u) \/ WaitTimeout(u)
    <3>1. pc' = [pc EXCEPT ![u] = "idle"]
      BY <2>1 DEF Waited, WaitTimeout, Return
    <3>2. u = t
      BY <3>1, Types DEF Inv
    <3> QED
      BY <2>1, <3>2
  <2>2. CASE Sweep(u) \/ NextRunner(u) \/ Joined(u) \/ JoinTimeout(u) \/ ClearMark(u) \/ NextDone(u)
    <3>1. \E to : pc[u] # "wait" /\ pc' = [pc EXCEPT ![u] = to]
      BY <2>2 DEF Sweep, NextRunner, Joined, JoinTimeout, ClearMark, NextDone
    <3> QED
      BY <1>1, <3>1
  <2> QED
    BY <1>4, <2>1, <2>2 DEF ShutdownStep
<1>5. ASSUME NEW u \in Threads,
             (\E key \in Keys : InitCall(u, key)) \/ (\E d \in Devices : ShutdownCall(u, d))
      PROVE  FALSE
  <2>1. \E to : pc[u] # "wait" /\ pc' = [pc EXCEPT ![u] = to]
    BY <1>5 DEF InitCall, ShutdownCall, MayCall
  <2> QED
    BY <1>1, <2>1
<1>6. ASSUME NEW i \in Instances, RunnerStep(i)
      PROVE  FALSE
  <2>1. CASE RunTask(i) \/ TaskDone(i) \/ RunnerExit(i)
    BY <1>2, <2>1 DEF RunTask, TaskDone, RunnerExit, frames
  <2>2. CASE RunInit(i)
    <3>1. queue[i] \in Seq(Closures) /\ queue[i] # <<>>
      BY <2>2, Types DEF RunInit, Inv
    <3>2. 1 \in 1 .. Len(queue[i]) /\ Head(queue[i]) = queue[i][1] /\ queue[i][1].kind = "init"
      BY <2>2, <3>1, Shortened DEF RunInit
    <3>3. PICK u \in Threads : u = Head(queue[i]).by /\ pc[u] = "recv"
      BY <3>2 DEF Inv, QueueInv
    <3>4. \E to : pc' = [pc EXCEPT ![u] = to]
      BY <2>2, <3>3 DEF RunInit
    <3> QED
      BY <1>1, <3>3, <3>4
  <2> QED
    BY <1>6, <2>1, <2>2 DEF RunnerStep
<1>7. ASSUME NEW u \in Threads, NEW i \in Instances,
             DropHandle(u, i) \/ \E kind \in {"act", "exclusive"} : Submit(u, i, kind)
      PROVE  FALSE
  BY <1>2, <1>7 DEF DropHandle, Submit, frames
<1>8. CASE UNCHANGED vars
  BY <1>2, <1>8 DEF vars, frames
<1>9. CASE Next
  BY <1>3, <1>4, <1>5, <1>6, <1>7, <1>9 DEF Next
<1> QED
  BY <1>8, <1>9

LEMMA OutlastsStep ==
  ASSUME Inv, [Next]_vars
  PROVE  \A t \in Threads :
           pc[t] = "wait" /\ pc'[t] = "idle" => promised'[t] \subseteq stopped \cup leaked
<1> SUFFICES ASSUME NEW t \in Threads, pc[t] = "wait", pc'[t] = "idle"
             PROVE  promised'[t] \subseteq stopped \cup leaked
  OBVIOUS
<1>1. CASE Waited(t)
  <2>1. ~StillShutting(arg[t]) /\ UNCHANGED promised
    BY <1>1 DEF Waited, history
  <2> SUFFICES ASSUME NEW i \in promised[t], i \notin stopped \cup leaked
               PROVE  FALSE
    BY <2>1
  <2>2. PICK u \in Threads : i \in Joining(u)
    BY DEF Inv, PromiseInv
  <2>3. i[1] \in shutting /\ DeviceOf[i[1]] = arg[t]
    BY <2>2 DEF Inv, JoinInv, PromiseInv
  <2> QED
    BY <2>1, <2>3 DEF StillShutting
<1>2. CASE WaitTimeout(t)
  <2>1. promised' = [promised EXCEPT ![t] = {}] /\ promised \in [Threads -> SUBSET Instances]
    BY <1>2, Types DEF WaitTimeout, Inv
  <2> QED
    BY <2>1
<1> QED
  BY <1>1, <1>2, WaitsEnd

\* A shutdown_device that returns before its own timeout has outlasted every
\* runner the device had when it swept the registry: its own joins and the
\* marks of the other calls account for all of them.
THEOREM ShutdownOutlastsRunners == Spec => ShutdownOutlasts
<1> DEFINE Outlasts == \A t \in Threads :
             pc[t] = "wait" /\ pc'[t] = "idle" => promised'[t] \subseteq stopped \cup leaked
<1>1. Inv /\ [Next]_vars => [Outlasts]_vars
  BY OutlastsStep
<1> QED
  BY <1>1, RegistryInductive, PTL DEF Spec, ShutdownOutlasts
=============================================================================
