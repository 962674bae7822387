------------------------ MODULE V4l2Worker_proofs -------------------------
(***************************************************************************)
(* Theorems about V4l2Worker, for any callers, depth of the ring and       *)
(* number of starts: one capture thread at a time, owner of the hub's      *)
(* stream, and a ring that loses no buffer.                                *)
(***************************************************************************)
EXTENDS V4l2Worker, TLAPS

-----------------------------------------------------------------------------
(* The inductive invariant.                                                 *)

\* What the arguments ask of the constants.
Parameters ==
    /\ MaxDepth \in Nat /\ MaxDepth >= 2
    /\ MaxStarts \in Nat
    /\ NoOne \notin Callers

\* The records of TypeOK: Inner.state and a thread.
StateSet ==
    [holder : Callers \cup {NoOne}, handle : 0..MaxStarts, wake : 0..MaxStarts,
     configured : BOOLEAN, depth : 2..MaxDepth]

ThreadSet ==
    [at : {"unborn", "setup", "poll", "consume", "publish", "drop", "done"},
     session : Nat, depth : 0..MaxDepth, buffer : 0..MaxDepth,
     reply : {"none", "ok", "error"}, woken : BOOLEAN]

\* One caller at a time is between the lock of the mutex and its release.
OneCaller ==
    \A c \in Callers : caller[c] # "idle" => state.holder = c

\* Only the thread of the handle runs, it runs for the hub's stream, and no
\* handle is held where the next thread is spawned.
OneWorker ==
    /\ \A n \in Running : n = state.handle /\ worker[n].session = hub.session
    /\ \A c \in Callers : caller[c] = "spawn" => state.handle = 0

\* A live stream has its thread and, once start has returned, its configuration.
LiveHasWorker ==
    hub.active =>
        /\ state.handle \in Running
        /\ state.holder = NoOne => state.configured

\* Where the buffers of each worker's stream are.
RingOf(n) ==
    /\ worker[n].at = "setup" => worker[n].buffer = 0
    /\ worker[n].at \in {"poll", "publish"} =>
        worker[n].buffer = 0 /\ queued[n] = 1..worker[n].depth
    /\ worker[n].at = "consume" =>
        /\ worker[n].buffer \in 1..worker[n].depth
        /\ queued[n] = (1..worker[n].depth) \ {worker[n].buffer}

Ring == \A n \in Workers : RingOf(n)

WorkerInv == TypeOK /\ OneCaller /\ OneWorker /\ LiveHasWorker /\ Ring

-----------------------------------------------------------------------------
(* Lemmas.                                                                  *)

\* FrameHub::start and stop give a hub; stop keeps the epoch.
LEMMA HubSteps ==
  ASSUME NEW h \in Hub
  PROVE  /\ HubStart(h) \in Hub
         /\ HubStop(h) \in Hub /\ HubStop(h).session = h.session /\ HubStop(h).active = FALSE
<1>1. h.session \in Nat
  BY DEF Hub
<1>2. HubStart(h) \in Hub
  BY <1>1 DEF Hub, HubStart
<1>3. HubStop(h) \in Hub /\ HubStop(h).session = h.session /\ HubStop(h).active = FALSE
  BY DEF Hub, HubStop
<1>4. QED
  BY <1>2, <1>3

\* A field that counts may be zero.
LEMMA Zero == Parameters => 0 \in 0..MaxDepth /\ 0 \in 0..MaxStarts
BY DEF Parameters

\* TypeOK in the records' names.
LEMMA Typed ==
  TypeOK <=> /\ hub \in Hub
             /\ caller \in [Callers -> {"idle", "joinToStart", "spawn", "reply", "joinToFail", "joinToStop"}]
             /\ state \in StateSet
             /\ worker \in [Workers -> ThreadSet]
             /\ queued \in [Workers -> SUBSET Buffers]
BY DEF TypeOK, StateSet, ThreadSet

\* The wake byte changes nothing else of a worker.
LEMMA Wake ==
  ASSUME TypeOK, NEW c, StopLocked(c)
  PROVE  /\ worker' \in [Workers -> ThreadSet]
         /\ \A n \in Workers :
              /\ worker'[n].at = worker[n].at /\ worker'[n].session = worker[n].session
              /\ worker'[n].depth = worker[n].depth /\ worker'[n].buffer = worker[n].buffer
<1>1. worker \in [Workers -> ThreadSet] /\ state.wake \in 0..MaxStarts
  BY Typed DEF StateSet
<1>2. CASE state.wake = 0
  BY <1>1, <1>2 DEF StopLocked
<1>3. CASE state.wake # 0
  <2>1. state.wake \in Workers
    BY <1>1, <1>3 DEF Workers
  <2>2. worker' = [worker EXCEPT ![state.wake] = [worker[state.wake] EXCEPT !.woken = TRUE]]
    BY <1>3 DEF StopLocked
  <2>3. worker[state.wake] \in ThreadSet
    BY <1>1, <2>1
  <2>4. [worker[state.wake] EXCEPT !.woken = TRUE] \in ThreadSet
    BY <2>3 DEF ThreadSet
  <2>5. QED
    BY <1>1, <2>1, <2>2, <2>3, <2>4 DEF ThreadSet
<1>4. QED
  BY <1>2, <1>3

\* A camera that is opened has neither caller nor worker.
LEMMA WorkerInvInit == Parameters /\ Init => WorkerInv
<1> SUFFICES ASSUME Parameters, Init
             PROVE  WorkerInv
  OBVIOUS
<1> USE DEF Parameters, Init
<1>1. TypeOK
  <2>1. hub \in Hub
    BY DEF HubIdle, Hub
  <2>2. Unborn \in [at : {"unborn", "setup", "poll", "consume", "publish", "drop", "done"},
                    session : Nat, depth : 0..MaxDepth, buffer : 0..MaxDepth,
                    reply : {"none", "ok", "error"}, woken : BOOLEAN]
    BY DEF Unborn
  <2>3. state \in [holder : Callers \cup {NoOne}, handle : 0..MaxStarts, wake : 0..MaxStarts,
                   configured : BOOLEAN, depth : 2..MaxDepth]
    OBVIOUS
  <2>4. QED
    BY <2>1, <2>2, <2>3 DEF TypeOK, Workers
<1>2. \A n \in Workers : worker[n].at = "unborn"
  BY DEF Unborn
<1>3. Running = {}
  BY <1>2 DEF Running, Spawned
<1>4. OneCaller /\ OneWorker
  BY <1>3 DEF OneCaller, OneWorker
<1>5. LiveHasWorker
  BY DEF LiveHasWorker, HubIdle
<1>6. Ring
  BY <1>2 DEF Ring, RingOf
<1>7. QED
  BY <1>1, <1>4, <1>5, <1>6 DEF WorkerInv

\* start_stream, stop_stream and a failed start stop the hub under the mutex;
\* each goes on to the join.
LEMMA StopLockedStep ==
  ASSUME Parameters, WorkerInv, NEW c \in Callers, NEW at \in {"joinToStart", "joinToFail", "joinToStop"},
         state.holder \in {NoOne, c}, StopLocked(c), Goto(c, at), UNCHANGED queued
  PROVE  WorkerInv'
<1> USE DEF WorkerInv, Parameters
<1>1. hub' \in Hub /\ hub'.session = hub.session /\ ~hub'.active
  BY HubSteps DEF StopLocked, TypeOK
<1>2. \A n \in Workers : /\ worker'[n].at = worker[n].at /\ worker'[n].session = worker[n].session
                         /\ worker'[n].depth = worker[n].depth /\ worker'[n].buffer = worker[n].buffer
  BY Wake
<1>3. state' = [state EXCEPT !.holder = c, !.wake = 0, !.configured = FALSE]
  BY DEF StopLocked
<1>4. TypeOK'
  <2>1. state' \in StateSet
    BY <1>3, Typed, Zero DEF StateSet
  <2>2. caller' \in [Callers -> {"idle", "joinToStart", "spawn", "reply", "joinToFail", "joinToStop"}]
    BY Typed DEF Goto
  <2>3. worker' \in [Workers -> ThreadSet]
    BY Wake
  <2>4. queued' \in [Workers -> SUBSET Buffers]
    BY Typed
  <2>5. QED
    BY <1>1, <2>1, <2>2, <2>3, <2>4 DEF TypeOK, StateSet, ThreadSet
<1>5. OneCaller'
  BY <1>3 DEF OneCaller, TypeOK, Goto
<1>6. OneWorker'
  BY <1>1, <1>2, <1>3 DEF OneWorker, TypeOK, Goto, Running, Spawned
<1>7. LiveHasWorker'
  BY <1>1 DEF LiveHasWorker
<1>8. Ring'
  BY <1>2 DEF Ring, RingOf
<1>9. QED
  BY <1>4, <1>5, <1>6, <1>7, <1>8

\* The join, the spawn of a thread, and the answer a start waits for.
LEMMA CallerKeeps ==
  ASSUME Parameters, WorkerInv, NEW c \in Callers, CallerStep(c)
  PROVE  WorkerInv'
<1> USE DEF WorkerInv, Parameters
<1>1. CASE JoinToStart(c)
  <2> USE <1>1 DEF JoinToStart
  <2>1. Running = {} /\ state.handle \notin Running
    BY DEF Joined, OneWorker
  <2>2. Running' = {}
    BY <2>1 DEF Running, Spawned
  <2>3. TypeOK'
    <3>1. state' \in StateSet
      BY Typed DEF StateSet
    <3>2. caller' \in [Callers -> {"idle", "joinToStart", "spawn", "reply", "joinToFail", "joinToStop"}]
      BY Typed DEF Goto
    <3>3. QED
      BY <3>1, <3>2, Typed DEF TypeOK, StateSet, ThreadSet
  <2>4. OneCaller'
    BY DEF OneCaller, TypeOK, Goto
  <2>5. OneWorker'
    BY <2>2 DEF OneWorker, TypeOK
  <2>6. LiveHasWorker' /\ Ring'
    BY <2>1 DEF LiveHasWorker, Ring, RingOf
  <2>7. QED
    BY <2>3, <2>4, <2>5, <2>6
<1>2. CASE JoinAndReturn(c)
  <2> USE <1>2 DEF JoinAndReturn, Return, Unlock
  <2>1. Running = {} /\ state.handle \notin Running
    BY DEF Joined, OneWorker
  <2>2. Running' = {}
    BY <2>1 DEF Running, Spawned
  <2>3. TypeOK'
    BY Typed, Zero DEF TypeOK, StateSet, ThreadSet, Goto
  <2>4. OneCaller'
    BY DEF OneCaller, TypeOK, Goto
  <2>5. OneWorker'
    BY <2>2 DEF OneWorker, TypeOK
  <2>6. LiveHasWorker' /\ Ring'
    BY <2>1 DEF LiveHasWorker, Ring, RingOf
  <2>7. QED
    BY <2>3, <2>4, <2>5, <2>6
<1>3. CASE Spawn(c)
  <2> USE <1>3 DEF Spawn
  <2>1. Running = {}
    BY DEF OneWorker, Running, Spawned, Workers
  <2>2. PICK n \in Workers :
          /\ worker[n].at = "unborn"
          /\ hub' = HubStart(hub)
          /\ worker' = [worker EXCEPT ![n] = [Unborn EXCEPT !.at = "setup", !.session = hub'.session,
                                                            !.depth = state.depth]]
          /\ state' = [state EXCEPT !.handle = n, !.wake = n]
    OBVIOUS
  <2>3. hub' \in Hub /\ hub'.session \in Nat
    BY <2>2, HubSteps DEF TypeOK, Hub
  <2>4. worker'[n] = [at |-> "setup", session |-> hub'.session, depth |-> state.depth,
                      buffer |-> 0, reply |-> "none", woken |-> FALSE]
    BY <2>2 DEF Unborn, TypeOK
  <2>5. \A m \in Workers : m # n => worker'[m] = worker[m]
    BY <2>2 DEF TypeOK
  <2>6. Running' = {n}
    BY <2>1, <2>4, <2>5 DEF Running, Spawned
  <2>7. TypeOK'
    <3>1. n \in 0..MaxStarts /\ state.depth \in 0..MaxDepth /\ 0 \in 0..MaxDepth
      BY Typed, Zero DEF StateSet, Workers
    <3> HIDE <1>3 DEF Spawn
    <3>2. worker'[n] \in ThreadSet
      BY <2>3, <2>4, <3>1 DEF ThreadSet
    <3>3. state' \in StateSet
      BY <2>2, <3>1, Typed DEF StateSet
    <3> USE <1>3 DEF Spawn
    <3>4. worker' \in [Workers -> ThreadSet]
      BY <2>2, <2>5, <3>2, Typed
    <3>5. caller' \in [Callers -> {"idle", "joinToStart", "spawn", "reply", "joinToFail", "joinToStop"}]
      BY Typed DEF Goto
    <3>6. QED
      BY <2>3, <3>3, <3>4, <3>5, Typed DEF TypeOK, StateSet, ThreadSet
  <2>8. OneCaller'
    BY <2>2 DEF OneCaller, TypeOK, Goto
  <2>9. OneWorker'
    <3>1. \A d \in Callers : caller'[d] # "spawn"
      BY DEF OneCaller, TypeOK, Goto
    <3>2. state'.handle = n
      BY <2>2 DEF TypeOK
    <3>3. QED
      BY <2>4, <2>6, <3>1, <3>2 DEF OneWorker
  <2>10. LiveHasWorker'
    <3>1. state'.handle = n /\ state'.holder = c
      BY <2>2 DEF TypeOK, OneCaller
    <3>2. QED
      BY <2>6, <3>1 DEF LiveHasWorker
  <2>11. Ring'
    <3> HIDE <1>3 DEF Spawn
    <3>1. worker'[n].at = "setup" /\ worker'[n].buffer = 0
      BY <2>4
    <3>2. RingOf(n)'
      BY <3>1 DEF RingOf
    <3> USE <1>3 DEF Spawn
    <3>3. \A m \in Workers : m # n => RingOf(m)'
      BY <2>5 DEF Ring, RingOf
    <3>4. QED
      BY <3>2, <3>3 DEF Ring
  <2>12. QED
    BY <2>7, <2>8, <2>9, <2>10, <2>11
<1>4. CASE SpawnFails(c)
  <2> USE <1>4 DEF SpawnFails, Return, Unlock
  <2>1. Running = {}
    BY DEF OneWorker, Running, Spawned, Workers
  <2>2. Running' = {}
    BY <2>1 DEF Running, Spawned
  <2>3. ~hub.active
    BY <2>1 DEF LiveHasWorker
  <2>4. hub' \in Hub /\ ~hub'.active
    <3>1. hub \in Hub /\ HubStart(hub) \in Hub
      BY HubSteps DEF TypeOK
    <3>2. HubStop(HubStart(hub)) \in Hub /\ ~HubStop(HubStart(hub)).active
      BY <3>1, HubSteps
    <3>3. QED
      BY <2>3, <3>1, <3>2
  <2>5. TypeOK'
    BY <2>4 DEF TypeOK, Goto
  <2>6. OneCaller'
    BY DEF OneCaller, TypeOK, Goto
  <2>7. OneWorker'
    <3>1. \A d \in Callers : caller'[d] # "spawn"
      BY DEF OneCaller, TypeOK, Goto
    <3>2. QED
      BY <2>2, <3>1 DEF OneWorker
  <2>8. LiveHasWorker' /\ Ring'
    BY <2>4 DEF LiveHasWorker, Ring, RingOf
  <2>9. QED
    BY <2>5, <2>6, <2>7, <2>8
<1>5. CASE ReplyOk(c)
  <2> USE <1>5 DEF ReplyOk, Return, Unlock
  <2>1. TypeOK'
    BY DEF TypeOK, Goto
  <2>2. OneCaller'
    BY DEF OneCaller, TypeOK, Goto
  <2>3. OneWorker'
    BY DEF OneWorker, TypeOK, Goto, Running, Spawned
  <2>4. LiveHasWorker' /\ Ring'
    BY DEF LiveHasWorker, TypeOK, Ring, RingOf, Running, Spawned
  <2>5. QED
    BY <2>1, <2>2, <2>3, <2>4
<1>6. CASE ReplyError(c)
  <2>1. state.holder = c
    BY <1>6 DEF ReplyError, OneCaller
  <2>2. QED
    BY <1>6, <2>1, StopLockedStep DEF ReplyError
<1>7. QED
  BY <1>1, <1>2, <1>3, <1>4, <1>5, <1>6 DEF CallerStep

\* The other workers are as they were.
Others(n) ==
    \A m \in Workers : m # n => worker'[m] = worker[m] /\ queued'[m] = queued[m]

\* A step of a running worker on its own record and ring keeps the invariant.
LEMMA WorkerOnly ==
  ASSUME WorkerInv, NEW n \in Workers, n \in Running,
         UNCHANGED <<hub, caller, state>>,
         worker' \in [Workers -> ThreadSet], queued' \in [Workers -> SUBSET Buffers],
         worker'[n].at \in {"poll", "consume", "publish", "drop"},
         worker'[n].session = worker[n].session,
         RingOf(n)', Others(n)
  PROVE  WorkerInv'
<1> USE DEF WorkerInv, Others
<1>1. TypeOK'
  BY Typed DEF TypeOK, ThreadSet
<1>2. Running' = Running
  BY DEF Running, Spawned
<1>3. \A m \in Running : worker'[m].session = worker[m].session
  BY DEF Running, Spawned
<1>4. OneCaller' /\ LiveHasWorker'
  BY <1>2 DEF OneCaller, LiveHasWorker
<1>5. OneWorker'
  BY <1>2, <1>3 DEF OneWorker
<1>6. \A m \in Workers : m # n => RingOf(m)'
  BY DEF Ring, RingOf
<1>7. Ring'
  BY <1>6 DEF Ring
<1>8. QED
  BY <1>1, <1>4, <1>5, <1>7

\* Set-up, the capture loop, its end, and the guard StopHub of a worker.
LEMMA WorkerKeeps ==
  ASSUME Parameters, WorkerInv, NEW n \in Workers, WorkerStep(n)
  PROVE  WorkerInv'
<1> USE DEF Parameters
<1>1. /\ RingOf(n) /\ WorkerInv /\ hub \in Hub
      /\ worker \in [Workers -> ThreadSet] /\ worker[n] \in ThreadSet
      /\ queued \in [Workers -> SUBSET Buffers]
  BY Typed DEF WorkerInv, Ring
<1>2. worker[n].at \in {"setup", "poll", "consume", "publish"} => n \in Running
  BY DEF Running, Spawned
<1>3. CASE SetupOk(n)
  <2> USE <1>3 DEF SetupOk
  <2>1. DEFINE r == [worker[n] EXCEPT !.at = "poll", !.reply = "ok"]
  <2>2. worker' = [worker EXCEPT ![n] = r]
    OBVIOUS
  <2>3. r \in ThreadSet /\ r.at = "poll" /\ r.session = worker[n].session
        /\ r.depth = worker[n].depth /\ r.buffer = worker[n].buffer
    BY <1>1 DEF ThreadSet
  <2>4. queued' = [queued EXCEPT ![n] = 1..worker[n].depth] /\ 1..worker[n].depth \subseteq Buffers
    BY <1>1 DEF ThreadSet, Buffers
  <2> HIDE DEF r
  <2>5. worker' \in [Workers -> ThreadSet] /\ worker'[n] = r /\ Others(n)
    BY <1>1, <2>2, <2>3, <2>4 DEF Others
  <2>6. queued' \in [Workers -> SUBSET Buffers] /\ queued'[n] = 1..worker[n].depth
    BY <1>1, <2>4
  <2>7. RingOf(n)'
    BY <1>1, <2>3, <2>5, <2>6 DEF RingOf
  <2>8. QED
    BY <1>1, <1>2, <2>3, <2>5, <2>6, <2>7, WorkerOnly
<1>4. CASE SetupFails(n)
  <2> USE <1>4 DEF SetupFails
  <2>1. PICK reply \in {"error", "none"} :
          worker' = [worker EXCEPT ![n] = [worker[n] EXCEPT !.at = "drop", !.reply = reply]]
    OBVIOUS
  <2>2. DEFINE r == [worker[n] EXCEPT !.at = "drop", !.reply = reply]
  <2>3. r \in ThreadSet /\ r.at = "drop" /\ r.session = worker[n].session
    BY <1>1 DEF ThreadSet
  <2>4. worker' = [worker EXCEPT ![n] = r]
    BY <2>1
  <2> HIDE DEF r
  <2>5. worker' \in [Workers -> ThreadSet] /\ worker'[n] = r /\ Others(n)
    BY <1>1, <2>3, <2>4 DEF Others
  <2>6. RingOf(n)'
    BY <2>3, <2>5 DEF RingOf
  <2>7. QED
    BY <1>1, <1>2, <2>3, <2>5, <2>6, WorkerOnly
<1>5. CASE Cancelled(n) \/ DeviceFails(n) \/ ConsumeFails(n)
  <2> USE <1>5 DEF Cancelled, DeviceFails, ConsumeFails, LeaveLoop
  <2>1. DEFINE r == [worker[n] EXCEPT !.at = "drop", !.buffer = 0]
  <2>2. worker' = [worker EXCEPT ![n] = r]
    OBVIOUS
  <2>3. r \in ThreadSet /\ r.at = "drop" /\ r.session = worker[n].session
    BY <1>1, Zero DEF ThreadSet
  <2> HIDE DEF r
  <2>5. worker' \in [Workers -> ThreadSet] /\ worker'[n] = r /\ Others(n)
    BY <1>1, <2>2, <2>3 DEF Others
  <2>6. queued' \in [Workers -> SUBSET Buffers]
    BY <1>1
  <2>7. RingOf(n)'
    BY <2>3, <2>5 DEF RingOf
  <2>8. QED
    BY <1>1, <1>2, <2>3, <2>5, <2>6, <2>7, WorkerOnly
<1>6. CASE Dequeue(n)
  <2> USE <1>6 DEF Dequeue
  <2>1. PICK b \in queued[n] :
          /\ worker' = [worker EXCEPT ![n] = [worker[n] EXCEPT !.at = "consume", !.buffer = b]]
          /\ queued' = [queued EXCEPT ![n] = queued[n] \ {b}]
    OBVIOUS
  <2>2. DEFINE r == [worker[n] EXCEPT !.at = "consume", !.buffer = b]
  <2>3. queued[n] = 1..worker[n].depth /\ b \in 1..worker[n].depth /\ b \in 0..MaxDepth
    BY <1>1 DEF RingOf, Buffers, ThreadSet
  <2>4. r \in ThreadSet /\ r.at = "consume" /\ r.session = worker[n].session
        /\ r.depth = worker[n].depth /\ r.buffer = b
    BY <1>1, <2>3 DEF ThreadSet
  <2>5. worker' = [worker EXCEPT ![n] = r]
    BY <2>1
  <2> HIDE DEF r
  <2>6. worker' \in [Workers -> ThreadSet] /\ worker'[n] = r /\ Others(n)
    <3>1. /\ worker' \in [Workers -> ThreadSet] /\ worker'[n] = r
          /\ \A m \in Workers \ {n} : worker'[m] = worker[m]
      BY <1>1, <2>4, <2>5
    <3>2. \A m \in Workers \ {n} : queued'[m] = queued[m]
      BY <1>1, <2>1
    <3>3. QED
      BY <3>1, <3>2 DEF Others
  <2>7. queued' \in [Workers -> SUBSET Buffers] /\ queued'[n] = (1..worker[n].depth) \ {b}
    BY <1>1, <2>1, <2>3
  <2>8. RingOf(n)'
    BY <2>3, <2>4, <2>6, <2>7 DEF RingOf
  <2>9. QED
    BY <1>1, <1>2, <2>4, <2>6, <2>7, <2>8, WorkerOnly
<1>7. CASE Consume(n)
  <2> USE <1>7 DEF Consume
  <2>1. PICK next \in {"poll", "publish"} :
          worker' = [worker EXCEPT ![n] = [worker[n] EXCEPT !.at = next, !.buffer = 0]]
    OBVIOUS
  <2>2. DEFINE r == [worker[n] EXCEPT !.at = next, !.buffer = 0]
  <2>3. r \in ThreadSet /\ r.at = next /\ r.session = worker[n].session
        /\ r.depth = worker[n].depth /\ r.buffer = 0
    BY <1>1, Zero DEF ThreadSet
  <2>4. worker' = [worker EXCEPT ![n] = r]
    BY <2>1
  <2> HIDE DEF r
  <2>5. worker' \in [Workers -> ThreadSet] /\ worker'[n] = r /\ Others(n)
    BY <1>1, <2>3, <2>4 DEF Others
  <2>6. queued' = [queued EXCEPT ![n] = 1..worker[n].depth] /\ 1..worker[n].depth \subseteq Buffers
    BY <1>1 DEF RingOf, ThreadSet, Buffers
  <2>7. queued' \in [Workers -> SUBSET Buffers] /\ queued'[n] = 1..worker[n].depth
    BY <1>1, <2>6
  <2>8. RingOf(n)'
    BY <2>3, <2>5, <2>7 DEF RingOf
  <2>9. QED
    BY <1>1, <1>2, <2>3, <2>5, <2>7, <2>8, WorkerOnly
<1>8. CASE PublishCopy(n)
  <2> USE <1>8 DEF PublishCopy, WorkerAt
  <2>1. DEFINE r == [worker[n] EXCEPT !.at = "poll"]
  <2>2. worker' = [worker EXCEPT ![n] = r]
    OBVIOUS
  <2>3. r \in ThreadSet /\ r.at = "poll" /\ r.session = worker[n].session
        /\ r.depth = worker[n].depth /\ r.buffer = worker[n].buffer
    BY <1>1 DEF ThreadSet
  <2> HIDE DEF r
  <2>4. worker' \in [Workers -> ThreadSet] /\ worker'[n] = r /\ Others(n)
    BY <1>1, <2>2, <2>3 DEF Others
  <2>5. RingOf(n)'
    BY <1>1, <2>3, <2>4 DEF RingOf
  <2>6. QED
    BY <1>1, <1>2, <2>3, <2>4, <2>5, WorkerOnly
<1>9. CASE DropGuard(n)
  <2> USE <1>9 DEF DropGuard, WorkerAt
  <2>1. hub' \in Hub /\ hub'.session = hub.session /\ ~hub'.active
    BY <1>1, HubSteps
  <2>2. DEFINE r == [worker[n] EXCEPT !.at = "done"]
  <2>3. worker' = [worker EXCEPT ![n] = r]
    OBVIOUS
  <2>4. r \in ThreadSet /\ r.at = "done"
    BY <1>1 DEF ThreadSet
  <2> HIDE DEF r
  <2>5. worker' \in [Workers -> ThreadSet] /\ worker'[n] = r
        /\ \A m \in Workers : m # n => worker'[m] = worker[m]
    BY <1>1, <2>3, <2>4
  <2>6. TypeOK'
    BY <1>1, <2>1, <2>5, Typed DEF WorkerInv, TypeOK, ThreadSet
  <2>7. \A m \in Running' : m \in Running /\ worker'[m] = worker[m]
    BY <2>4, <2>5 DEF Running, Spawned
  <2>8. OneCaller' /\ LiveHasWorker'
    BY <2>1 DEF WorkerInv, OneCaller, LiveHasWorker
  <2>9. OneWorker'
    BY <2>1, <2>7 DEF WorkerInv, OneWorker
  <2>10. Ring'
    <3>1. RingOf(n)'
      BY <2>4, <2>5 DEF RingOf
    <3>2. \A m \in Workers : m # n => RingOf(m)'
      BY <2>5 DEF WorkerInv, Ring, RingOf
    <3>3. QED
      BY <3>1, <3>2 DEF Ring
  <2>11. QED
    BY <2>6, <2>8, <2>9, <2>10 DEF WorkerInv
<1>10. QED
  BY <1>3, <1>4, <1>5, <1>6, <1>7, <1>8, <1>9 DEF WorkerStep

\* Every step keeps the invariant.
LEMMA WorkerInvStep ==
  Parameters /\ WorkerInv /\ [Next]_vars => WorkerInv'
<1> SUFFICES ASSUME Parameters, WorkerInv, [Next]_vars
             PROVE  WorkerInv'
  OBVIOUS
<1>1. ASSUME NEW c \in Callers, StartLock(c) PROVE WorkerInv'
  BY <1>1, StopLockedStep DEF StartLock
<1>2. ASSUME NEW c \in Callers, Stop(c) PROVE WorkerInv'
  BY <1>2, StopLockedStep DEF Stop
<1>3. ASSUME NEW c \in Callers, NEW depth \in 2..MaxDepth, SetBufferSize(c, depth)
      PROVE  WorkerInv'
  <2> USE <1>3 DEF SetBufferSize, WorkerInv
  <2>1. TypeOK'
    BY DEF TypeOK
  <2>2. OneCaller' /\ OneWorker'
    BY DEF OneCaller, OneWorker, TypeOK, Running, Spawned
  <2>3. LiveHasWorker' /\ Ring'
    BY DEF LiveHasWorker, Ring, RingOf
  <2>4. QED
    BY <2>1, <2>2, <2>3
<1>4. CASE SessionStopsHub
  <2> USE <1>4 DEF SessionStopsHub, WorkerInv
  <2>1. hub' \in Hub /\ hub'.session = hub.session /\ ~hub'.active
    BY HubSteps DEF TypeOK
  <2>2. TypeOK'
    BY <2>1 DEF TypeOK
  <2>3. OneCaller' /\ OneWorker'
    BY <2>1 DEF OneCaller, OneWorker, Running, Spawned
  <2>4. LiveHasWorker' /\ Ring'
    BY <2>1 DEF LiveHasWorker, Ring, RingOf
  <2>5. QED
    BY <2>2, <2>3, <2>4
<1>5. CASE UNCHANGED vars
  BY <1>5 DEF vars, WorkerInv, TypeOK, OneCaller, OneWorker, LiveHasWorker, Ring, RingOf, Running, Spawned
<1>6. ASSUME NEW c \in Callers, StartAgain(c) PROVE WorkerInv'
  BY <1>5, <1>6 DEF StartAgain
<1>7. QED
  BY <1>1, <1>2, <1>3, <1>4, <1>5, <1>6, CallerKeeps, WorkerKeeps DEF Next

\* What the invariant says of the properties.
LEMMA WorkerPromises == WorkerInv => TypeOK /\ WorkerOwnsSession /\ AtRest /\ RingWhole
<1>1. WorkerInv => TypeOK /\ WorkerOwnsSession /\ AtRest
  BY DEF WorkerInv, OneWorker, LiveHasWorker, WorkerOwnsSession, AtRest
<1>2. WorkerInv => RingWhole
  <2> SUFFICES ASSUME WorkerInv, NEW n \in Streaming
               PROVE  /\ queued[n] \cup ({worker[n].buffer} \ {0}) = 1..worker[n].depth
                      /\ worker[n].buffer \notin queued[n]
    BY DEF RingWhole
  <2>1. RingOf(n) /\ worker[n].depth \in Nat /\ worker[n].at \in {"poll", "consume", "publish"}
    BY DEF WorkerInv, Ring, TypeOK, Streaming, Running, Spawned
  <2>2. QED
    BY <2>1 DEF RingOf
<1>3. QED
  BY <1>1, <1>2

-----------------------------------------------------------------------------
(* Theorems.                                                                *)

\* Types, the one caller, the one worker and its ring hold in every reachable
\* state (camera.rs:303-470, v4l2_bridge.c).
THEOREM WorkerInvariant == ASSUME Parameters PROVE Spec => []WorkerInv
<1>1. Init => WorkerInv
  BY WorkerInvInit
<1>2. WorkerInv /\ [Next]_vars => WorkerInv'
  BY WorkerInvStep
<1>3. QED
  BY <1>1, <1>2, PTL DEF Spec

\* A running worker's session is the hub's: its guard StopHub, which names no
\* session, can end no later stream (camera.rs:303).
THEOREM WorkerOwnsItsSession == ASSUME Parameters PROVE Spec => []WorkerOwnsSession
BY WorkerPromises, WorkerInvariant, PTL

\* Between calls a live hub has its worker, and no other thread is left.
THEOREM NoThreadLeft == ASSUME Parameters PROVE Spec => []AtRest
BY WorkerPromises, WorkerInvariant, PTL

\* Every buffer of a streaming ring is with the driver or in the worker's hands.
THEOREM RingKeepsBuffers == ASSUME Parameters PROVE Spec => []RingWhole
BY WorkerPromises, WorkerInvariant, PTL

============================================================================
