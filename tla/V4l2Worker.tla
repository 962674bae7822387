---------------------------- MODULE V4l2Worker ----------------------------
(***************************************************************************)
(* The V4L2 backend (src/src/backends/v4l2/camera.rs, native.rs and        *)
(* cpp/v4l2_bridge.c): callers of start and stop serialised by the state   *)
(* mutex, one capture worker per start, the socket that wakes it, the      *)
(* channel it answers through, and the kernel's ring of mapped buffers.    *)
(*                                                                         *)
(* Worker n is the one the n-th start spawned; `starts` bounds them.       *)
(***************************************************************************)
EXTENDS CaptureHub, FiniteSets

CONSTANTS Callers,    \* threads that call start_stream and stop_stream
          MaxDepth,   \* bound on the depth of the ring (32 in the code)
          MaxStarts,  \* bound on the number of workers spawned
          NoOne       \* no caller

VARIABLES hub,
          caller,     \* per caller: where it is
          state,      \* Inner.state: the mutex holder, worker handle, wake socket, whether a
                      \* negotiated configuration is kept, and the depth asked for
          worker,     \* per spawned worker: its thread
          queued      \* per spawned worker: the buffers the driver may fill

vars == <<hub, caller, state, worker, queued>>

Workers == 1..MaxStarts

Buffers == 1..MaxDepth

Spawned == {n \in Workers : worker[n].at # "unborn"}

\* A thread that has not yet dropped its guard StopHub.
Running == {n \in Spawned : worker[n].at # "done"}

\* STREAMON has been issued for the worker's stream and STREAMOFF has not.
Streaming == {n \in Running : worker[n].at \in {"poll", "consume", "publish"}}

TypeOK ==
    /\ hub \in Hub
    /\ caller \in [Callers -> {"idle", "joinToStart", "spawn", "reply", "joinToFail", "joinToStop"}]
    /\ state \in [holder : Callers \cup {NoOne}, handle : 0..MaxStarts, wake : 0..MaxStarts,
                  configured : BOOLEAN, depth : 2..MaxDepth]
    /\ worker \in [Workers -> [at : {"unborn", "setup", "poll", "consume", "publish", "drop", "done"},
                               session : Nat, depth : 0..MaxDepth, buffer : 0..MaxDepth,
                               reply : {"none", "ok", "error"}, woken : BOOLEAN]]
    /\ queued \in [Workers -> SUBSET Buffers]

Unborn == [at |-> "unborn", session |-> 0, depth |-> 0, buffer |-> 0,
           reply |-> "none", woken |-> FALSE]

Init ==
    /\ hub = HubIdle
    /\ caller = [c \in Callers |-> "idle"]
    /\ state = [holder |-> NoOne, handle |-> 0, wake |-> 0, configured |-> FALSE, depth |-> 2]
    /\ worker = [n \in Workers |-> Unborn]
    /\ queued = [n \in Workers |-> {}]

-----------------------------------------------------------------------------
(* Callers: start_stream, stop_stream, cleanup and drop.                    *)

Goto(c, at) == caller' = [caller EXCEPT ![c] = at]

Return(c) == Goto(c, "idle")

Unlock == [state EXCEPT !.holder = NoOne]

\* Broken: the worker is not woken out of its wait for a frame.
StopLockedSilently(c) ==
    /\ hub' = HubStop(hub)
    /\ state' = [state EXCEPT !.holder = c, !.wake = 0, !.configured = FALSE]
    /\ UNCHANGED worker

\* stop_locked up to the join: the hub stops, the wake byte is sent, the
\* configuration is forgotten; the worker's handle is taken by the join.
StopLocked(c) ==
    /\ hub' = HubStop(hub)
    /\ state' = [state EXCEPT !.holder = c, !.wake = 0, !.configured = FALSE]
    /\ worker' = IF state.wake = 0 THEN worker ELSE [worker EXCEPT ![state.wake].woken = TRUE]

\* start() on a live stream changes nothing, whether or not it has the same
\* configuration.
StartAgain(c) ==
    /\ caller[c] = "idle" /\ state.holder = NoOne
    /\ hub.active
    /\ UNCHANGED vars

StartLock(c) ==
    /\ caller[c] = "idle" /\ state.holder = NoOne
    /\ ~hub.active /\ hub.session < MaxStarts
    /\ StopLocked(c)
    /\ Goto(c, "joinToStart")
    /\ UNCHANGED queued

Stop(c) ==
    /\ caller[c] = "idle" /\ state.holder = NoOne
    /\ StopLocked(c)
    /\ Goto(c, "joinToStop")
    /\ UNCHANGED queued

\* Broken: the old thread is left to end by itself.
JoinedAtOnce == TRUE

\* The end of stop_locked: the thread is joined if a handle is held.
Joined == state.handle \notin Running

JoinToStart(c) ==
    /\ caller[c] = "joinToStart" /\ Joined
    /\ Goto(c, "spawn")
    /\ state' = [state EXCEPT !.handle = 0]
    /\ UNCHANGED <<hub, worker, queued>>

JoinAndReturn(c) ==
    /\ caller[c] \in {"joinToStop", "joinToFail"} /\ Joined
    /\ Return(c)
    /\ state' = [Unlock EXCEPT !.handle = 0]
    /\ UNCHANGED <<hub, worker, queued>>

\* The socket pair exists, the hub has a new session and the thread runs.
Spawn(c) ==
    /\ caller[c] = "spawn"
    /\ \E n \in Workers :
        /\ worker[n].at = "unborn" /\ \A m \in 1..(n - 1) : m \in Spawned
        /\ hub' = HubStart(hub)
        /\ worker' = [worker EXCEPT ![n] = [Unborn EXCEPT !.at = "setup", !.session = hub'.session,
                                                          !.depth = state.depth]]
        /\ state' = [state EXCEPT !.handle = n, !.wake = n]
    /\ Goto(c, "reply")
    /\ UNCHANGED queued

\* Broken: the session begun for the thread that was not spawned goes on.
SpawnFailsLive(c) ==
    /\ caller[c] = "spawn"
    /\ hub' = HubStart(hub)
    /\ state' = Unlock
    /\ Return(c)
    /\ UNCHANGED <<worker, queued>>

\* UnixStream::pair fails before hub.start(), or thread::Builder::spawn after
\* it; the latter stops the hub again.
SpawnFails(c) ==
    /\ caller[c] = "spawn"
    /\ \/ UNCHANGED hub
       \/ hub' = HubStop(HubStart(hub))
    /\ state' = Unlock
    /\ Return(c)
    /\ UNCHANGED <<worker, queued>>

\* receiver.recv(): the worker's answer, or the end of its thread without one.
ReplyOk(c) ==
    /\ caller[c] = "reply" /\ worker[state.handle].reply = "ok"
    /\ state' = [Unlock EXCEPT !.configured = TRUE]
    /\ Return(c)
    /\ UNCHANGED <<hub, worker, queued>>

ReplyError(c) ==
    /\ caller[c] = "reply"
    /\ worker[state.handle].reply # "ok"
    /\ worker[state.handle].reply = "error" \/ worker[state.handle].at = "done"
    /\ StopLocked(c)
    /\ Goto(c, "joinToFail")
    /\ UNCHANGED queued

\* set_buffer_size: for the next stream, refused while one is live.
SetBufferSize(c, depth) ==
    /\ caller[c] = "idle" /\ state.holder = NoOne
    /\ ~hub.active
    /\ state' = [state EXCEPT !.depth = depth]
    /\ UNCHANGED <<hub, caller, worker, queued>>

-----------------------------------------------------------------------------
(* The worker thread.                                                       *)

WorkerAt(n, at) == worker' = [worker EXCEPT ![n].at = at]

\* The loop ends, with an error, a cancellation or an unwinding panic: the
\* stream is dropped, which takes every buffer from the driver.
LeaveLoop(n) ==
    /\ worker' = [worker EXCEPT ![n].at = "drop", ![n].buffer = 0]
    /\ queued' = [queued EXCEPT ![n] = {}]

\* Format negotiation, converter and Stream::start; camera_v4l2_start queues
\* every buffer before STREAMON, and a device streams to one owner at a time.
SetupOk(n) ==
    /\ worker[n].at = "setup"
    /\ Streaming = {}
    /\ worker' = [worker EXCEPT ![n].at = "poll", ![n].reply = "ok"]
    /\ queued' = [queued EXCEPT ![n] = 1..worker[n].depth]
    /\ UNCHANGED <<hub, caller, state>>

SetupFails(n) ==
    /\ worker[n].at = "setup"
    /\ \E reply \in {"error", "none"} :   \* "none": the thread panicked
        worker' = [worker EXCEPT ![n].at = "drop", ![n].reply = reply]
    /\ UNCHANGED <<hub, caller, state, queued>>

\* camera_v4l2_next: poll sees the wake socket before the device.
Cancelled(n) ==
    /\ worker[n].at = "poll" /\ worker[n].woken
    /\ LeaveLoop(n)
    /\ UNCHANGED <<hub, caller, state>>

Dequeue(n) ==
    /\ worker[n].at = "poll" /\ ~worker[n].woken
    /\ \E b \in queued[n] :
        /\ worker' = [worker EXCEPT ![n].at = "consume", ![n].buffer = b]
        /\ queued' = [queued EXCEPT ![n] = @ \ {b}]
    /\ UNCHANGED <<hub, caller, state>>

\* The device hangs up, reports bad sizes, or is silent for five seconds.
DeviceFails(n) ==
    /\ worker[n].at = "poll" /\ ~worker[n].woken
    /\ LeaveLoop(n)
    /\ UNCHANGED <<hub, caller, state>>

\* Broken: an early return of the consumer skips VIDIOC_QBUF.
ConsumeAndKeep(n) ==
    /\ worker[n].at = "consume"
    /\ worker' = [worker EXCEPT ![n].at = "poll", ![n].buffer = 0]
    /\ UNCHANGED <<hub, caller, state, queued>>

\* The consumer runs on the mapped buffer (a damaged frame is only counted),
\* then Stream::next queues the buffer again: VIDIOC_QBUF of the one dequeued.
Consume(n) ==
    /\ worker[n].at = "consume"
    /\ \E next \in {"poll", "publish"} :  \* "publish": the decoding of a copied MJPEG image is left
        worker' = [worker EXCEPT ![n].at = next, ![n].buffer = 0]
    /\ queued' = [queued EXCEPT ![n] = @ \cup {worker[n].buffer}]
    /\ UNCHANGED <<hub, caller, state>>

\* QBUF fails, the consumer fails, or it panics under the guard Requeue.
ConsumeFails(n) ==
    /\ worker[n].at = "consume"
    /\ LeaveLoop(n)
    /\ UNCHANGED <<hub, caller, state>>

\* hub.publish_rgb_metadata of the copied MJPEG image, the buffer being queued.
PublishCopy(n) ==
    /\ worker[n].at = "publish"
    /\ WorkerAt(n, "poll")
    /\ UNCHANGED <<hub, caller, state, queued>>

\* StopHub::drop, the last thing the thread does: it names no session.
DropGuard(n) ==
    /\ worker[n].at = "drop"
    /\ hub' = HubStop(hub)
    /\ WorkerAt(n, "done")
    /\ UNCHANGED <<caller, state, queued>>

WorkerStep(n) ==
    \/ SetupOk(n) \/ SetupFails(n)
    \/ Cancelled(n) \/ Dequeue(n) \/ DeviceFails(n)
    \/ Consume(n) \/ ConsumeFails(n) \/ PublishCopy(n)
    \/ DropGuard(n)

\* The session that owns the camera ends its stream through the hub first,
\* outside the mutex of the backend.
SessionStopsHub ==
    /\ hub.active
    /\ hub' = HubStop(hub)
    /\ UNCHANGED <<caller, state, worker, queued>>

CallerStep(c) ==
    \/ JoinToStart(c) \/ JoinAndReturn(c)
    \/ Spawn(c) \/ SpawnFails(c)
    \/ ReplyOk(c) \/ ReplyError(c)

Next ==
    \/ \E c \in Callers :
        \/ StartLock(c) \/ StartAgain(c) \/ Stop(c)
        \/ \E depth \in 2..MaxDepth : SetBufferSize(c, depth)
        \/ CallerStep(c)
    \/ \E n \in Workers : WorkerStep(n)
    \/ SessionStopsHub

\* Both threads run on; a caller need not call, and a device need not deliver:
\* a worker in poll() moves when it is woken, and finishes what it dequeued.
Fairness ==
    /\ \A c \in Callers : WF_vars(CallerStep(c))
    /\ \A n \in Workers :
        /\ WF_vars(SetupOk(n) \/ SetupFails(n))
        /\ WF_vars(Cancelled(n))
        /\ WF_vars(Consume(n) \/ ConsumeFails(n))
        /\ WF_vars(PublishCopy(n))
        /\ WF_vars(DropGuard(n))

Spec == Init /\ [][Next]_vars /\ Fairness

-----------------------------------------------------------------------------
(* Properties.                                                              *)

\* While a worker lives, the hub's session is the worker's own: the guard at
\* its end, which stops the hub without naming a session, and the frames it
\* publishes can hit no later stream (start joins the old thread first).
WorkerOwnsSession ==
    \A n \in Running : worker[n].session = hub.session

\* Nobody is inside start or stop: the hub is live only with its worker held
\* by the handle and a configuration to report, and a camera without a handle
\* has no thread left that could touch the device or the hub.
AtRest ==
    state.holder = NoOne =>
        /\ hub.active => state.handle \in Running /\ state.configured
        /\ Running \subseteq {state.handle}

\* No buffer is lost to the ring: each is with the driver or is the one the
\* worker holds, and none is both, so a slow or failing consumer never lets
\* the driver overwrite the image it reads nor starves the driver.
RingWhole ==
    \A n \in Streaming :
        /\ queued[n] \cup ({worker[n].buffer} \ {0}) = 1..worker[n].depth
        /\ worker[n].buffer \notin queued[n]

\* A caller that took the mutex returns: stop wakes a worker that waits for a
\* frame, and a failed start joins the worker it spawned.
CallsReturn ==
    \A c \in Callers : caller[c] # "idle" ~> caller[c] = "idle"

============================================================================
