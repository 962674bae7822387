---------------------------- MODULE UvcCapture ----------------------------
(***************************************************************************)
(* The UVC backend (src/src/backends/uvc/camera.rs, context.rs): start,    *)
(* stop and cleanup serialised by the lifecycle mutex, the callback thread *)
(* of libuvc, which reads a context the camera owns, and the MJPEG worker  *)
(* fed by a channel of one job and two recycled buffers.                   *)
(*                                                                         *)
(* Buffers move: free in the dispatch, filled by the callback, in the      *)
(* channel, decoded by the worker.                                         *)
(***************************************************************************)
EXTENDS CaptureHub, FiniteSets

CONSTANTS Callers,      \* threads that call start, stop and cleanup
          MaxSessions,  \* bound on the number of starts
          NoOne         \* no caller

VARIABLES hub,
          caller,    \* per caller: where it is
          holder,    \* the caller that holds the lifecycle mutex
          device,    \* whether the device handle is open
          streaming, \* libuvc delivers frames
          context,   \* the callback context: session, freed when 0, and its use of a worker
          callback,  \* the callback thread and the buffer it has taken
          worker,    \* the MJPEG worker: session, buffer, and whether it is joinable
          free, channel,
          halfBegun  \* a start ended in an error after hub.start() and left the hub live

vars == <<hub, caller, holder, device, streaming, context, callback, worker, free, channel, halfBegun>>

Buffers == {1, 2}

NoBuffer == 0

TypeOK ==
    /\ hub \in Hub
    /\ caller \in [Callers -> {"idle", "open", "begin", "stream", "undoStream", "undoWorker",
                               "joinCallback", "joinWorker"}]
    /\ holder \in Callers \cup {NoOne}
    /\ device \in BOOLEAN /\ streaming \in BOOLEAN
    /\ context \in [session : Nat, mjpeg : BOOLEAN]
    /\ callback \in [at : {"idle", "frame", "send"}, buffer : Buffers \cup {NoBuffer}]
    /\ worker \in [at : {"none", "recv", "decode", "ended"}, session : Nat, buffer : Buffers \cup {NoBuffer}]
    /\ free \subseteq Buffers
    /\ channel \in Buffers \cup {NoBuffer}
    /\ halfBegun \in BOOLEAN

NoContext == [session |-> 0, mjpeg |-> FALSE]

NoWorker == [at |-> "none", session |-> 0, buffer |-> NoBuffer]

NoCallback == [at |-> "idle", buffer |-> NoBuffer]

Init ==
    /\ hub = HubIdle
    /\ caller = [c \in Callers |-> "idle"]
    /\ holder = NoOne
    /\ device = FALSE /\ streaming = FALSE
    /\ context = NoContext
    /\ callback = NoCallback
    /\ worker = NoWorker
    /\ free = {} /\ channel = NoBuffer
    /\ halfBegun = FALSE

stream == <<streaming, callback>>
dispatch == <<free, channel>>

-----------------------------------------------------------------------------
(* Callers.                                                                 *)

Goto(c, at) == caller' = [caller EXCEPT ![c] = at]

Return(c) == Goto(c, "idle") /\ holder' = NoOne

\* start_sync takes the mutex; a live hub is an error at once.  A session that
\* ended the hub itself stops the source before it starts it again (recovery
\* and the next candidate do, api.rs), so the old stream is never running.
Start(c) ==
    /\ caller[c] = "idle" /\ holder = NoOne
    /\ \/ hub.active /\ UNCHANGED <<holder, caller>>
       \/ ~hub.active /\ ~streaming /\ hub.session < MaxSessions /\ holder' = c /\ Goto(c, "open")
    /\ UNCHANGED <<hub, device, stream, context, worker, dispatch, halfBegun>>

\* The device is opened unless it is (from_fd, an earlier start), then the
\* stream is negotiated; an error leaves the hub as it was.
Open(c) ==
    /\ caller[c] = "open"
    /\ device' = TRUE
    /\ Goto(c, "begin")
    /\ UNCHANGED <<hub, holder, stream, context, worker, dispatch, halfBegun>>

OpenFails(c) ==
    /\ caller[c] = "open"
    /\ device' \in {device, TRUE}     \* not opened, or opened and not negotiated
    /\ Return(c)
    /\ UNCHANGED <<hub, stream, context, worker, dispatch, halfBegun>>

\* hub.start(), and the worker if MJPEG is to be decoded to RGB.
Begin(c) ==
    /\ caller[c] = "begin"
    /\ hub' = HubStart(hub)
    /\ \E mjpeg \in BOOLEAN :
        /\ context' = [session |-> hub'.session, mjpeg |-> mjpeg]
        /\ worker' = IF mjpeg THEN [NoWorker EXCEPT !.at = "recv", !.session = hub'.session] ELSE NoWorker
        /\ free' = IF mjpeg THEN Buffers ELSE {}
    /\ channel' = NoBuffer
    /\ halfBegun' = FALSE
    /\ Goto(c, "stream")
    /\ UNCHANGED <<holder, device, stream>>

\* The worker's thread cannot be spawned, or MJPEG not be decoded in this
\* build: the error returns and the hub stays live.
BeginFails(c) ==
    /\ caller[c] = "begin"
    /\ hub' = HubStart(hub)
    /\ Return(c)
    /\ halfBegun' = TRUE
    /\ UNCHANGED <<device, stream, context, worker, dispatch>>

Stream(c) ==
    /\ caller[c] = "stream"
    /\ streaming' = TRUE
    /\ Return(c)
    /\ UNCHANGED <<hub, device, context, callback, worker, dispatch, halfBegun>>

\* Broken: the hub is not stopped when the stream cannot be started.
StreamFailsLive(c) ==
    /\ caller[c] = "stream"
    /\ streaming' \in BOOLEAN
    /\ Goto(c, "undoStream")
    /\ UNCHANGED <<hub, holder, device, context, callback, worker, dispatch, halfBegun>>

\* uvc_start_streaming fails, perhaps after callbacks have begun.
StreamFails(c) ==
    /\ caller[c] = "stream"
    /\ hub' = HubStop(hub)
    /\ streaming' \in BOOLEAN
    /\ Goto(c, "undoStream")
    /\ UNCHANGED <<holder, device, context, callback, worker, dispatch, halfBegun>>

\* stop_locked, and cleanup, which also closes the device at its end.
Stop(c) ==
    /\ caller[c] = "idle" /\ holder = NoOne
    /\ hub' = HubStop(hub)
    /\ halfBegun' = FALSE
    /\ holder' = c
    /\ Goto(c, "joinCallback")
    /\ UNCHANGED <<device, stream, context, worker, dispatch>>

\* Broken: the context is freed while its last callback runs.
CallbackAbandoned == TRUE

\* libuvc ends no stream before the callback it runs has returned.
CallbackJoined == callback.at = "idle"

\* uvc_stop_streaming first cancels the transfers ...
CancelTransfers(c) ==
    /\ caller[c] \in {"joinCallback", "undoStream"}
    /\ streaming /\ streaming' = FALSE
    /\ UNCHANGED <<hub, caller, holder, device, context, callback, worker, dispatch, halfBegun>>

\* ... then joins the callback thread; the context is dropped after that, and
\* with it the sender of the channel.
StopStreaming(c) ==
    /\ caller[c] \in {"joinCallback", "undoStream"}
    /\ ~streaming /\ CallbackJoined
    /\ context' = NoContext
    /\ Goto(c, IF caller[c] = "undoStream" THEN "undoWorker" ELSE "joinWorker")
    /\ UNCHANGED <<hub, holder, device, stream, worker, dispatch, halfBegun>>

\* The worker is joined; `cleanup` closes the device, a stop keeps it open.
JoinWorker(c) ==
    /\ caller[c] \in {"joinWorker", "undoWorker"}
    /\ worker.at \in {"none", "ended"}
    /\ worker' = NoWorker
    /\ free' = {} /\ channel' = NoBuffer
    /\ device' \in IF caller[c] = "joinWorker" THEN {device, FALSE} ELSE {device}
    /\ Return(c)
    /\ UNCHANGED <<hub, stream, context, halfBegun>>

\* The session that owns the camera ends its stream through the hub first.
SessionStopsHub ==
    /\ hub.active
    /\ hub' = HubStop(hub)
    /\ UNCHANGED <<caller, holder, device, stream, context, worker, dispatch, halfBegun>>

-----------------------------------------------------------------------------
(* The callback thread of libuvc.                                           *)

Callback == UNCHANGED <<hub, caller, holder, device, streaming, context, halfBegun>>

\* A frame arrives; the callback dereferences its context from here on.
Frame ==
    /\ callback.at = "idle" /\ streaming
    /\ callback' = [callback EXCEPT !.at = "frame"]
    /\ Callback /\ UNCHANGED <<worker, dispatch>>

\* The frame is empty, malformed, converted on this thread or published as it
\* is, or the callback panics, which is caught.
FrameInPlace ==
    /\ callback.at = "frame"
    /\ callback' = NoCallback
    /\ Callback /\ UNCHANGED <<worker, dispatch>>

\* Broken: the image is sent without waiting for a recycled buffer.
TakeBufferAnyway ==
    /\ callback.at = "frame" /\ context.mjpeg
    /\ \E b \in Buffers : callback' = [at |-> "send", buffer |-> b] /\ free' = free \ {b}
    /\ Callback /\ UNCHANGED <<worker, channel>>

\* An MJPEG image is copied to a recycled buffer; without one it is dropped,
\* as in FrameInPlace.
TakeBuffer ==
    /\ callback.at = "frame" /\ context.mjpeg
    /\ \E b \in free : callback' = [at |-> "send", buffer |-> b] /\ free' = free \ {b}
    /\ Callback /\ UNCHANGED <<worker, channel>>

Send ==
    /\ callback.at = "send"
    /\ channel = NoBuffer /\ worker.at # "ended"
    /\ channel' = callback.buffer
    /\ callback' = NoCallback
    /\ Callback /\ UNCHANGED <<worker, free>>

\* Broken: the job that the channel refused is dropped with its buffer.
SendRefusedDropped ==
    /\ callback.at = "send"
    /\ channel # NoBuffer \/ worker.at = "ended"
    /\ callback' = NoCallback
    /\ Callback /\ UNCHANGED <<worker, dispatch>>

\* try_send: the channel is full, or its receiver is gone with the worker.
SendRefused ==
    /\ callback.at = "send"
    /\ channel # NoBuffer \/ worker.at = "ended"
    /\ free' = free \cup {callback.buffer}
    /\ callback' = NoCallback
    /\ Callback /\ UNCHANGED <<worker, channel>>

-----------------------------------------------------------------------------
(* The MJPEG worker.                                                        *)

Worker == UNCHANGED <<hub, caller, holder, device, stream, context, halfBegun>>

Receive ==
    /\ worker.at = "recv" /\ channel # NoBuffer
    /\ worker' = [worker EXCEPT !.at = "decode", !.buffer = channel]
    /\ channel' = NoBuffer
    /\ Worker /\ UNCHANGED free

\* The image is decoded and published, or refused; its buffer is recycled.
Decode ==
    /\ worker.at = "decode"
    /\ worker' = [worker EXCEPT !.at = "recv", !.buffer = NoBuffer]
    /\ free' = free \cup {worker.buffer}
    /\ Worker /\ UNCHANGED channel

\* The decoder panics: the thread ends, its receiver and its job are dropped.
DecodePanics ==
    /\ worker.at = "decode"
    /\ worker' = [worker EXCEPT !.at = "ended", !.buffer = NoBuffer]
    /\ channel' = NoBuffer
    /\ Worker /\ UNCHANGED free

\* Broken: the thread waits for a job though nobody can send one.
WorkerStays ==
    /\ worker.at = "recv" /\ channel = NoBuffer /\ context = NoContext
    /\ UNCHANGED vars

\* recv() fails once the sender is gone and the channel is empty.
WorkerEnds ==
    /\ worker.at = "recv" /\ channel = NoBuffer /\ context = NoContext
    /\ worker' = [worker EXCEPT !.at = "ended"]
    /\ Worker /\ UNCHANGED dispatch

CallerStep(c) ==
    \/ Open(c) \/ OpenFails(c)
    \/ Begin(c) \/ BeginFails(c)
    \/ Stream(c) \/ StreamFails(c)
    \/ CancelTransfers(c) \/ StopStreaming(c) \/ JoinWorker(c)

CallbackStep == FrameInPlace \/ TakeBuffer \/ Send \/ SendRefused

WorkerStep == Receive \/ Decode \/ DecodePanics \/ WorkerEnds

Next ==
    \/ \E c \in Callers : Start(c) \/ Stop(c) \/ CallerStep(c)
    \/ SessionStopsHub
    \/ Frame \/ CallbackStep
    \/ WorkerStep

\* Threads run on; the device need not deliver frames, nor anybody call.
Fairness ==
    /\ \A c \in Callers : WF_vars(CallerStep(c))
    /\ WF_vars(CallbackStep)
    /\ WF_vars(WorkerStep)

Spec == Init /\ [][Next]_vars /\ Fairness

-----------------------------------------------------------------------------
(* Properties.                                                              *)

\* The context libuvc was given a raw pointer to outlives every callback: it
\* is dropped only after the callback thread was joined.
ContextOutlivesCallback ==
    callback.at # "idle" => context # NoContext

\* While the worker lives, each of its two buffers is in exactly one place;
\* a full channel, a slow decoder or a refused job loses none, so the stream
\* never ends up dropping every frame for want of a buffer.
BuffersConserved ==
    worker.at \in {"recv", "decode"} =>
        /\ free \cup ({channel, callback.buffer, worker.buffer} \ {NoBuffer}) = Buffers
        /\ Cardinality(free) + Cardinality({n \in 1..3 : <<channel, callback.buffer, worker.buffer>>[n] # NoBuffer})
             = Cardinality(Buffers)

\* Nobody being inside start or stop, the stream, its context and its worker
\* belong to the session of the hub: no thread of an older session is left.  A
\* live hub has its stream, also after a start that failed; the exceptions are
\* the two returns between hub.start() and uvc_start_streaming, which leave
\* the hub live until a stop.
AtRest ==
    holder = NoOne =>
        /\ hub.active => streaming \/ halfBegun
        /\ streaming <=> context # NoContext
        /\ context # NoContext => context.session = hub.session
        /\ worker # NoWorker => worker.session = context.session

\* Every start and stop that took the mutex returns: the callback ends, and
\* the worker sees its channel closed.
CallsReturn ==
    \A c \in Callers : caller[c] # "idle" ~> caller[c] = "idle"
============================================================================
