--------------------------- MODULE Camera2Capture ---------------------------
(***************************************************************************)
(* The Camera2 backend (src/src/backends/camera2/camera.rs) with its       *)
(* native bridge (src/cpp/ndk_camera2_bridge.cpp).  The lifecycle mutex    *)
(* makes starts and stops one sequence, so one client stands for all       *)
(* callers; the callbacks of images and of the device's state exclude one  *)
(* another by callback_mutex, so one callback thread stands for both.      *)
(***************************************************************************)
EXTENDS CaptureHub

CONSTANT MaxStarts    \* bound on the starts of a camera

VARIABLES hub,
          shared,     \* SharedState.session, read by the callback for each frame
          client,     \* where the client is in start or stop
          native,     \* the bridge: streaming flag, frame_cb, its session's objects and request,
                      \* and a loss of the device, reported while streaming or not
          callback,   \* the callback that holds callback_mutex, and the stream it was raised for
          stopDue     \* the session ended the hub, or a start failed: it stops the source next

vars == <<hub, shared, client, native, callback, stopDue>>

TypeOK ==
    /\ hub \in Hub
    /\ shared \in Nat
    /\ client \in {"idle", "drain", "open", "request", "store", "config", "undo", "fail", "close"}
    /\ native \in [streaming : BOOLEAN, cb : BOOLEAN, open : BOOLEAN, repeating : BOOLEAN, stream : Nat,
                  lost : {"no", "heard", "unheard"}]
    /\ callback \in [at : {"idle", "frame", "stop"}, stream : Nat]
    /\ stopDue \in BOOLEAN

Closed == [streaming |-> FALSE, cb |-> FALSE, open |-> FALSE, repeating |-> FALSE, stream |-> 0,
           lost |-> "no"]

NoCallback == [at |-> "idle", stream |-> 0]

Init ==
    /\ hub = HubIdle
    /\ shared = 0
    /\ client = "idle"
    /\ native = Closed
    /\ callback = NoCallback
    /\ stopDue = FALSE

-----------------------------------------------------------------------------
(* start_stream_sync and start_streaming.                                   *)

StartAgain ==
    /\ client = "idle" /\ hub.active
    /\ UNCHANGED vars

\* The hub starts before the bridge does.  A session that ended the hub or
\* saw a start fail stops the source before it starts it again (api.rs).
Start ==
    /\ client = "idle" /\ ~hub.active /\ ~stopDue
    /\ hub.session < MaxStarts
    /\ hub' = HubStart(hub)
    /\ shared' = hub'.session
    /\ client' = "drain"
    /\ UNCHANGED <<native, callback, stopDue>>

\* Broken: frame_cb is cleared without callback_mutex.
CallbackIgnored == TRUE

\* cleanup_streaming waits for callback_mutex before it frees anything.
CallbackDrained == callback.at = "idle"

\* What a lost stream left is freed, and the new callback registered.
Drain ==
    /\ client = "drain" /\ ~native.streaming
    /\ CallbackDrained
    /\ native' = [Closed EXCEPT !.cb = TRUE, !.stream = hub.session]
    /\ client' = "open"
    /\ UNCHANGED <<hub, shared, callback, stopDue>>

\* Reader, listener and window, then the device with its state callbacks.
OpenCamera ==
    /\ client = "open"
    /\ native' = [native EXCEPT !.open = TRUE]
    /\ client' = "request"
    /\ UNCHANGED <<hub, shared, callback, stopDue>>

\* Outputs, the request with an advertised rate range, the capture session
\* and its repeating request: images flow from here on.
SetRepeatingRequest ==
    /\ client = "request"
    /\ native' = [native EXCEPT !.repeating = TRUE]
    /\ client' = "store"
    /\ UNCHANGED <<hub, shared, callback, stopDue>>

StoreStreaming ==
    /\ client = "store"
    /\ native' = [native EXCEPT !.streaming = TRUE]
    /\ client' = "config"
    /\ UNCHANGED <<hub, shared, callback, stopDue>>

\* ndk_camera2_get_active_config fails once the device is lost again.
ActiveConfig ==
    /\ client = "config"
    /\ client' = IF native.streaming THEN "idle" ELSE "fail"
    /\ UNCHANGED <<hub, shared, native, callback, stopDue>>

\* One of the steps of start_streaming fails, or the bridge streams already.
StartFails ==
    /\ \/ client \in {"open", "request"} /\ client' = "undo"
       \/ client = "drain" /\ native.streaming /\ client' = "fail"
    /\ UNCHANGED <<hub, shared, native, callback, stopDue>>

\* cleanup_streaming of a start that failed.
UndoNative ==
    /\ client = "undo"
    /\ CallbackDrained
    /\ native' = Closed
    /\ client' = "fail"
    /\ UNCHANGED <<hub, shared, callback, stopDue>>

StartReturnsError ==
    /\ client = "fail"
    /\ hub' = HubStop(hub)
    /\ client' = "idle"
    /\ stopDue' = TRUE
    /\ UNCHANGED <<shared, native, callback>>

-----------------------------------------------------------------------------
(* stop_stream_sync, cleanup and drop; stop_streaming of the bridge.        *)

Stop ==
    /\ client = "idle"
    /\ hub' = HubStop(hub)
    /\ native' = [native EXCEPT !.streaming = FALSE]
    /\ client' = "close"
    /\ stopDue' = FALSE
    /\ UNCHANGED <<shared, callback>>

CloseNative ==
    /\ client = "close"
    /\ CallbackDrained
    /\ native' = Closed
    /\ client' = "idle"
    /\ UNCHANGED <<hub, shared, callback, stopDue>>

SessionStopsHub ==
    /\ hub.active
    /\ hub' = HubStop(hub)
    /\ stopDue' = TRUE
    /\ UNCHANGED <<shared, client, native, callback>>

\* A control rewrites the repeating request under the mutex of the handle,
\* which start and stop hold too: it is stopped, and may fail to come back.
SetControl ==
    /\ client \in {"idle", "drain", "fail"}
    /\ native.streaming
    /\ \E repeating \in BOOLEAN : native' = [native EXCEPT !.repeating = repeating]
    /\ UNCHANGED <<hub, shared, client, callback, stopDue>>

-----------------------------------------------------------------------------
(* Callbacks of the NDK.                                                    *)

Raise(at) == callback' = [at |-> at, stream |-> native.stream]

\* An image that arrives while the stream is not running is drained; none
\* comes from a lost device.
ImageAvailable ==
    /\ callback.at = "idle"
    /\ native.open /\ native.repeating /\ native.lost = "no"
    /\ IF native.streaming /\ native.cb THEN Raise("frame") ELSE UNCHANGED callback
    /\ UNCHANGED <<hub, shared, client, native, stopDue>>

\* frame_callback returns: dropped, damaged or published under shared.session.
FrameReturns ==
    /\ callback.at = "frame"
    /\ callback' = NoCallback
    /\ UNCHANGED <<hub, shared, client, native, stopDue>>

Reported == IF native.streaming THEN "heard" ELSE IF native.lost = "no" THEN "unheard" ELSE native.lost

\* Broken: the disconnect only clears the flag.
DisconnectedSilently ==
    /\ callback.at = "idle" /\ native.open
    /\ native' = [native EXCEPT !.streaming = FALSE, !.lost = Reported]
    /\ UNCHANGED <<hub, shared, client, callback, stopDue>>

\* on_device_disconnected and on_device_error: a loss reported before the
\* stream counts as running is heard by nobody.
Disconnected ==
    /\ callback.at = "idle" /\ native.open
    /\ native' = [native EXCEPT !.streaming = FALSE, !.lost = Reported]
    /\ IF native.streaming /\ native.cb THEN Raise("stop") ELSE UNCHANGED callback
    /\ UNCHANGED <<hub, shared, client, stopDue>>

\* frame_callback with no frame: the hub is stopped, whatever its session.
DisconnectStopsHub ==
    /\ callback.at = "stop"
    /\ hub' = HubStop(hub)
    /\ callback' = NoCallback
    /\ UNCHANGED <<shared, client, native, stopDue>>

ClientStep ==
    \/ Drain \/ OpenCamera \/ SetRepeatingRequest \/ StoreStreaming \/ ActiveConfig
    \/ StartFails \/ UndoNative \/ StartReturnsError \/ CloseNative

CallbackStep == FrameReturns \/ DisconnectStopsHub

Next ==
    \/ StartAgain \/ Start \/ Stop \/ ClientStep
    \/ SessionStopsHub \/ SetControl
    \/ ImageAvailable \/ Disconnected \/ CallbackStep

Fairness == WF_vars(ClientStep) /\ WF_vars(CallbackStep)

Spec == Init /\ [][Next]_vars /\ Fairness

-----------------------------------------------------------------------------
(* Properties.                                                              *)

\* A callback runs over the stream it was raised for: the bridge has not freed
\* its reader, and a disconnect that stops the hub without naming a session,
\* or a frame that reads the session anew, hits no later one.
CallbackOwnsSession ==
    callback.at # "idle" =>
        /\ native.open /\ native.stream = callback.stream
        /\ hub.session = callback.stream /\ shared = callback.stream

\* Nobody is inside start or stop: a live hub has a running bridge over a
\* device that was not lost while it streamed, or the callback that will stop
\* it.  A loss reported between setRepeatingRequest and streaming = true is
\* swallowed: hub and bridge then say that they stream, and no image comes.
AtRest ==
    client = "idle" /\ hub.active =>
        /\ native.open /\ native.cb
        /\ (native.streaming /\ native.lost # "heard") \/ callback.at = "stop"

\* start and stop return: they wait for callbacks, which wait for nothing.
CallsReturn == client # "idle" ~> client = "idle"
============================================================================
