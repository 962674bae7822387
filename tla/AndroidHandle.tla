--------------------------- MODULE AndroidHandle ---------------------------
(***************************************************************************)
(* The JNI adapter (src/camera-android/src/lib.rs): Java threads that      *)
(* start, stop, close and read one camera handle.  Session is the abstract *)
(* session of the core crate: open from its start to its close, and what   *)
(* its receivers yield is a good frame, a damaged one, or an error.        *)
(*                                                                         *)
(* Session n is the one the n-th successful start made.                    *)
(***************************************************************************)
EXTENDS Naturals, FiniteSets

CONSTANTS Threads,      \* Java threads
          NoOne,        \* no thread
          MaxSessions   \* bound on the sessions started

VARIABLES handle,    \* the registry entry and the fields of Handle but the reader
          open,      \* sessions started and not closed; at most one by the core crate
          started,   \* number of sessions started
          reader,    \* Handle.reader: its lock, its session and the pending frame
          thread     \* per thread: the call it is in

vars == <<handle, open, started, reader, thread>>

Sessions == 1..MaxSessions

Idle == [at |-> "idle", session |-> 0, native |-> TRUE, result |-> "none"]

TypeOK ==
    /\ handle \in [registered : BOOLEAN, closed : BOOLEAN, gate : Threads \cup {NoOne},
                   session : 0..MaxSessions, native : BOOLEAN]
    /\ open \in SUBSET Sessions
    /\ started \in 0..MaxSessions
    /\ reader \in [lock : Threads \cup {NoOne}, session : 0..MaxSessions,
                   pending : {"none", "good", "damaged"}]
    /\ thread \in [Threads ->
         [at : {"idle", "start", "camera", "publish", "stop", "stopping", "close", "closing",
                "closed", "lookup", "mode", "read", "reading"},
          session : 0..MaxSessions, native : BOOLEAN, result : {"none", "frame", "error"}]]

Init ==
    /\ handle = [registered |-> TRUE, closed |-> FALSE, gate |-> NoOne, session |-> 0, native |-> TRUE]
    /\ open = {} /\ started = 0
    /\ reader = [lock |-> NoOne, session |-> 0, pending |-> "none"]
    /\ thread = [t \in Threads |-> Idle]

Goto(t, at) == thread' = [thread EXCEPT ![t].at = at]

Return(t) == thread' = [thread EXCEPT ![t] = Idle]

ReturnResult(t, result) == thread' = [thread EXCEPT ![t] = [Idle EXCEPT !.result = result]]

\* handle(id): the Arc found stays valid whatever the registry does next.
Call(t, at) ==
    /\ thread[t].at = "idle" /\ handle.registered
    /\ thread' = [thread EXCEPT ![t] = [Idle EXCEPT !.at = at]]
    /\ UNCHANGED <<handle, open, started, reader>>

-----------------------------------------------------------------------------
(* start_handle.                                                            *)

\* Broken: a start that found the handle in time ignores its close.
StartLockUnchecked(t) ==
    /\ thread[t].at = "start" /\ handle.gate = NoOne
    /\ Goto(t, "camera")
    /\ handle' = [handle EXCEPT !.gate = t]
    /\ UNCHANGED <<open, started, reader>>

\* Under the lifecycle mutex the closed flag decides.
StartLock(t) ==
    /\ thread[t].at = "start" /\ handle.gate = NoOne
    /\ IF handle.closed
       THEN Return(t) /\ UNCHANGED handle
       ELSE Goto(t, "camera") /\ handle' = [handle EXCEPT !.gate = t]
    /\ UNCHANGED <<open, started, reader>>

\* Device::start: refused while a session is open, and for its own reasons.
CameraFails(t) ==
    /\ thread[t].at = "camera"
    /\ handle' = [handle EXCEPT !.gate = NoOne]
    /\ Return(t)
    /\ UNCHANGED <<open, started, reader>>

\* A session is open; the output mode is stored before the session is.
CameraStarts(t) ==
    /\ thread[t].at = "camera" /\ open = {} /\ started < MaxSessions
    /\ started' = started + 1
    /\ open' = {started'}
    /\ \E mode \in BOOLEAN : handle' = [handle EXCEPT !.native = mode]
    /\ Goto(t, "publish")
    /\ UNCHANGED reader

StoreSession(t) ==
    /\ thread[t].at = "publish"
    /\ handle' = [handle EXCEPT !.session = started, !.gate = NoOne]
    /\ Return(t)
    /\ UNCHANGED <<open, started, reader>>

-----------------------------------------------------------------------------
(* nativeStop and nativeClose.                                              *)

\* nativeClose: out of the registry and flagged before the gate is waited for.
CloseBegins(t) ==
    /\ thread[t].at = "idle" /\ handle.registered
    /\ handle' = [handle EXCEPT !.registered = FALSE, !.closed = TRUE]
    /\ thread' = [thread EXCEPT ![t] = [Idle EXCEPT !.at = "close"]]
    /\ UNCHANGED <<open, started, reader>>

\* Broken: the session is taken without waiting for a start that is under way.
TakeSessionUngated(t) ==
    /\ thread[t].at \in {"stop", "close"}
    /\ thread' = [thread EXCEPT ![t] = [Idle EXCEPT
         !.at = IF thread[t].at = "stop" THEN "stopping" ELSE "closing", !.session = handle.session]]
    /\ handle' = [handle EXCEPT !.session = 0]
    /\ UNCHANGED <<open, started, reader>>

\* Both wait for the gate and take the session out of the handle.
TakeSession(t) ==
    /\ thread[t].at \in {"stop", "close"} /\ handle.gate = NoOne
    /\ thread' = [thread EXCEPT ![t] = [Idle EXCEPT
         !.at = IF thread[t].at = "stop" THEN "stopping" ELSE "closing", !.session = handle.session]]
    /\ handle' = [handle EXCEPT !.session = 0, !.gate = t]
    /\ UNCHANGED <<open, started, reader>>

\* Session::close, if there is one; the handle is done after a close.
CloseSession(t) ==
    /\ thread[t].at \in {"stopping", "closing"}
    /\ open' = open \ {thread[t].session}
    /\ handle' = [handle EXCEPT !.gate = NoOne]
    /\ IF thread[t].at = "closing" THEN Goto(t, "closed") ELSE Return(t)
    /\ UNCHANGED <<started, reader>>

\* The core crate gives a session up: its recovery is exhausted.
SessionFails ==
    /\ open # {} /\ open' = {}
    /\ UNCHANGED <<handle, started, reader, thread>>

-----------------------------------------------------------------------------
(* next_frame_into.                                                         *)

\* The session is read, then, in a step of its own, the output mode.
ReadSession(t) ==
    /\ thread[t].at = "lookup"
    /\ IF handle.session = 0
       THEN ReturnResult(t, "error")
       ELSE thread' = [thread EXCEPT ![t] = [Idle EXCEPT !.at = "mode", !.session = handle.session]]
    /\ UNCHANGED <<handle, open, started, reader>>

ReadMode(t) ==
    /\ thread[t].at = "mode"
    /\ thread' = [thread EXCEPT ![t].at = "read", ![t].native = handle.native]
    /\ UNCHANGED <<handle, open, started, reader>>

\* The reader's mutex; a reader of another session is replaced, and its
\* pending frame with it.
LockReader(t) ==
    /\ thread[t].at = "read" /\ reader.lock = NoOne
    /\ reader' = IF reader.session = thread[t].session THEN [reader EXCEPT !.lock = t]
                 ELSE [lock |-> t, session |-> thread[t].session, pending |-> "none"]
    /\ Goto(t, "reading")
    /\ UNCHANGED <<handle, open, started>>

\* FrameReceiver::next_timeout yields a frame and it becomes the pending one.
FrameArrives(t) ==
    /\ thread[t].at = "reading" /\ reader.pending = "none"
    /\ reader.session \in open
    /\ \E frame \in {"good", "damaged"} : reader' = [reader EXCEPT !.pending = frame]
    /\ UNCHANGED <<handle, open, started, thread>>

\* It times out, or its session has ended.
NoFrame(t) ==
    /\ thread[t].at = "reading" /\ reader.pending = "none"
    /\ reader' = [reader EXCEPT !.lock = NoOne]
    /\ ReturnResult(t, "error")
    /\ UNCHANGED <<handle, open, started>>

\* Broken: the frame is taken before the buffer is found too small.
BufferSmallDrops(t) ==
    /\ thread[t].at = "reading" /\ reader.pending # "none"
    /\ reader' = [reader EXCEPT !.lock = NoOne, !.pending = "none"]
    /\ ReturnResult(t, "error")
    /\ UNCHANGED <<handle, open, started>>

\* The caller's buffer is too small for the frame: the frame stays.
BufferSmall(t) ==
    /\ thread[t].at = "reading" /\ reader.pending # "none"
    /\ reader' = [reader EXCEPT !.lock = NoOne]
    /\ ReturnResult(t, "error")
    /\ UNCHANGED <<handle, open, started>>

\* A damaged frame cannot be converted: `convert_into(...)?` leaves it pending.
ConvertFails(t) ==
    /\ thread[t].at = "reading" /\ reader.pending = "damaged" /\ ~thread[t].native
    /\ reader' = [reader EXCEPT !.lock = NoOne]
    /\ ReturnResult(t, "error")
    /\ UNCHANGED <<handle, open, started>>

\* The frame is copied, or converted and copied, and no longer pending.
Deliver(t) ==
    /\ thread[t].at = "reading"
    /\ reader.pending = "good" \/ (reader.pending = "damaged" /\ thread[t].native)
    /\ reader' = [reader EXCEPT !.lock = NoOne, !.pending = "none"]
    /\ ReturnResult(t, "frame")
    /\ UNCHANGED <<handle, open, started>>

Next ==
    \/ \E t \in Threads :
        \/ \E at \in {"start", "stop", "lookup"} : Call(t, at)
        \/ StartLock(t) \/ CameraFails(t) \/ CameraStarts(t) \/ StoreSession(t)
        \/ CloseBegins(t) \/ TakeSession(t) \/ CloseSession(t)
        \/ ReadSession(t) \/ ReadMode(t) \/ LockReader(t) \/ FrameArrives(t) \/ NoFrame(t)
        \/ BufferSmall(t) \/ ConvertFails(t) \/ Deliver(t)
    \/ SessionFails

Spec == Init /\ [][Next]_vars

-----------------------------------------------------------------------------
(* Properties.                                                              *)

\* Whatever was under way when nativeClose was called, after it returned the
\* camera has no open session of this handle and never gets one.
ClosedIsQuiet ==
    (\E t \in Threads : thread[t].at = "closed") => open = {} /\ handle.session = 0

\* No open session is stranded outside the handle, where no later call could
\* stop it: between calls of start, stop and close it is the handle's own.
NoStrandedSession ==
    handle.gate = NoOne /\ handle.registered => open \subseteq {handle.session}

\* A call that looked its session up before the reader went over to a later one.
Overtaken(t) == thread[t].at = "read" /\ thread[t].session < reader.session

\* A good frame is not lost to a call that fails, as for want of room: it
\* leaves the reader with the call that returns it, or once the handle went
\* on to a later session.  The one call that does throw it away, though its
\* session goes on, is an overtaken one, which puts the reader of the session
\* it knows in the place of the newer reader.
GoodFrameDelivered ==
    [][reader.pending = "good" /\ reader'.pending # "good" =>
         \/ \E t \in Threads : thread[t].at = "reading" /\ thread'[t].result = "frame"
         \/ reader.session \notin open /\ reader'.session > reader.session
         \/ \E t \in Threads : Overtaken(t) /\ reader'.lock = t]_vars

\* API.md:77: "One bad frame is discarded without restarting a healthy camera".
\* The call that fails to convert a frame discards it, so that the next call
\* meets another one.
BadFrameDiscarded ==
    [][\A t \in Threads : ConvertFails(t) => reader'.pending = "none"]_vars
============================================================================
