----------------------------- MODULE AvfCapture -----------------------------
(***************************************************************************)
(* The AVFoundation backend (src/src/backends/avfoundation): starts and    *)
(* stops in sequence under the lifecycle mutex, the capture session each   *)
(* start builds, the delegate it installs and the serial dispatch queue    *)
(* that calls the delegate.                                                *)
(***************************************************************************)
EXTENDS CaptureHub

CONSTANT MaxStarts    \* bound on the starts of a camera

VARIABLES hub,
          client,     \* where the client is in start or stop
          flag,       \* is_streaming
          capture,    \* the capture session built: its hub session, installed delegate,
                      \* whether it runs and whether it holds the device's configuration lock
          kept,       \* the camera holds it, and not the start that builds it
          queue,      \* the hub session of the delegate the queue is calling, 0 if none
          stray,      \* the same of callbacks on queues that were left without draining them
          stopDue     \* the session ended the hub, or a start failed: it stops the source next

vars == <<hub, client, flag, capture, kept, queue, stray, stopDue>>

TypeOK ==
    /\ hub \in Hub
    /\ client \in {"idle", "new", "run", "store", "free", "stop"}
    /\ flag \in BOOLEAN /\ kept \in BOOLEAN /\ stopDue \in BOOLEAN
    /\ capture \in [session : Nat, delegate : BOOLEAN, running : BOOLEAN, locked : BOOLEAN]
    /\ queue \in Nat /\ stray \subseteq Nat

NoCapture == [session |-> 0, delegate |-> FALSE, running |-> FALSE, locked |-> FALSE]

Init ==
    /\ hub = HubIdle
    /\ client = "idle"
    /\ flag = FALSE /\ kept = FALSE
    /\ capture = NoCapture
    /\ queue = 0 /\ stray = {}
    /\ stopDue = FALSE

-----------------------------------------------------------------------------
(* The client.                                                              *)

\* A camera that says it streams is not started again, even if its hub ended.
StartAgain ==
    /\ client = "idle" /\ flag
    /\ UNCHANGED vars

Start ==
    /\ client = "idle" /\ ~flag /\ ~stopDue
    /\ hub.session < MaxStarts
    /\ hub' = HubStart(hub)
    /\ client' = "new"
    /\ UNCHANGED <<flag, capture, kept, queue, stray, stopDue>>

\* Device, format, input and output under the configuration lock, then the
\* delegate, whose session is read from the hub, on a queue of its own.
NewCapture ==
    /\ client = "new"
    /\ capture' = [session |-> hub.session, delegate |-> TRUE, running |-> FALSE, locked |-> TRUE]
    /\ client' = "run"
    /\ UNCHANGED <<hub, flag, kept, queue, stray, stopDue>>

\* An error or an Objective-C exception before there is a session.
NewCaptureFails ==
    /\ client = "new"
    /\ hub' = HubStop(hub)
    /\ client' = "idle"
    /\ stopDue' = TRUE
    /\ UNCHANGED <<flag, capture, kept, queue, stray>>

\* startRunning; the lock that kept the format is given back.
StartRunning ==
    /\ client = "run"
    /\ capture' = [capture EXCEPT !.running = TRUE, !.locked = FALSE]
    /\ client' = "store"
    /\ UNCHANGED <<hub, flag, kept, queue, stray, stopDue>>

\* The session does not run, or runs a format nobody can name; either way the
\* hub is stopped and the session dropped.
StartRunningFails ==
    /\ client = "run"
    /\ \E running \in BOOLEAN : capture' = [capture EXCEPT !.running = running]
    /\ hub' = HubStop(hub)
    /\ client' = "free"
    /\ stopDue' = TRUE
    /\ UNCHANGED <<flag, kept, queue, stray>>

StartReturns ==
    /\ client = "store"
    /\ flag' = TRUE /\ kept' = TRUE
    /\ client' = "idle"
    /\ UNCHANGED <<hub, capture, queue, stray, stopDue>>

\* stop_stream_sync and cleanup: the session is taken out and stopped, which
\* may raise an exception; it is dropped in any case.
Stop ==
    /\ client = "idle"
    /\ hub' = HubStop(hub)
    /\ flag' = FALSE /\ kept' = FALSE
    /\ stopDue' = FALSE
    /\ client' = IF kept THEN "stop" ELSE "idle"
    /\ UNCHANGED <<capture, queue, stray>>

StopRunning ==
    /\ client = "stop"
    /\ \E running \in {FALSE, capture.running} : capture' = [capture EXCEPT !.running = running]
    /\ client' = "free"
    /\ UNCHANGED <<hub, flag, kept, queue, stray, stopDue>>

\* Broken: the drop does not wait for the callback queue.
QueueLeft == TRUE

\* exec_sync of an empty block on the serial queue.
QueueDrained == queue = 0

\* Drop of the session: it stops the hub and runs no more, then the delegate
\* is removed ...
RemoveDelegate ==
    /\ client = "free" /\ capture.delegate
    /\ hub' = HubStop(hub)
    /\ capture' = [capture EXCEPT !.running = FALSE, !.delegate = FALSE]
    /\ UNCHANGED <<client, flag, kept, queue, stray, stopDue>>

\* ... and its queue drained before delegate, lock and session are released.
FreeCapture ==
    /\ client = "free" /\ ~capture.delegate
    /\ QueueDrained
    /\ capture' = NoCapture
    /\ client' = "idle"
    /\ UNCHANGED <<hub, flag, kept, queue, stray, stopDue>>

\* An exception ends the drop where it is raised, by stopRunning or by taking
\* the delegate out: delegate, lock and session are released all the same, and
\* a callback under way on the queue goes on.
DropRaises ==
    /\ client = "free" /\ capture.delegate
    /\ hub' = HubStop(hub)
    /\ capture' = NoCapture
    /\ queue' = 0 /\ stray' = stray \cup ({queue} \ {0})
    /\ client' = "idle"
    /\ UNCHANGED <<flag, kept, stopDue>>

SessionStopsHub ==
    /\ hub.active
    /\ hub' = HubStop(hub)
    /\ stopDue' = TRUE
    /\ UNCHANGED <<client, flag, capture, kept, queue, stray>>

-----------------------------------------------------------------------------
(* The dispatch queue.                                                      *)

SampleBuffer ==
    /\ queue = 0
    /\ capture.running /\ capture.delegate
    /\ queue' = capture.session
    /\ UNCHANGED <<hub, client, flag, capture, kept, stray, stopDue>>

\* handle_sample_buffer: dropped, damaged, or published under its own session.
SampleBufferDone ==
    /\ queue # 0
    /\ queue' = 0
    /\ UNCHANGED <<hub, client, flag, capture, kept, stray, stopDue>>

\* A callback that was left behind publishes under its own session, and the
\* hub takes it or not.
StrayDone ==
    /\ \E old \in stray : stray' = stray \ {old}
    /\ UNCHANGED <<hub, client, flag, capture, kept, queue, stopDue>>

ClientStep ==
    \/ NewCapture \/ NewCaptureFails \/ StartRunning \/ StartRunningFails \/ StartReturns
    \/ StopRunning \/ RemoveDelegate \/ DropRaises \/ FreeCapture

Next ==
    \/ StartAgain \/ Start \/ Stop \/ ClientStep
    \/ SessionStopsHub
    \/ SampleBuffer \/ SampleBufferDone \/ StrayDone

Fairness == WF_vars(ClientStep) /\ WF_vars(SampleBufferDone)

Spec == Init /\ [][Next]_vars /\ Fairness

-----------------------------------------------------------------------------
(* Properties.                                                              *)

\* A delegate being called is the one of the capture session that exists, and
\* of the hub's session: the stop of the hub in the drop of an old session
\* cannot hit a new one, and nothing the delegate reads was released.  An
\* exception in the drop leaves a callback that may read what was released;
\* all that holds of it is that no live stream takes its frames.
CallbackOwnsSession ==
    /\ queue # 0 => capture.session = queue
    /\ capture # NoCapture => capture.session = hub.session
    /\ hub.active => hub.session \notin stray

\* Nobody is inside start or stop: the flag, the capture session held and the
\* one that exists agree, a live hub has it running, and the device's
\* configuration lock is back.
AtRest ==
    client = "idle" =>
        /\ flag = kept /\ kept = (capture # NoCapture)
        /\ hub.active => capture.running
        /\ ~capture.locked

CallsReturn == client # "idle" ~> client = "idle"
============================================================================
