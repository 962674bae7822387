---------------------------- MODULE MCComponents ----------------------------
(***************************************************************************)
(* One instance of every component with a protocol of its own.  A behaviour *)
(* is one of the component `which` names; the others stay as they began.   *)
(* Each component's variables have its letter before their names.          *)
(***************************************************************************)
EXTENDS Naturals

CONSTANTS Threads, NoOne, MaxDepth, MaxSessions, MaxCalls, MaxStarts,
          Devices, NoError, ScanError, MaxGeneration, Threshold, Stall

VARIABLE which
VARIABLES vHub, vCaller, vState, vWorker, vQueued
VARIABLES uHub, uCaller, uHolder, uDevice, uStreaming, uContext, uCallback, uWorker,
          uFree, uChannel, uHalfBegun
VARIABLES mHub, mClient, mCancelled, mAnswer, mQueue, mWorker, mReader
VARIABLES cHub, cShared, cClient, cNative, cCallback, cStopDue
VARIABLES aHub, aClient, aFlag, aCapture, aKept, aQueue, aStray, aStopDue
VARIABLES wReality, wTask, wShown, wCancel, wOwner
VARIABLES rHub, rErrors, rOwn, rAge, rWakes, rMonitor, rThread, rStopping
VARIABLES hHandle, hOpen, hStarted, hReader, hThread

V == INSTANCE V4l2Worker WITH
    hub <- vHub, caller <- vCaller, state <- vState, worker <- vWorker,
    queued <- vQueued, Callers <- Threads, MaxStarts <- MaxSessions
U == INSTANCE UvcCapture WITH
    hub <- uHub, caller <- uCaller, holder <- uHolder, device <- uDevice,
    streaming <- uStreaming, context <- uContext, callback <- uCallback,
    worker <- uWorker, free <- uFree, channel <- uChannel, halfBegun <- uHalfBegun, Callers <- Threads
M == INSTANCE MfWorker WITH
    hub <- mHub, client <- mClient, cancelled <- mCancelled, answer <- mAnswer,
    queue <- mQueue, worker <- mWorker, reader <- mReader
C == INSTANCE Camera2Capture WITH
    hub <- cHub, shared <- cShared, client <- cClient, native <- cNative,
    callback <- cCallback, stopDue <- cStopDue
A == INSTANCE AvfCapture WITH
    hub <- aHub, client <- aClient, flag <- aFlag, capture <- aCapture,
    kept <- aKept, queue <- aQueue, stray <- aStray, stopDue <- aStopDue
W == INSTANCE DeviceWatch WITH
    reality <- wReality, task <- wTask, shown <- wShown, cancel <- wCancel,
    owner <- wOwner
R == INSTANCE RecoveryMonitor WITH
    hub <- rHub, errors <- rErrors, own <- rOwn, age <- rAge, wakes <- rWakes,
    monitor <- rMonitor, thread <- rThread, stopping <- rStopping
H == INSTANCE AndroidHandle WITH
    handle <- hHandle, open <- hOpen, started <- hStarted,
    reader <- hReader, thread <- hThread

vVars == <<vHub, vCaller, vState, vWorker, vQueued>>
uVars == <<uHub, uCaller, uHolder, uDevice, uStreaming, uContext, uCallback, uWorker, uFree, uChannel,
           uHalfBegun>>
mVars == <<mHub, mClient, mCancelled, mAnswer, mQueue, mWorker, mReader>>
cVars == <<cHub, cShared, cClient, cNative, cCallback, cStopDue>>
aVars == <<aHub, aClient, aFlag, aCapture, aKept, aQueue, aStray, aStopDue>>
wVars == <<wReality, wTask, wShown, wCancel, wOwner>>
rVars == <<rHub, rErrors, rOwn, rAge, rWakes, rMonitor, rThread, rStopping>>
hVars == <<hHandle, hOpen, hStarted, hReader, hThread>>

Components == {"v4l2", "uvc", "mf", "camera2", "avfoundation", "watch", "recovery", "handle"}

Init ==
    /\ which \in Components
    /\ V!Init /\ U!Init /\ M!Init /\ C!Init /\ A!Init /\ W!Init /\ R!Init /\ H!Init

Next ==
    /\ UNCHANGED which
    /\ IF which = "v4l2" THEN V!Next ELSE UNCHANGED vVars
    /\ IF which = "uvc" THEN U!Next ELSE UNCHANGED uVars
    /\ IF which = "mf" THEN M!Next ELSE UNCHANGED mVars
    /\ IF which = "camera2" THEN C!Next ELSE UNCHANGED cVars
    /\ IF which = "avfoundation" THEN A!Next ELSE UNCHANGED aVars
    /\ IF which = "watch" THEN W!Next ELSE UNCHANGED wVars
    /\ IF which = "recovery" THEN R!Next ELSE UNCHANGED rVars
    /\ IF which = "handle" THEN H!Next ELSE UNCHANGED hVars

vars == <<which, vVars, uVars, mVars, cVars, aVars, wVars, rVars, hVars>>

\* What each component's scheduling guarantees; none is assumed of the handle.
Fairness ==
    \/ which = "v4l2" /\ V!Fairness
    \/ which = "uvc" /\ U!Fairness
    \/ which = "mf" /\ M!Fairness
    \/ which = "camera2" /\ C!Fairness
    \/ which = "avfoundation" /\ A!Fairness
    \/ which = "watch" /\ W!Fairness
    \/ which = "recovery" /\ R!Fairness
    \/ which = "handle"

Spec == Init /\ [][Next]_vars /\ Fairness

-----------------------------------------------------------------------------
(* Properties: each joins what the components state of one question.        *)

TypeOK ==
    /\ which \in Components
    /\ V!TypeOK /\ U!TypeOK /\ M!TypeOK /\ C!TypeOK /\ A!TypeOK /\ W!TypeOK /\ R!TypeOK /\ H!TypeOK

\* Whoever works for a stream, a worker, a callback, a buffer in flight, works
\* for the stream the hub has now: the ends and frames that name no session
\* (v4l2/camera.rs:303, camera2/camera.rs:259, delegate.rs:65) hit no other,
\* and what a native callback was given outlives it.  An exception in the drop
\* of an AVFoundation session (capture.rs:484) leaves a callback behind; its
\* frames are for a session that no live stream has.
OwnSession ==
    /\ V!WorkerOwnsSession
    /\ U!ContextOutlivesCallback
    /\ M!NoStaleSample
    /\ C!CallbackOwnsSession
    /\ A!CallbackOwnsSession

\* Between the calls of a backend, what its handle, its hub and its native
\* side say of the stream agrees, after a start that failed or was given up
\* too, with two exceptions the code has: UVC's two early returns leave the hub
\* live without a stream until a stop (uvc/camera.rs:1010, 1017), and a Camera2
\* device lost before streaming = true is streamed from (bridge.cpp:331-339).
AtRest == V!AtRest /\ U!AtRest /\ M!AtRest /\ C!AtRest /\ A!AtRest

\* No capture buffer is lost or used twice on any path of the V4L2 ring and
\* of the MJPEG worker's channel.
BuffersConserved == V!RingWhole /\ U!BuffersConserved

\* Every start and stop of a backend returns, although each joins a thread,
\* drains a callback or waits for an answer; a Media Foundation stop takes
\* effect even when its caller no longer waits, and a drop joins its worker.
CallsReturn ==
    /\ V!CallsReturn /\ U!CallsReturn /\ C!CallsReturn /\ A!CallsReturn
    /\ M!StopTakesEffect /\ M!DropReturns

\* The watcher's snapshot is its last scan, device for device.
ShowsLastScan == W!ShowsLastScan

\* After a stop() that joined the task no scan runs and the snapshot is final;
\* stop() and drop end the task even while a scan hangs, and from their call on
\* nothing is published but what the task was about to publish.
WatcherStops == W!FinalAfterStop /\ W!StopEnds

\* The recovery monitor never sleeps past a reason to recover, though it is
\* woken only by the error that reaches the threshold; errors of an earlier
\* stream count for the present one at most once per source thread.
WakesMonitor == R!NoLostWake /\ R!StrayChargesBounded

\* A dead source is recovered, and a session that is closed loses its monitor,
\* be it while it sleeps, waits for the lock, retries or has reopened.
DeadSourceRecovered == R!DeadSourceRecovered

\* Starts, stops and closes of a Java handle on several threads leave no
\* session open that no later call could stop.
HandleCloses == H!ClosedIsQuiet /\ H!NoStrandedSession

\* A good frame leaves the Java reader with the call that returns it or after
\* its session, but for a call that still holds an earlier session.
GoodFrameDelivered == H!GoodFrameDelivered
=============================================================================
