------------------------- MODULE Components_proofs -------------------------
(***************************************************************************)
(* Theorems about the components MCComponents joins, for all constants:    *)
(* whatever any of them does, each keeps what it promises.  The V4L2 and  *)
(* Media Foundation backends and the recovery monitor have proof modules   *)
(* of their own; the others have their invariants here.                    *)
(***************************************************************************)
EXTENDS MCComponents, FiniteSetTheorems, TLAPS

-----------------------------------------------------------------------------
(* The components that have proof modules of their own.                     *)

VP == INSTANCE V4l2Worker_proofs WITH
    hub <- vHub, caller <- vCaller, state <- vState, worker <- vWorker,
    queued <- vQueued, Callers <- Threads, MaxStarts <- MaxSessions
MP == INSTANCE MfWorker_proofs WITH
    hub <- mHub, client <- mClient, cancelled <- mCancelled, answer <- mAnswer,
    queue <- mQueue, worker <- mWorker, reader <- mReader
RP == INSTANCE RecoveryMonitor_proofs WITH
    hub <- rHub, errors <- rErrors, own <- rOwn, age <- rAge, wakes <- rWakes,
    monitor <- rMonitor, thread <- rThread, stopping <- rStopping

\* The V4L2 backend is the one V4l2Worker_proofs speaks of.
LEMMA VSame ==
  /\ V!Init => VP!Init
  /\ [V!Next]_(V!vars) => [VP!Next]_(VP!vars)
BY DEF V!Init, V!Next, V!vars, V!HubIdle, V!Workers, V!Unborn, V!StartLock, V!StartAgain, V!Stop,
       V!SetBufferSize, V!CallerStep, V!WorkerStep, V!SessionStopsHub, V!StopLocked, V!Goto,
       V!JoinToStart, V!JoinAndReturn, V!Spawn, V!SpawnFails, V!ReplyOk, V!ReplyError, V!SetupOk,
       V!SetupFails, V!Cancelled, V!Dequeue, V!DeviceFails, V!Consume, V!ConsumeFails, V!PublishCopy,
       V!DropGuard, V!HubStop, V!Joined, V!Return, V!Unlock, V!Spawned, V!HubStart, V!Streaming,
       V!LeaveLoop, V!WorkerAt, V!Running, VP!Init, VP!Next, VP!vars, VP!HubIdle, VP!Workers,
       VP!Unborn, VP!StartLock, VP!StartAgain, VP!Stop, VP!SetBufferSize, VP!CallerStep,
       VP!WorkerStep, VP!SessionStopsHub, VP!StopLocked, VP!Goto, VP!JoinToStart, VP!JoinAndReturn,
       VP!Spawn, VP!SpawnFails, VP!ReplyOk, VP!ReplyError, VP!SetupOk, VP!SetupFails, VP!Cancelled,
       VP!Dequeue, VP!DeviceFails, VP!Consume, VP!ConsumeFails, VP!PublishCopy, VP!DropGuard,
       VP!HubStop, VP!Joined, VP!Return, VP!Unlock, VP!Spawned, VP!HubStart, VP!Streaming,
       VP!LeaveLoop, VP!WorkerAt, VP!Running

\* The recovery monitor is the one RecoveryMonitor_proofs speaks of.
LEMMA RSame ==
  /\ R!Init => RP!Init
  /\ [R!Next]_(R!vars) => [RP!Next]_(RP!vars)
BY DEF R!Init, R!Next, R!vars, R!HubIdle, R!Open, R!SourceStops, R!RequestStop, R!Publish, R!Activity,
       R!ErrorChecked, R!ErrorCharged, R!ErrorNotifies, R!MonitorStep, R!Tick, R!Started, R!HubStop,
       R!Notify, R!Subscribe, R!CheckTriggered, R!CheckQuiet, R!Woken, R!Leave, R!Lock, R!Recovered,
       R!AttemptFails, R!Retry, R!Asleep, R!HubStart, R!MonitorAt, R!Trigger, R!Remaining, RP!Init,
       RP!Next, RP!vars, RP!HubIdle, RP!Open, RP!SourceStops, RP!RequestStop, RP!Publish, RP!Activity,
       RP!ErrorChecked, RP!ErrorCharged, RP!ErrorNotifies, RP!MonitorStep, RP!Tick, RP!Started,
       RP!HubStop, RP!Notify, RP!Subscribe, RP!CheckTriggered, RP!CheckQuiet, RP!Woken, RP!Leave,
       RP!Lock, RP!Recovered, RP!AttemptFails, RP!Retry, RP!Asleep, RP!HubStart, RP!MonitorAt,
       RP!Trigger, RP!Remaining

\* The Media Foundation backend is the one MfWorker_proofs speaks of.
LEMMA MSame ==
  /\ M!Init => MP!Init
  /\ [M!Next]_(M!vars) => [MP!Next]_(MP!vars)
BY DEF M!Init, M!Next, M!vars, M!HubIdle, M!Calls, M!StartAgain, M!Start, M!StartAnswered,
       M!StartTimesOut, M!StartUndo, M!Stop, M!StopReturns, M!Drop, M!DropJoins, M!SessionStopsHub,
       M!WorkerStep, M!Deliver, M!Flushed, M!DeviceLost, M!SendCall, M!Client, M!HubStop, M!Event,
       M!TakeStart, M!StartsStream, M!StartRefused, M!StartChecked, M!StartReplied, M!TakeStop,
       M!TakeFlushed, M!TakeSample, M!TakeLastSample, M!TakeQuit, M!Native, M!Takes, M!Reply,
       M!MayStart, M!HubStart, MP!Init, MP!Next, MP!vars, MP!HubIdle, MP!Calls, MP!StartAgain,
       MP!Start, MP!StartAnswered, MP!StartTimesOut, MP!StartUndo, MP!Stop, MP!StopReturns, MP!Drop,
       MP!DropJoins, MP!SessionStopsHub, MP!WorkerStep, MP!Deliver, MP!Flushed, MP!DeviceLost,
       MP!SendCall, MP!Client, MP!HubStop, MP!Event, MP!TakeStart, MP!StartsStream, MP!StartRefused,
       MP!StartChecked, MP!StartReplied, MP!TakeStop, MP!TakeFlushed, MP!TakeSample,
       MP!TakeLastSample, MP!TakeQuit, MP!Native, MP!Takes, MP!Reply, MP!MayStart, MP!HubStart

-----------------------------------------------------------------------------
(* The AVFoundation backend.                                                *)

\* What the client has built by the place it has reached.
AvfStages ==
    /\ aClient = "idle" => aFlag = aKept /\ (aKept => aCapture.running) /\ (aHub.active => aKept)
    /\ aClient # "idle" => ~aFlag /\ ~aKept
    /\ aClient = "new" => aCapture = A!NoCapture
    /\ aClient \in {"run", "store", "stop", "free"} => aCapture # A!NoCapture
    /\ aClient = "idle" => (aKept <=> aCapture # A!NoCapture)
    /\ aClient = "store" => aCapture.running
    /\ aClient \in {"stop", "free"} => ~aHub.active
    /\ aCapture.locked => aClient \in {"run", "free"}

\* The capture session was built for the stream of the hub, and lives as long
\* as the queue calls its delegate; a callback left behind by an exception in a
\* drop is of a stream that the hub has ended.
OneCapture ==
    /\ aCapture # A!NoCapture => aCapture.session = aHub.session
    /\ aClient # "idle" /\ aClient # "stop" => aHub.session # 0
    /\ aCapture # A!NoCapture => aCapture.session # 0
    /\ aQueue # 0 => aCapture.session = aQueue
    /\ \A old \in aStray : old <= aHub.session /\ (aHub.active => old # aHub.session)

AvfInv == A!TypeOK /\ AvfStages /\ OneCapture

\* FrameHub::stop leaves the epoch as it is.
LEMMA AvfHubStopped ==
  ASSUME NEW h \in A!Hub
  PROVE  A!HubStop(h) \in A!Hub /\ A!HubStop(h).session = h.session /\ ~A!HubStop(h).active
BY DEF A!Hub, A!HubStop

\* A new camera has no capture session and has started no stream.
LEMMA AvfIdleRecords ==
  /\ A!HubIdle \in A!Hub /\ ~A!HubIdle.active
  /\ A!NoCapture \in [session : Nat, delegate : BOOLEAN, running : BOOLEAN, locked : BOOLEAN]
  /\ ~A!NoCapture.locked /\ ~A!NoCapture.running
BY DEF A!HubIdle, A!Hub, A!NoCapture

\* AVFoundationCamera::new_selected leaves the invariant true.
LEMMA AvfInit == A!Init => AvfInv
<1> SUFFICES ASSUME A!Init
             PROVE  AvfInv
  OBVIOUS
<1>1. A!TypeOK
  BY AvfIdleRecords DEF A!Init, A!TypeOK
<1>2. AvfStages
  BY AvfIdleRecords DEF A!Init, AvfStages
<1>3. OneCapture
  BY AvfIdleRecords DEF A!Init, OneCapture
<1> QED BY <1>1, <1>2, <1>3 DEF AvfInv

\* Every step of the client, the session and the dispatch queue keeps it.
LEMMA AvfStep == AvfInv /\ [A!Next]_(A!vars) => AvfInv'
<1> SUFFICES ASSUME AvfInv, [A!Next]_(A!vars)
             PROVE  AvfInv'
  OBVIOUS
<1> USE DEF AvfInv, A!TypeOK, AvfStages, OneCapture, A!NoCapture, A!Hub
<1>1. CASE A!StartAgain
  BY <1>1 DEF A!StartAgain, A!vars
<1>2. CASE A!Start
  BY <1>2 DEF A!Start, A!HubStart
<1>3. CASE A!Stop
  BY <1>3 DEF A!Stop, A!HubStop
<1>4. CASE A!NewCapture
  BY <1>4 DEF A!NewCapture
<1>5. CASE A!NewCaptureFails
  BY <1>5 DEF A!NewCaptureFails, A!HubStop
<1>6. CASE A!StartRunning
  BY <1>6 DEF A!StartRunning
<1>7. CASE A!StartRunningFails
  <2>1. PICK running \in BOOLEAN : aCapture' = [aCapture EXCEPT !.running = running]
    BY <1>7 DEF A!StartRunningFails
  <2>2. QED
    BY <1>7, <2>1, AvfHubStopped DEF A!StartRunningFails
<1>8. CASE A!StartReturns
  BY <1>8 DEF A!StartReturns
<1>9. CASE A!StopRunning
  <2>1. PICK running \in {FALSE, aCapture.running} : aCapture' = [aCapture EXCEPT !.running = running]
    BY <1>9 DEF A!StopRunning
  <2>2. running \in BOOLEAN
    BY <2>1
  <2>3. QED
    BY <1>9, <2>1, <2>2 DEF A!StopRunning
<1>10. CASE A!RemoveDelegate
  BY <1>10, AvfHubStopped DEF A!RemoveDelegate
<1>11. CASE A!FreeCapture
  BY <1>11 DEF A!FreeCapture, A!QueueDrained
<1>12. CASE A!SessionStopsHub
  BY <1>12, AvfHubStopped DEF A!SessionStopsHub
<1>13. CASE A!SampleBuffer
  BY <1>13 DEF A!SampleBuffer
<1>14. CASE A!SampleBufferDone
  BY <1>14 DEF A!SampleBufferDone
<1>15. CASE UNCHANGED A!vars
  BY <1>15 DEF A!vars
<1>16. CASE A!DropRaises
  <2>1. aStray' = aStray \cup ({aQueue} \ {0}) /\ aQueue' = 0 /\ aCapture' = A!NoCapture
    BY <1>16 DEF A!DropRaises
  <2>2. aQueue # 0 => aQueue = aHub.session
    OBVIOUS
  <2> QED BY <1>16, <2>1, <2>2, AvfHubStopped, AvfIdleRecords DEF A!DropRaises
<1>17. CASE A!StrayDone
  <2>1. aStray' \subseteq aStray
    BY <1>17 DEF A!StrayDone
  <2> QED BY <1>17, <2>1 DEF A!StrayDone
<1>18. QED
  BY <1>1, <1>2, <1>3, <1>4, <1>5, <1>6, <1>7, <1>8, <1>9, <1>10, <1>11, <1>12, <1>13, <1>14,
     <1>15, <1>16, <1>17
  DEF A!Next, A!ClientStep

\* What the invariant says of the properties.
LEMMA AvfPromises == AvfInv => A!TypeOK /\ A!CallbackOwnsSession /\ A!AtRest
BY DEF AvfInv, A!TypeOK, AvfStages, OneCapture, A!CallbackOwnsSession, A!AtRest, A!NoCapture

-----------------------------------------------------------------------------
(* The device watcher.                                                      *)

\* What the arguments ask of the constants: a scan finds finitely many devices.
WatchParameters == MaxGeneration \in Nat /\ IsFiniteSet(Devices)

\* Before there is a watcher nothing is shown, no error either; between scans
\* the snapshot is the last scan; a stop that joined the task left none.
WatchStages ==
    /\ wOwner.at = "none" => wTask.at = "unborn" /\ wShown.error = NoError /\ ~wCancel
    /\ wOwner.at \notin {"none"} => wTask.at # "unborn"
    /\ W!ShowsLastScan
    /\ wOwner.at = "stopped" => wTask.at = "ended"
    /\ wTask.at \in {"compare", "publish"} => wShown.generation < MaxGeneration

WatchInv == W!TypeOK /\ WatchStages

\* watch_devices has not been called.
LEMMA WatchInit == WatchParameters /\ W!Init => WatchInv
<1> SUFFICES ASSUME WatchParameters, W!Init PROVE WatchInv
  OBVIOUS
<1>1. W!Nothing \in W!Scan /\ 0 \in 0..MaxGeneration
  BY DEF WatchParameters, W!Nothing, W!Scan
<1>2. W!TypeOK
  BY <1>1 DEF W!Init, W!TypeOK
<1>3. WatchStages
  BY DEF W!Init, WatchStages, W!ShowsLastScan
<1> QED BY <1>2, <1>3 DEF WatchInv

\* Every step of the watcher keeps its types.
LEMMA WatchTypes ==
  ASSUME WatchParameters, W!TypeOK, WatchStages, W!Next
  PROVE  W!TypeOK'
<1> USE DEF W!TypeOK
<1>1. CASE W!RealityChanges
  BY <1>1 DEF W!RealityChanges
<1>2. CASE W!WatchDevices
  BY <1>2 DEF W!WatchDevices, W!Scan
<1>3. CASE W!Cancelled \/ W!Wake
  BY <1>3 DEF W!Cancelled, W!Wake, W!TaskAt
<1>4. CASE W!Scanned
  BY <1>4 DEF W!Scanned
<1>8. CASE W!Compare
  BY <1>8 DEF W!Compare, W!TaskAt
<1>5. CASE W!Publish
  <2>1. wTask' \in [at : {"unborn", "sleep", "scan", "compare", "publish", "ended"}, found : W!Scan]
    BY <1>5 DEF W!Publish, W!TaskAt
  <2>2. wShown' = wShown \/ (wShown' = W!Candidate /\ wShown.generation < MaxGeneration)
    BY <1>5 DEF W!Publish, WatchStages
  <2>3. wShown.generation < MaxGeneration =>
          W!Candidate \in [generation : 0..MaxGeneration, devices : SUBSET Devices,
                           error : {NoError, ScanError}]
    BY DEF W!Candidate, W!Scan, WatchParameters
  <2> QED BY <1>5, <2>1, <2>2, <2>3 DEF W!Publish
<1>6. CASE W!BeginChanged \/ W!Changed \/ W!AbandonChanged
  BY <1>6 DEF W!BeginChanged, W!Changed, W!AbandonChanged, W!OwnerAt
<1>7. CASE W!StopBegins \/ W!AbandonStop \/ W!StopAgain \/ W!StopReturns \/ W!DropWatcher
  BY <1>7 DEF W!StopBegins, W!AbandonStop, W!StopAgain, W!StopReturns, W!DropWatcher, W!OwnerAt
<1> QED BY <1>1, <1>2, <1>3, <1>4, <1>5, <1>6, <1>7, <1>8 DEF W!Next

\* The comparison leaves what the scan found in the snapshot: as many devices,
\* all of them shown, are the devices shown.
LEMMA CompareShows ==
  ASSUME WatchParameters, W!TypeOK, W!Publish
  PROVE  /\ wShown'.error = wTask.found.error
         /\ wShown'.error = NoError => wShown'.devices = wTask.found.devices
<1>1. /\ W!Candidate.error = wTask.found.error
      /\ wTask.found.error = NoError => W!Candidate.devices = wTask.found.devices
  BY DEF W!Candidate
<1>2. CASE W!Same(W!Candidate)
  <2>1. wShown' = wShown /\ wShown.error = wTask.found.error
    BY <1>1, <1>2 DEF W!Publish, W!Same
  <2>2. ASSUME wTask.found.error = NoError PROVE wShown.devices = wTask.found.devices
    <3>1. /\ wTask.found.devices \subseteq wShown.devices
          /\ Cardinality(wTask.found.devices) = Cardinality(wShown.devices)
      <4>1. W!Candidate.devices = wTask.found.devices
        BY <1>1, <2>2
      <4>2. /\ W!Candidate.devices \subseteq wShown.devices
            /\ Cardinality(W!Candidate.devices) = Cardinality(wShown.devices)
        BY <1>2 DEF W!Same, W!Cardinality, Cardinality
      <4> QED BY <4>1, <4>2
    <3>2. IsFiniteSet(wShown.devices)
      BY FS_Subset DEF WatchParameters, W!TypeOK
    <3> QED BY <3>1, <3>2, FS_Subset
  <2> QED BY <2>1, <2>2
<1>3. CASE ~W!Same(W!Candidate)
  <2>1. wShown' = W!Candidate
    BY <1>3 DEF W!Publish
  <2> QED BY <1>1, <2>1
<1> QED BY <1>2, <1>3

\* Every step of the watcher keeps its stages.
LEMMA WatchStep ==
  ASSUME WatchParameters, WatchInv, [W!Next]_(W!vars)
  PROVE  WatchInv'
<1> USE DEF WatchInv, WatchStages, W!ShowsLastScan
<1>0. CASE UNCHANGED W!vars
  BY <1>0 DEF W!vars, W!TypeOK
<1> SUFFICES ASSUME W!Next PROVE WatchStages'
  BY <1>0, WatchTypes
<1>1. CASE W!RealityChanges
  BY <1>1 DEF W!RealityChanges
<1>2. CASE W!WatchDevices
  BY <1>2 DEF W!WatchDevices, W!TypeOK
<1>3. CASE W!Cancelled \/ W!Wake
  BY <1>3 DEF W!Cancelled, W!Wake, W!TaskAt, W!TypeOK
<1>4. CASE W!Scanned
  BY <1>4 DEF W!Scanned, W!TypeOK
<1>8. CASE W!Compare
  BY <1>8 DEF W!Compare, W!TaskAt, W!TypeOK
<1>5. CASE W!Publish
  <2>1. /\ wTask.at = "publish" /\ UNCHANGED <<wOwner, wCancel>>
        /\ wTask' = [wTask EXCEPT !.at = "sleep"]
    BY <1>5 DEF W!Publish, W!TaskAt
  <2>2. wTask'.found = wTask.found /\ wTask'.at = "sleep"
    BY <2>1 DEF W!TypeOK
  <2>3. wOwner.at \notin {"none", "stopped"}
    BY <2>1
  <2> QED BY <1>5, <2>1, <2>2, <2>3, CompareShows
<1>6. CASE W!BeginChanged \/ W!Changed \/ W!AbandonChanged
  BY <1>6 DEF W!BeginChanged, W!Changed, W!AbandonChanged, W!OwnerAt, W!TypeOK
<1>7. CASE W!StopBegins \/ W!AbandonStop \/ W!StopAgain \/ W!StopReturns \/ W!DropWatcher
  BY <1>7 DEF W!StopBegins, W!AbandonStop, W!StopAgain, W!StopReturns, W!DropWatcher, W!OwnerAt, W!TypeOK
<1> QED BY <1>1, <1>2, <1>3, <1>4, <1>5, <1>6, <1>7, <1>8 DEF W!Next

\* What FinalAfterStop says of a step.
WatchQuiets ==
    /\ wOwner.at = "stopped" => UNCHANGED <<wShown, wTask>>
    /\ wCancel /\ wShown' # wShown => wTask.at = "publish"
    /\ wCancel /\ wTask'.at # wTask.at => wTask'.at \in {"ended", "sleep"}

\* A watcher whose task was joined moves neither its snapshot nor its task, and
\* from the first stop on the task does no more than end what it had weighed.
LEMMA WatchFinal ==
  ASSUME WatchInv, [W!Next]_(W!vars)
  PROVE  [WatchQuiets]_(W!vars)
<1> SUFFICES ASSUME W!Next PROVE WatchQuiets
  OBVIOUS
<1> USE DEF WatchInv, WatchStages, WatchQuiets, W!TypeOK, W!TaskAt
<1>1. CASE W!RealityChanges
  BY <1>1 DEF W!RealityChanges
<1>2. CASE W!WatchDevices
  BY <1>2 DEF W!WatchDevices
<1>3. CASE W!Cancelled \/ W!Wake \/ W!Scanned
  BY <1>3 DEF W!Cancelled, W!Wake, W!Scanned
<1>4. CASE W!Compare \/ W!Publish
  BY <1>4 DEF W!Compare, W!Publish
<1>5. CASE W!BeginChanged \/ W!Changed \/ W!AbandonChanged
  BY <1>5 DEF W!BeginChanged, W!Changed, W!AbandonChanged
<1>6. CASE W!StopBegins \/ W!AbandonStop \/ W!StopAgain \/ W!StopReturns \/ W!DropWatcher
  BY <1>6 DEF W!StopBegins, W!AbandonStop, W!StopAgain, W!StopReturns, W!DropWatcher
<1> QED BY <1>1, <1>2, <1>3, <1>4, <1>5, <1>6 DEF W!Next
-----------------------------------------------------------------------------
(* The Java handle.                                                         *)

HandleParameters == MaxSessions \in Nat /\ NoOne \notin Threads

\* A call between the lock of the lifecycle mutex and its release.
InGate(t) == hThread[t].at \in {"camera", "publish", "stopping", "closing"}

Gated == \A t \in Threads : InGate(t) => hHandle.gate = t

\* An open session is the handle's, or in the hands of the call in the gate:
\* of the start that opened it, or of the stop or close that took it.
SessionHeld ==
    /\ \A t \in Threads :
        /\ hThread[t].at = "publish" => hOpen \subseteq {hStarted}
        /\ hThread[t].at \in {"stopping", "closing"} => hOpen \subseteq {hThread[t].session}
    /\ (\A t \in Threads : hThread[t].at \notin {"publish", "stopping", "closing"}) =>
         hOpen \subseteq {hHandle.session}

\* A close flags the handle before it takes the gate, so once it has the gate
\* no start is under way and none begins: the handle gets no session again.
CloseIsFinal ==
    /\ hHandle.registered <=> ~hHandle.closed
    /\ \A t \in Threads :
        /\ hThread[t].at \in {"close", "closing", "closed"} => hHandle.closed
        /\ hThread[t].at \in {"closing", "closed"} =>
             /\ hHandle.session = 0
             /\ \A u \in Threads : hThread[u].at \notin {"camera", "publish"}
        /\ hThread[t].at = "closed" => hOpen = {}

HandleInv == H!TypeOK /\ Gated /\ SessionHeld /\ CloseIsFinal

\* nativeCreate: a handle without a session.
LEMMA HandleInit == HandleParameters /\ H!Init => HandleInv
<1> SUFFICES ASSUME HandleParameters, H!Init PROVE HandleInv
  OBVIOUS
<1>1. H!TypeOK
  BY DEF HandleParameters, H!Init, H!TypeOK, H!Idle, H!Sessions
<1>2. Gated /\ SessionHeld /\ CloseIsFinal
  BY DEF H!Init, H!Idle, Gated, InGate, SessionHeld, CloseIsFinal
<1> QED BY <1>1, <1>2 DEF HandleInv

\* The record of a call, and the places of a call that is in no critical section.
CallSet ==
    [at : {"idle", "start", "camera", "publish", "stop", "stopping", "close", "closing",
           "closed", "lookup", "mode", "read", "reading"},
     session : 0..MaxSessions, native : BOOLEAN, result : {"none", "frame", "error"}]

Outside == {"idle", "start", "stop", "lookup", "mode", "read", "reading"}

\* The records the actions write are records of a call.
LEMMA CallRecords ==
  ASSUME HandleParameters, H!TypeOK
  PROVE  /\ H!Idle \in CallSet /\ H!Idle.at = "idle"
         /\ \A r \in {"frame", "error"} :
              [H!Idle EXCEPT !.result = r] \in CallSet /\ [H!Idle EXCEPT !.result = r].at = "idle"
         /\ \A at \in Outside \cup {"close"} :
              [H!Idle EXCEPT !.at = at] \in CallSet /\ [H!Idle EXCEPT !.at = at].at = at
         /\ \A at \in {"mode", "stopping", "closing"}, n \in 0..MaxSessions :
              /\ [H!Idle EXCEPT !.at = at, !.session = n] \in CallSet
              /\ [H!Idle EXCEPT !.at = at, !.session = n].at = at
         /\ \A t \in Threads, at \in {"camera", "publish", "closed", "reading"} :
              [hThread[t] EXCEPT !.at = at] \in CallSet /\ [hThread[t] EXCEPT !.at = at].at = at
         /\ \A t \in Threads, m \in BOOLEAN :
              /\ [hThread[t] EXCEPT !.at = "read", !.native = m] \in CallSet
              /\ [hThread[t] EXCEPT !.at = "read", !.native = m].at = "read"
<1>1. 0 \in 0..MaxSessions
  BY DEF HandleParameters
<1>2. H!Idle \in CallSet
  BY <1>1 DEF H!Idle, CallSet
<1>3. \A t \in Threads : hThread[t] \in CallSet
  BY DEF H!TypeOK, CallSet
<1>4. \A c \in CallSet, at \in Outside \cup {"camera", "publish", "closed", "close"} :
        [c EXCEPT !.at = at] \in CallSet /\ [c EXCEPT !.at = at].at = at
  BY DEF CallSet, Outside
<1>5. \A c \in CallSet, m \in BOOLEAN :
        [c EXCEPT !.at = "read", !.native = m] \in CallSet /\ [c EXCEPT !.at = "read", !.native = m].at = "read"
  BY DEF CallSet
<1>6. \A r \in {"frame", "error"} :
        [H!Idle EXCEPT !.result = r] \in CallSet /\ [H!Idle EXCEPT !.result = r].at = "idle"
  BY <1>1 DEF H!Idle, CallSet
<1>7. \A at \in {"mode", "stopping", "closing"}, n \in 0..MaxSessions :
        /\ [H!Idle EXCEPT !.at = at, !.session = n] \in CallSet
        /\ [H!Idle EXCEPT !.at = at, !.session = n].at = at
  BY DEF H!Idle, CallSet
<1>8. H!Idle.at = "idle"
  BY DEF H!Idle
<1>9. \A at \in Outside \cup {"close"} :
        [H!Idle EXCEPT !.at = at] \in CallSet /\ [H!Idle EXCEPT !.at = at].at = at
  BY <1>2, <1>4
<1>10. \A t \in Threads, at \in {"camera", "publish", "closed", "reading"} :
         [hThread[t] EXCEPT !.at = at] \in CallSet /\ [hThread[t] EXCEPT !.at = at].at = at
  BY <1>3, <1>4 DEF Outside
<1>11. \A t \in Threads, m \in BOOLEAN :
         /\ [hThread[t] EXCEPT !.at = "read", !.native = m] \in CallSet
         /\ [hThread[t] EXCEPT !.at = "read", !.native = m].at = "read"
  BY <1>3, <1>5
<1> HIDE DEF CallSet
<1> QED BY <1>2, <1>6, <1>7, <1>8, <1>9, <1>10, <1>11

\* A step changes the record of one call.
LEMMA CallMoves ==
  ASSUME H!TypeOK, NEW t \in Threads, NEW r \in CallSet, hThread' = [hThread EXCEPT ![t] = r]
  PROVE  /\ hThread' \in [Threads -> CallSet] /\ hThread'[t] = r
         /\ \A u \in Threads : u # t => hThread'[u] = hThread[u]
<1>1. hThread \in [Threads -> CallSet]
  BY DEF H!TypeOK, CallSet
<1> QED BY <1>1

\* The calls outside of the critical sections stay outside.
LEMMA OutsideMoves ==
  ASSUME HandleParameters, H!TypeOK, NEW t \in Threads,
         \/ \E at \in {"start", "stop", "lookup"} : H!Call(t, at)
         \/ H!ReadSession(t) \/ H!ReadMode(t) \/ H!LockReader(t) \/ H!FrameArrives(t)
         \/ H!NoFrame(t) \/ H!BufferSmall(t) \/ H!ConvertFails(t) \/ H!Deliver(t)
  PROVE  /\ hThread[t].at \in {"idle", "lookup", "mode", "read", "reading"}
         /\ UNCHANGED <<hHandle, hOpen, hStarted>>
         /\ hReader' \in [lock : Threads \cup {NoOne}, session : 0..MaxSessions,
                          pending : {"none", "good", "damaged"}]
         /\ hThread' \in [Threads -> CallSet] /\ hThread'[t].at \in Outside
         /\ \A u \in Threads : u # t => hThread'[u] = hThread[u]
<1>0. /\ hHandle \in [registered : BOOLEAN, closed : BOOLEAN, gate : Threads \cup {NoOne},
                      session : 0..MaxSessions, native : BOOLEAN]
      /\ hReader \in [lock : Threads \cup {NoOne}, session : 0..MaxSessions,
                      pending : {"none", "good", "damaged"}]
      /\ hThread \in [Threads -> CallSet] /\ hThread[t] \in CallSet
  BY DEF H!TypeOK, CallSet
<1> DEFINE Moved == \E r \in CallSet : hThread' = [hThread EXCEPT ![t] = r] /\ r.at \in Outside
<1>1. CASE \E at \in {"start", "stop", "lookup"} : H!Call(t, at)
  <2>1. PICK at \in {"start", "stop", "lookup"} : H!Call(t, at)
    BY <1>1
  <2>2. at \in Outside
    BY DEF Outside
  <2>3. [H!Idle EXCEPT !.at = at] \in CallSet /\ [H!Idle EXCEPT !.at = at].at = at
    BY <2>2, CallRecords
  <2>4. hThread' = [hThread EXCEPT ![t] = [H!Idle EXCEPT !.at = at]]
    BY <2>1 DEF H!Call
  <2>5. Moved
    BY <2>2, <2>3, <2>4
  <2> QED BY <1>0, <2>1, <2>5, CallMoves DEF H!Call
<1>2. CASE H!ReadSession(t)
  <2>1. hHandle.session \in 0..MaxSessions
    BY <1>0
  <2>2. \/ hThread' = [hThread EXCEPT ![t] = [H!Idle EXCEPT !.result = "error"]]
        \/ hThread' = [hThread EXCEPT ![t] = [H!Idle EXCEPT !.at = "mode", !.session = hHandle.session]]
    BY <1>2 DEF H!ReadSession, H!ReturnResult
  <2>3. /\ [H!Idle EXCEPT !.result = "error"] \in CallSet
        /\ [H!Idle EXCEPT !.result = "error"].at \in Outside
        /\ [H!Idle EXCEPT !.at = "mode", !.session = hHandle.session] \in CallSet
        /\ [H!Idle EXCEPT !.at = "mode", !.session = hHandle.session].at \in Outside
    BY <2>1, CallRecords DEF Outside
  <2>4. Moved
    BY <2>2, <2>3
  <2> QED BY <1>0, <1>2, <2>4, CallMoves DEF H!ReadSession
<1>3. CASE H!ReadMode(t)
  <2>1. hHandle.native \in BOOLEAN
    BY <1>0
  <2>2. hThread' = [hThread EXCEPT ![t] = [hThread[t] EXCEPT !.at = "read", !.native = hHandle.native]]
    BY <1>0, <1>3 DEF H!ReadMode
  <2>4. /\ [hThread[t] EXCEPT !.at = "read", !.native = hHandle.native] \in CallSet
        /\ [hThread[t] EXCEPT !.at = "read", !.native = hHandle.native].at \in Outside
    <3>1. "read" \in Outside
      BY DEF Outside
    <3>2. /\ [hThread[t] EXCEPT !.at = "read", !.native = hHandle.native] \in CallSet
          /\ [hThread[t] EXCEPT !.at = "read", !.native = hHandle.native].at = "read"
      BY <2>1, CallRecords
    <3> QED BY <3>1, <3>2
  <2>3. Moved
    BY <2>2, <2>4
  <2> QED BY <1>0, <1>3, <2>3, CallMoves DEF H!ReadMode
<1>4. CASE H!LockReader(t)
  <2>3. hThread' = [hThread EXCEPT ![t] = [hThread[t] EXCEPT !.at = "reading"]]
    BY <1>0, <1>4 DEF H!LockReader, H!Goto
  <2>4. /\ [hThread[t] EXCEPT !.at = "reading"] \in CallSet
        /\ [hThread[t] EXCEPT !.at = "reading"].at \in Outside
    BY CallRecords DEF Outside
  <2>1. Moved
    BY <2>3, <2>4
  <2>2. hThread[t].session \in 0..MaxSessions
    BY <1>0 DEF CallSet
  <2> QED BY <1>0, <1>4, <2>1, <2>2, CallMoves DEF H!LockReader
<1>5. CASE H!FrameArrives(t)
  BY <1>0, <1>5 DEF H!FrameArrives, Outside
<1>6. CASE H!NoFrame(t) \/ H!BufferSmall(t) \/ H!ConvertFails(t) \/ H!Deliver(t)
  <2>1. Moved
    BY <1>6, CallRecords DEF H!NoFrame, H!BufferSmall, H!ConvertFails, H!Deliver, H!ReturnResult, Outside
  <2>2. /\ hThread[t].at = "reading" /\ UNCHANGED <<hHandle, hOpen, hStarted>>
        /\ hReader' = [hReader EXCEPT !.lock = NoOne] \/ hReader' = [hReader EXCEPT !.lock = NoOne, !.pending = "none"]
    BY <1>6 DEF H!NoFrame, H!BufferSmall, H!ConvertFails, H!Deliver
  <2>3. /\ hThread' \in [Threads -> CallSet] /\ hThread'[t].at \in Outside
        /\ \A u \in Threads : u # t => hThread'[u] = hThread[u]
    BY <2>1, CallMoves
  <2>4. hReader' \in [lock : Threads \cup {NoOne}, session : 0..MaxSessions,
                      pending : {"none", "good", "damaged"}]
    BY <1>0, <2>2
  <2> QED BY <2>2, <2>3, <2>4
<1> QED BY <1>1, <1>2, <1>3, <1>4, <1>5, <1>6

\* Every step of the adapter keeps its types.
LEMMA HandleTypes ==
  ASSUME HandleParameters, H!TypeOK, H!Next
  PROVE  H!TypeOK'
<1>0. /\ 0 \in 0..MaxSessions
      /\ hHandle \in [registered : BOOLEAN, closed : BOOLEAN, gate : Threads \cup {NoOne},
                      session : 0..MaxSessions, native : BOOLEAN]
      /\ hOpen \in SUBSET H!Sessions /\ hStarted \in 0..MaxSessions
      /\ hThread \in [Threads -> CallSet]
  BY DEF H!TypeOK, CallSet, HandleParameters
<1>a. ASSUME NEW t \in Threads, \E r \in CallSet : hThread' = [hThread EXCEPT ![t] = r],
             hHandle' \in [registered : BOOLEAN, closed : BOOLEAN, gate : Threads \cup {NoOne},
                           session : 0..MaxSessions, native : BOOLEAN],
             hOpen' \in SUBSET H!Sessions, hStarted' \in 0..MaxSessions, UNCHANGED hReader
      PROVE  H!TypeOK'
  <2>1. hThread' \in [Threads -> CallSet]
    BY <1>a, CallMoves
  <2> QED BY <1>a, <2>1 DEF H!TypeOK, CallSet
<1>1. ASSUME NEW t \in Threads,
             \/ \E at \in {"start", "stop", "lookup"} : H!Call(t, at)
             \/ H!ReadSession(t) \/ H!ReadMode(t) \/ H!LockReader(t) \/ H!FrameArrives(t)
             \/ H!NoFrame(t) \/ H!BufferSmall(t) \/ H!ConvertFails(t) \/ H!Deliver(t)
      PROVE  H!TypeOK'
  BY <1>0, <1>1, OutsideMoves DEF H!TypeOK, CallSet
<1>2. ASSUME NEW t \in Threads, H!StartLock(t) \/ H!CameraFails(t) PROVE H!TypeOK'
  <2>1. \E r \in CallSet : hThread' = [hThread EXCEPT ![t] = r]
    <3> DEFINE r == [hThread[t] EXCEPT !.at = "camera"]
    <3>1. hThread' = [hThread EXCEPT ![t] = H!Idle] \/ hThread' = [hThread EXCEPT ![t] = r]
      BY <1>0, <1>2 DEF H!StartLock, H!CameraFails, H!Goto, H!Return
    <3>2. H!Idle \in CallSet /\ r \in CallSet
      BY CallRecords
    <3> HIDE DEF r
    <3> QED BY <3>1, <3>2
  <2> QED BY <1>a, <1>0, <1>2, <2>1 DEF H!StartLock, H!CameraFails
<1>3. ASSUME NEW t \in Threads, H!CameraStarts(t) PROVE H!TypeOK'
  <2>1. \E r \in CallSet : hThread' = [hThread EXCEPT ![t] = r]
    BY <1>3, CallRecords DEF H!CameraStarts, H!Goto
  <2>2. hStarted' \in 0..MaxSessions /\ hStarted' \in H!Sessions
    BY <1>0, <1>3 DEF H!CameraStarts, HandleParameters, H!Sessions
  <2>3. hHandle' \in [registered : BOOLEAN, closed : BOOLEAN, gate : Threads \cup {NoOne},
                      session : 0..MaxSessions, native : BOOLEAN]
    BY <1>0, <1>3 DEF H!CameraStarts
  <2> QED BY <1>a, <1>3, <2>1, <2>2, <2>3 DEF H!CameraStarts
<1>4. ASSUME NEW t \in Threads, H!StoreSession(t) PROVE H!TypeOK'
  <2>1. \E r \in CallSet : hThread' = [hThread EXCEPT ![t] = r]
    BY <1>4, CallRecords DEF H!StoreSession, H!Return
  <2> QED BY <1>a, <1>0, <1>4, <2>1 DEF H!StoreSession
<1>5. ASSUME NEW t \in Threads, H!CloseBegins(t) PROVE H!TypeOK'
  <2>1. \E r \in CallSet : hThread' = [hThread EXCEPT ![t] = r]
    BY <1>5, CallRecords DEF H!CloseBegins, Outside
  <2> QED BY <1>a, <1>0, <1>5, <2>1 DEF H!CloseBegins
<1>6. ASSUME NEW t \in Threads, H!TakeSession(t) PROVE H!TypeOK'
  <2>1. hHandle.session \in 0..MaxSessions
    BY <1>0
  <2>2. \E r \in CallSet : hThread' = [hThread EXCEPT ![t] = r]
    BY <1>6, <2>1, CallRecords DEF H!TakeSession
  <2> QED BY <1>a, <1>0, <1>6, <2>2 DEF H!TakeSession
<1>7. ASSUME NEW t \in Threads, H!CloseSession(t) PROVE H!TypeOK'
  <2>1. \E r \in CallSet : hThread' = [hThread EXCEPT ![t] = r]
    <3> DEFINE r == [hThread[t] EXCEPT !.at = "closed"]
    <3>1. hThread' = [hThread EXCEPT ![t] = H!Idle] \/ hThread' = [hThread EXCEPT ![t] = r]
      BY <1>0, <1>7 DEF H!CloseSession, H!Goto, H!Return
    <3>2. H!Idle \in CallSet /\ r \in CallSet
      BY CallRecords
    <3> HIDE DEF r
    <3> QED BY <3>1, <3>2
  <2> QED BY <1>a, <1>0, <1>7, <2>1 DEF H!CloseSession
<1>8. CASE H!SessionFails
  BY <1>8 DEF H!SessionFails, H!TypeOK
<1> QED BY <1>1, <1>2, <1>3, <1>4, <1>5, <1>6, <1>7, <1>8 DEF H!Next

\* A step that moves one call between places outside of start's and stop's
\* critical section leaves the handle and the sessions to whom they belong.
LEMMA HandleOutside ==
  ASSUME H!TypeOK, Gated, SessionHeld, CloseIsFinal, NEW t \in Threads,
         hThread[t].at \in {"idle", "lookup", "mode", "read", "reading", "start"},
         hThread'[t].at \in {"idle", "start", "stop", "lookup", "mode", "read", "reading"},
         \A u \in Threads : u # t => hThread'[u] = hThread[u],
         UNCHANGED <<hHandle, hOpen, hStarted>>
  PROVE  Gated' /\ SessionHeld' /\ CloseIsFinal'
<1>1. \A u \in Threads : hThread'[u].at # hThread[u].at =>
        /\ hThread'[u].at \in {"idle", "start", "stop", "lookup", "mode", "read", "reading"}
        /\ hThread[u].at \in {"idle", "lookup", "mode", "read", "reading", "start"}
  OBVIOUS
<1>2. Gated'
  BY <1>1 DEF Gated, InGate
<1>3. SessionHeld'
  <2>1. \A u \in Threads : hThread'[u].at \in {"publish", "stopping", "closing"} =>
          hThread'[u] = hThread[u]
    OBVIOUS
  <2>2. \A u \in Threads : hThread[u].at \in {"publish", "stopping", "closing"} =>
          hThread'[u] = hThread[u]
    OBVIOUS
  <2> QED BY <2>1, <2>2 DEF SessionHeld
<1>4. CloseIsFinal'
  BY <1>1 DEF CloseIsFinal
<1> QED BY <1>2, <1>3, <1>4

\* Every call of the handle keeps its session in one pair of hands.
LEMMA HandleStep ==
  ASSUME HandleParameters, HandleInv, [H!Next]_(H!vars)
  PROVE  HandleInv'
<1> USE DEF HandleInv
<1>0. CASE UNCHANGED H!vars
  BY <1>0 DEF H!vars, H!TypeOK, Gated, InGate, SessionHeld, CloseIsFinal
<1> SUFFICES ASSUME H!Next PROVE Gated' /\ SessionHeld' /\ CloseIsFinal'
  BY <1>0, HandleTypes
<1> DEFINE Kept == Gated' /\ SessionHeld' /\ CloseIsFinal'
<1>a. \A t, u \in Threads : InGate(t) /\ InGate(u) => t = u
  BY DEF Gated
<1>b. hHandle.gate = NoOne => \A t \in Threads : ~InGate(t)
  BY DEF Gated, HandleParameters
<1>t. /\ hThread \in [Threads ->
           [at : {"idle", "start", "camera", "publish", "stop", "stopping", "close", "closing",
                  "closed", "lookup", "mode", "read", "reading"},
            session : 0..MaxSessions, native : BOOLEAN, result : {"none", "frame", "error"}]]
      /\ hHandle \in [registered : BOOLEAN, closed : BOOLEAN, gate : Threads \cup {NoOne},
                      session : 0..MaxSessions, native : BOOLEAN]
      /\ hOpen \subseteq H!Sessions /\ 0 \notin H!Sessions
  BY DEF H!TypeOK, H!Sessions
<1>1. ASSUME NEW t \in Threads,
             \/ \E at \in {"start", "stop", "lookup"} : H!Call(t, at)
             \/ H!ReadSession(t) \/ H!ReadMode(t) \/ H!LockReader(t) \/ H!FrameArrives(t)
             \/ H!NoFrame(t) \/ H!BufferSmall(t) \/ H!ConvertFails(t) \/ H!Deliver(t)
      PROVE  Kept
  <2>1. /\ hThread[t].at \in {"idle", "lookup", "mode", "read", "reading", "start"}
        /\ hThread'[t].at \in {"idle", "start", "stop", "lookup", "mode", "read", "reading"}
        /\ \A u \in Threads : u # t => hThread'[u] = hThread[u]
        /\ UNCHANGED <<hHandle, hOpen, hStarted>>
    BY <1>1, OutsideMoves DEF Outside
  <2> QED BY <2>1, HandleOutside
<1>2. ASSUME NEW t \in Threads, H!StartLock(t) PROVE Kept
  <2>1. CASE hHandle.closed
    <3>1. /\ hThread[t].at = "start" /\ hThread'[t].at = "idle"
          /\ \A u \in Threads : u # t => hThread'[u] = hThread[u]
          /\ UNCHANGED <<hHandle, hOpen, hStarted>>
      BY <1>2, <1>t, <2>1 DEF H!StartLock, H!Return, H!Idle
    <3> QED BY <3>1, HandleOutside
  <2>2. CASE ~hHandle.closed
    <3>1. /\ hThread[t].at = "start" /\ hThread'[t].at = "camera"
          /\ \A u \in Threads : u # t => hThread'[u] = hThread[u]
          /\ UNCHANGED <<hOpen, hStarted>>
          /\ hHandle.gate = NoOne /\ hHandle' = [hHandle EXCEPT !.gate = t]
      BY <1>2, <1>t, <2>2 DEF H!StartLock, H!Goto
    <3>2. Gated'
      BY <1>b, <1>t, <3>1 DEF Gated, InGate
    <3>3. SessionHeld'
      BY <1>b, <1>t, <3>1 DEF SessionHeld, InGate
    <3>4. CloseIsFinal'
      BY <1>t, <2>2, <3>1 DEF CloseIsFinal
    <3> QED BY <3>2, <3>3, <3>4
  <2> QED BY <2>1, <2>2
<1>3. ASSUME NEW t \in Threads, H!CameraFails(t) PROVE Kept
  <2>1. /\ hThread[t].at = "camera" /\ hThread'[t].at = "idle"
        /\ \A u \in Threads : u # t => hThread'[u] = hThread[u]
        /\ UNCHANGED <<hOpen, hStarted>>
        /\ hHandle' = [hHandle EXCEPT !.gate = NoOne]
    BY <1>3, <1>t DEF H!CameraFails, H!Return, H!Idle
  <2>2. \A u \in Threads : u # t => ~InGate(u)
    BY <1>a, <2>1 DEF InGate
  <2>3. Gated'
    BY <1>t, <2>1, <2>2 DEF Gated, InGate
  <2>4. SessionHeld'
    BY <1>t, <2>1, <2>2 DEF SessionHeld, InGate
  <2>5. CloseIsFinal'
    BY <1>t, <2>1 DEF CloseIsFinal
  <2> QED BY <2>3, <2>4, <2>5
<1>4. ASSUME NEW t \in Threads, H!CameraStarts(t) PROVE Kept
  <2>1. /\ hThread[t].at = "camera" /\ hThread'[t].at = "publish"
        /\ \A u \in Threads : u # t => hThread'[u] = hThread[u]
        /\ hOpen' = {hStarted'}
        /\ hHandle'.gate = hHandle.gate /\ hHandle'.session = hHandle.session
        /\ hHandle'.closed = hHandle.closed /\ hHandle'.registered = hHandle.registered
    BY <1>4, <1>t DEF H!CameraStarts, H!Goto
  <2>2. \A u \in Threads : u # t => ~InGate(u)
    BY <1>a, <2>1 DEF InGate
  <2>3. Gated'
    BY <1>t, <2>1, <2>2 DEF Gated, InGate
  <2>4. SessionHeld'
    BY <1>t, <2>1, <2>2 DEF SessionHeld, InGate
  <2>5. CloseIsFinal'
    BY <1>t, <2>1 DEF CloseIsFinal
  <2> QED BY <2>3, <2>4, <2>5
<1>5. ASSUME NEW t \in Threads, H!StoreSession(t) PROVE Kept
  <2>1. /\ hThread[t].at = "publish" /\ hThread'[t].at = "idle"
        /\ \A u \in Threads : u # t => hThread'[u] = hThread[u]
        /\ UNCHANGED <<hOpen, hStarted>>
        /\ hHandle' = [hHandle EXCEPT !.session = hStarted, !.gate = NoOne]
    BY <1>5, <1>t DEF H!StoreSession, H!Return, H!Idle
  <2>2. \A u \in Threads : u # t => ~InGate(u)
    BY <1>a, <2>1 DEF InGate
  <2>3. Gated'
    BY <1>t, <2>1, <2>2 DEF Gated, InGate
  <2>4. SessionHeld'
    BY <1>t, <2>1, <2>2 DEF SessionHeld, InGate
  <2>5. CloseIsFinal'
    BY <1>t, <2>1 DEF CloseIsFinal
  <2> QED BY <2>3, <2>4, <2>5
<1>6. ASSUME NEW t \in Threads, H!CloseBegins(t) PROVE Kept
  <2>1. /\ hThread[t].at = "idle" /\ hThread'[t].at = "close"
        /\ \A u \in Threads : u # t => hThread'[u] = hThread[u]
        /\ UNCHANGED <<hOpen, hStarted>>
        /\ hHandle' = [hHandle EXCEPT !.registered = FALSE, !.closed = TRUE]
    BY <1>6, <1>t DEF H!CloseBegins, H!Idle
  <2>2. Gated'
    BY <1>t, <2>1 DEF Gated, InGate
  <2>3. SessionHeld'
    BY <1>t, <2>1 DEF SessionHeld
  <2>4. CloseIsFinal'
    BY <1>t, <2>1 DEF CloseIsFinal
  <2> QED BY <2>2, <2>3, <2>4
<1>7. ASSUME NEW t \in Threads, H!TakeSession(t) PROVE Kept
  <2>1. /\ hThread[t].at \in {"stop", "close"} /\ hHandle.gate = NoOne
        /\ hThread'[t].at = IF hThread[t].at = "stop" THEN "stopping" ELSE "closing"
        /\ hThread'[t].session = hHandle.session
        /\ \A u \in Threads : u # t => hThread'[u] = hThread[u]
        /\ UNCHANGED <<hOpen, hStarted>>
        /\ hHandle' = [hHandle EXCEPT !.session = 0, !.gate = t]
    BY <1>7, <1>t DEF H!TakeSession, H!Idle
  <2>2. \A u \in Threads : ~InGate(u)
    BY <1>b, <2>1
  <2>3. Gated'
    BY <1>t, <2>1, <2>2 DEF Gated, InGate
  <2>4. SessionHeld'
    BY <1>t, <2>1, <2>2 DEF SessionHeld, InGate
  <2>5. CloseIsFinal'
    BY <1>t, <2>1, <2>2 DEF CloseIsFinal, InGate
  <2> QED BY <2>3, <2>4, <2>5
<1>8. ASSUME NEW t \in Threads, H!CloseSession(t) PROVE Kept
  <2>1. /\ hThread[t].at \in {"stopping", "closing"}
        /\ hThread'[t].at = IF hThread[t].at = "closing" THEN "closed" ELSE "idle"
        /\ \A u \in Threads : u # t => hThread'[u] = hThread[u]
        /\ hOpen' = hOpen \ {hThread[t].session} /\ hStarted' = hStarted
        /\ hHandle' = [hHandle EXCEPT !.gate = NoOne]
    BY <1>8, <1>t DEF H!CloseSession, H!Goto, H!Return, H!Idle
  <2>2. \A u \in Threads : u # t => ~InGate(u)
    BY <1>a, <2>1 DEF InGate
  <2>3. hOpen' = {}
    BY <2>1 DEF SessionHeld
  <2>4. Gated'
    BY <1>t, <2>1, <2>2 DEF Gated, InGate
  <2>5. SessionHeld'
    BY <2>3 DEF SessionHeld
  <2>6. CloseIsFinal'
    BY <1>t, <2>1, <2>3 DEF CloseIsFinal
  <2> QED BY <2>4, <2>5, <2>6
<1>9. CASE H!SessionFails
  BY <1>9 DEF H!SessionFails, Gated, InGate, SessionHeld, CloseIsFinal
<1> QED BY <1>1, <1>2, <1>3, <1>4, <1>5, <1>6, <1>7, <1>8, <1>9 DEF H!Next

\* What the handle's invariant says of closes and of the sessions between calls.
LEMMA HandleClosed == HandleParameters /\ HandleInv => H!ClosedIsQuiet /\ H!NoStrandedSession
BY DEF HandleParameters, HandleInv, Gated, InGate, SessionHeld, CloseIsFinal, H!ClosedIsQuiet,
       H!NoStrandedSession

\* Every session anybody names was started, and only the last can be open.
SessionsSoFar ==
    /\ hOpen \subseteq {hStarted}
    /\ hHandle.session <= hStarted /\ hReader.session <= hStarted
    /\ \A t \in Threads : hThread[t].session <= hStarted

\* No session was started.
LEMMA HandleSoFarInit == H!Init => SessionsSoFar
BY DEF H!Init, H!Idle, SessionsSoFar

\* Every call names sessions that were started.
LEMMA HandleSoFar ==
  ASSUME HandleParameters, H!TypeOK, SessionsSoFar, [H!Next]_(H!vars)
  PROVE  SessionsSoFar'
<1> USE DEF H!TypeOK, SessionsSoFar, H!Idle, HandleParameters
<1>0. CASE UNCHANGED H!vars
  BY <1>0 DEF H!vars
<1>1. ASSUME NEW t \in Threads, \E at \in {"start", "stop", "lookup"} : H!Call(t, at) PROVE SessionsSoFar'
  BY <1>1 DEF H!Call
<1>a. ASSUME NEW t \in Threads, NEW r, r.session <= hStarted', hThread' = [hThread EXCEPT ![t] = r],
             hOpen' \subseteq hOpen, hStarted' = hStarted, hHandle'.session <= hStarted, UNCHANGED hReader.session
      PROVE  SessionsSoFar'
  BY <1>a
<1>b. 0 <= hStarted
  OBVIOUS
<1>2. ASSUME NEW t \in Threads, H!StartLock(t) \/ H!CameraFails(t) PROVE SessionsSoFar'
  BY <1>2 DEF H!StartLock, H!CameraFails, H!Goto, H!Return
<1>3. ASSUME NEW t \in Threads, H!CameraStarts(t) PROVE SessionsSoFar'
  BY <1>3 DEF H!CameraStarts, H!Goto
<1>4. ASSUME NEW t \in Threads, H!StoreSession(t) PROVE SessionsSoFar'
  BY <1>4 DEF H!StoreSession, H!Return
<1>5. ASSUME NEW t \in Threads, H!CloseBegins(t) PROVE SessionsSoFar'
  BY <1>5 DEF H!CloseBegins
<1>11. ASSUME NEW t \in Threads, H!TakeSession(t) PROVE SessionsSoFar'
  <2> DEFINE r == [H!Idle EXCEPT
         !.at = IF hThread[t].at = "stop" THEN "stopping" ELSE "closing", !.session = hHandle.session]
  <2>1. r.session = hHandle.session
    OBVIOUS
  <2>2. hThread' = [hThread EXCEPT ![t] = r]
    BY <1>11 DEF H!TakeSession
  <2>3. UNCHANGED <<hOpen, hStarted, hReader>> /\ hHandle'.session = 0
    BY <1>11 DEF H!TakeSession
  <2> HIDE DEF r
  <2> QED BY <1>a, <1>b, <2>1, <2>2, <2>3
<1>6. ASSUME NEW t \in Threads, H!CloseSession(t) PROVE SessionsSoFar'
  BY <1>6 DEF H!CloseSession, H!Goto, H!Return
<1>7. ASSUME NEW t \in Threads, H!ReadSession(t) PROVE SessionsSoFar'
  <2> DEFINE r == [H!Idle EXCEPT !.at = "mode", !.session = hHandle.session]
             e == [H!Idle EXCEPT !.result = "error"]
  <2>1. r.session = hHandle.session /\ e.session = 0
    OBVIOUS
  <2>2. hThread' = [hThread EXCEPT ![t] = r] \/ hThread' = [hThread EXCEPT ![t] = e]
    BY <1>7 DEF H!ReadSession, H!ReturnResult
  <2>3. UNCHANGED <<hHandle, hOpen, hStarted, hReader>>
    BY <1>7 DEF H!ReadSession
  <2> HIDE DEF r, e
  <2> QED BY <1>a, <1>b, <2>1, <2>2, <2>3
<1>12. ASSUME NEW t \in Threads, H!ReadMode(t) PROVE SessionsSoFar'
  BY <1>12 DEF H!ReadMode
<1>8. ASSUME NEW t \in Threads, H!LockReader(t) \/ H!FrameArrives(t) PROVE SessionsSoFar'
  BY <1>8 DEF H!LockReader, H!FrameArrives, H!Goto
<1>9. ASSUME NEW t \in Threads, H!NoFrame(t) \/ H!BufferSmall(t) \/ H!ConvertFails(t) \/ H!Deliver(t)
      PROVE  SessionsSoFar'
  <2>1. PICK result \in {"frame", "error"} : hThread' = [hThread EXCEPT ![t] = [H!Idle EXCEPT !.result = result]]
    BY <1>9 DEF H!NoFrame, H!BufferSmall, H!ConvertFails, H!Deliver, H!ReturnResult
  <2> DEFINE r == [H!Idle EXCEPT !.result = result]
  <2>2. r.session = 0 /\ hThread' = [hThread EXCEPT ![t] = r]
    BY <2>1
  <2>3. UNCHANGED <<hHandle, hOpen, hStarted>> /\ hReader'.session = hReader.session
    BY <1>9 DEF H!NoFrame, H!BufferSmall, H!ConvertFails, H!Deliver
  <2> HIDE DEF r
  <2> QED BY <1>a, <1>b, <2>2, <2>3
<1>10. CASE H!SessionFails
  BY <1>10 DEF H!SessionFails
<1> QED BY <1>0, <1>1, <1>2, <1>3, <1>4, <1>5, <1>6, <1>7, <1>8, <1>9, <1>10, <1>11, <1>12 DEF H!Next

\* Who takes a good frame out of the reader: the call that returns it, a call of
\* a later session after the frame's own, or an overtaken call.
FrameLeaves ==
    \/ \E t \in Threads : hThread[t].at = "reading" /\ hThread'[t].result = "frame"
    \/ hReader.session \notin hOpen /\ hReader'.session > hReader.session
    \/ \E t \in Threads : H!Overtaken(t) /\ hReader'.lock = t

LEMMA HandleDelivers ==
  ASSUME HandleParameters, H!TypeOK, SessionsSoFar, H!Next,
         hReader.pending = "good", hReader'.pending # "good"
  PROVE  FrameLeaves
<1> USE DEF H!TypeOK
<1>1. ASSUME NEW t \in Threads, H!Deliver(t) PROVE FrameLeaves
  BY <1>1 DEF H!Deliver, H!ReturnResult, H!Idle, FrameLeaves
<1>2. ASSUME NEW t \in Threads, H!LockReader(t) PROVE FrameLeaves
  <2>1. /\ hThread[t].at = "read" /\ hReader.session # hThread[t].session
        /\ hReader'.lock = t /\ hReader'.session = hThread[t].session
    BY <1>2 DEF H!LockReader
  <2>2. /\ hReader.session \in Nat /\ hThread[t].session \in Nat /\ hStarted \in Nat
        /\ hThread[t].session <= hStarted
    BY DEF SessionsSoFar, HandleParameters
  <2>3. CASE hThread[t].session < hReader.session
    BY <2>1, <2>3 DEF H!Overtaken, FrameLeaves
  <2>4. CASE hThread[t].session > hReader.session
    <3>1. hReader.session # hStarted
      BY <2>2, <2>4
    <3>2. hReader.session \notin hOpen
      BY <3>1 DEF SessionsSoFar
    <3> QED BY <2>1, <2>4, <3>2 DEF FrameLeaves
  <2> QED BY <2>1, <2>2, <2>3, <2>4
<1>3. ASSUME NEW t \in Threads,
             \/ \E at \in {"start", "stop", "lookup"} : H!Call(t, at)
             \/ H!StartLock(t) \/ H!CameraFails(t) \/ H!CameraStarts(t) \/ H!StoreSession(t)
             \/ H!CloseBegins(t) \/ H!TakeSession(t) \/ H!CloseSession(t)
             \/ H!ReadSession(t) \/ H!ReadMode(t) \/ H!FrameArrives(t) \/ H!NoFrame(t)
             \/ H!BufferSmall(t) \/ H!ConvertFails(t)
      PROVE  FALSE
  BY <1>3 DEF H!Call, H!StartLock, H!CameraFails, H!CameraStarts, H!StoreSession, H!CloseBegins,
       H!TakeSession, H!CloseSession, H!ReadSession, H!ReadMode, H!FrameArrives, H!NoFrame,
       H!BufferSmall, H!ConvertFails
<1>4. CASE H!SessionFails
  BY <1>4 DEF H!SessionFails
<1> QED BY <1>1, <1>2, <1>3, <1>4 DEF H!Next
-----------------------------------------------------------------------------
(* Camera2.                                                                 *)

\* The callback reads the session of the hub, and the bridge streams for it.
StreamOfHub ==
    /\ cShared = cHub.session
    /\ cNative.streaming => cNative.open /\ cNative.cb /\ cNative.stream = cHub.session

\* A callback runs over the bridge it was raised by; the one a disconnect
\* raised finds the bridge's flag cleared.
CallbackOfStream ==
    /\ cCallback.at # "idle" =>
         cNative.open /\ cNative.stream = cCallback.stream /\ cCallback.stream = cHub.session
    /\ cCallback.at = "stop" => ~cNative.streaming

\* What each stage of a start or stop has built, and what it cannot meet: a
\* hub that ended without the session's knowledge has no callback left.
CameraStages ==
    /\ cClient \in {"drain", "open", "request", "store", "undo"} =>
         cCallback.at = "idle" /\ ~cNative.streaming
    /\ cClient \in {"drain", "open", "request", "store"} => cHub.active \/ cStopDue
    /\ cClient \in {"open", "request", "store", "config"} =>
         cNative.cb /\ cNative.stream = cHub.session
    /\ cClient \in {"request", "store", "config"} => cNative.open
    /\ cClient \in {"idle", "config"} /\ ~cHub.active /\ ~cStopDue =>
         cCallback.at = "idle" /\ ~cNative.streaming
    /\ cClient \in {"idle", "config"} /\ cHub.active =>
         cNative.open /\ cNative.cb /\ (cNative.streaming \/ cCallback.at = "stop")
    /\ cClient = "close" => ~cHub.active
    /\ cClient \in {"open", "request", "store"} \/ cNative.streaming => cNative.lost # "heard"

CameraInv == C!TypeOK /\ StreamOfHub /\ CallbackOfStream /\ CameraStages

\* No start yet.
LEMMA CameraInit == C!Init => CameraInv
<1> SUFFICES ASSUME C!Init PROVE CameraInv
  OBVIOUS
<1> USE DEF C!Init, C!HubIdle, C!Hub, C!Closed, C!NoCallback
<1>1. C!TypeOK
  BY DEF C!TypeOK
<1>2. StreamOfHub /\ CallbackOfStream /\ CameraStages
  BY DEF StreamOfHub, CallbackOfStream, CameraStages
<1> QED BY <1>1, <1>2 DEF CameraInv

\* Every step of the camera keeps its types.
LEMMA CameraTypes ==
  ASSUME C!TypeOK, C!Next
  PROVE  C!TypeOK'
<1> USE DEF C!TypeOK
<1>a. C!HubStart(cHub) \in C!Hub /\ C!HubStop(cHub) \in C!Hub
  <2>1. cHub \in [session : Nat, active : BOOLEAN]
    BY DEF C!Hub
  <2>2. C!HubStart(cHub) \in C!Hub
    BY <2>1 DEF C!Hub, C!HubStart
  <2>3. C!HubStop(cHub) \in C!Hub
    BY <2>1 DEF C!Hub, C!HubStop
  <2> QED BY <2>2, <2>3
<1>b. cHub.session \in Nat /\ C!HubStart(cHub).session \in Nat
  BY DEF C!Hub, C!HubStart
<1>c. /\ C!Closed \in [streaming : BOOLEAN, cb : BOOLEAN, open : BOOLEAN, repeating : BOOLEAN, stream : Nat,
                      lost : {"no", "heard", "unheard"}]
      /\ C!NoCallback \in [at : {"idle", "frame", "stop"}, stream : Nat]
  BY DEF C!Closed, C!NoCallback
<1>d. \A at \in {"frame", "stop"} : C!Raise(at) => cCallback' \in [at : {"idle", "frame", "stop"}, stream : Nat]
  BY DEF C!Raise
<1>1. CASE C!StartAgain
  BY <1>1 DEF C!StartAgain, C!vars
<1>2. CASE C!Start
  BY <1>2, <1>a, <1>b DEF C!Start
<1>3. CASE C!Stop
  BY <1>3, <1>a DEF C!Stop
<1>4. CASE C!Drain
  BY <1>4, <1>b, <1>c DEF C!Drain
<1>5. CASE C!OpenCamera \/ C!SetRepeatingRequest \/ C!StoreStreaming
  BY <1>5 DEF C!OpenCamera, C!SetRepeatingRequest, C!StoreStreaming
<1>6. CASE C!ActiveConfig \/ C!StartFails
  BY <1>6 DEF C!ActiveConfig, C!StartFails
<1>7. CASE C!UndoNative \/ C!CloseNative
  BY <1>7, <1>c DEF C!UndoNative, C!CloseNative
<1>8. CASE C!StartReturnsError \/ C!SessionStopsHub
  BY <1>8, <1>a DEF C!StartReturnsError, C!SessionStopsHub
<1>9. CASE C!SetControl
  BY <1>9 DEF C!SetControl
<1>10. CASE C!ImageAvailable
  BY <1>10, <1>d DEF C!ImageAvailable
<1>11. CASE C!Disconnected
  BY <1>11, <1>d DEF C!Disconnected, C!Reported
<1>12. CASE C!CallbackStep
  BY <1>12, <1>a, <1>c DEF C!CallbackStep, C!FrameReturns, C!DisconnectStopsHub
<1> QED BY <1>1, <1>2, <1>3, <1>4, <1>5, <1>6, <1>7, <1>8, <1>9, <1>10, <1>11, <1>12
     DEF C!Next, C!ClientStep

\* Every step of the camera keeps what its stages have built.
LEMMA CameraStep ==
  ASSUME CameraInv, [C!Next]_(C!vars)
  PROVE  CameraInv'
<1> USE DEF CameraInv, StreamOfHub, CallbackOfStream, CameraStages
<1>0. CASE UNCHANGED C!vars
  BY <1>0 DEF C!vars, C!TypeOK
<1> SUFFICES ASSUME C!Next PROVE StreamOfHub' /\ CallbackOfStream' /\ CameraStages'
  BY <1>0, CameraTypes
<1> USE DEF C!TypeOK, C!Hub, C!HubStart, C!HubStop, C!Closed, C!NoCallback
<1>1. CASE C!StartAgain
  BY <1>1 DEF C!StartAgain, C!vars
<1>2. CASE C!Start
  BY <1>2 DEF C!Start
<1>3. CASE C!Stop
  BY <1>3 DEF C!Stop
<1>4. CASE C!Drain
  BY <1>4 DEF C!Drain, C!CallbackDrained
<1>5. CASE C!OpenCamera
  BY <1>5 DEF C!OpenCamera
<1>6. CASE C!SetRepeatingRequest
  BY <1>6 DEF C!SetRepeatingRequest
<1>7. CASE C!StoreStreaming
  BY <1>7 DEF C!StoreStreaming
<1>8. CASE C!ActiveConfig \/ C!StartFails
  BY <1>8 DEF C!ActiveConfig, C!StartFails
<1>9. CASE C!UndoNative \/ C!CloseNative
  BY <1>9 DEF C!UndoNative, C!CloseNative, C!CallbackDrained
<1>10. CASE C!StartReturnsError \/ C!SessionStopsHub
  BY <1>10 DEF C!StartReturnsError, C!SessionStopsHub
<1>11. CASE C!SetControl
  BY <1>11 DEF C!SetControl
<1>12. CASE C!ImageAvailable
  BY <1>12 DEF C!ImageAvailable, C!Raise
<1>13. CASE C!Disconnected
  BY <1>13 DEF C!Disconnected, C!Raise, C!Reported
<1>14. CASE C!CallbackStep
  BY <1>14 DEF C!CallbackStep, C!FrameReturns, C!DisconnectStopsHub
<1> QED BY <1>1, <1>2, <1>3, <1>4, <1>5, <1>6, <1>7, <1>8, <1>9, <1>10, <1>11, <1>12, <1>13, <1>14
     DEF C!Next, C!ClientStep

\* The stages tell whose a callback is and what a live hub has behind it.
LEMMA CameraPromises == CameraInv => C!CallbackOwnsSession /\ C!AtRest
BY DEF CameraInv, C!TypeOK, StreamOfHub, CallbackOfStream, CameraStages, C!CallbackOwnsSession, C!AtRest
-----------------------------------------------------------------------------
(* UVC.                                                                     *)

\* What the arguments ask of the constants: no thread is the mark of a free mutex.
UvcParameters == NoOne \notin Threads

\* The caller inside start or stop holds the lifecycle mutex.
UvcCaller ==
    \A c \in Threads : uCaller[c] # "idle" => uHolder = c

\* The context is the one of the hub's stream, and there is one whenever
\* libuvc may call back with it or is calling back.
UvcContext ==
    /\ uContext # U!NoContext => uContext.session = uHub.session /\ uHub.session # 0
    /\ uStreaming => uContext # U!NoContext
    /\ uCallback.at # "idle" => uContext # U!NoContext

\* A worker decodes for the context's stream; it outlives the context only
\* until the stop that freed it has joined the worker.
UvcWorker ==
    uWorker # U!NoWorker =>
        /\ uWorker.session # 0
        /\ uContext # U!NoContext => uWorker.session = uContext.session
        /\ uContext = U!NoContext => \E c \in Threads : uCaller[c] \in {"undoWorker", "joinWorker"}

\* What each stage of a start or stop has built; a live hub has its stream, or
\* the start that will begin it, or was left behind by one of two early returns.
UvcStages ==
    /\ (\A c \in Threads : uCaller[c] = "idle") => (uStreaming <=> uContext # U!NoContext)
    /\ \A c \in Threads :
         /\ uCaller[c] \in {"open", "begin", "undoWorker", "joinWorker"} => uContext = U!NoContext
         /\ uCaller[c] = "stream" => uContext # U!NoContext
         /\ uCaller[c] \in {"joinCallback", "undoStream"} => ~uHub.active
    /\ uHub.active => uStreaming \/ uHalfBegun \/ \E c \in Threads : uCaller[c] = "stream"

\* Where a buffer is while the worker lives: in one place of these.
PlaceNames == {"free", "channel", "callback", "worker"}
Places(b) ==
    {p \in PlaceNames :
        \/ p = "free" /\ b \in uFree
        \/ p = "channel" /\ uChannel = b
        \/ p = "callback" /\ uCallback.buffer = b
        \/ p = "worker" /\ uWorker.buffer = b}

UvcBuffers ==
    /\ uCallback.buffer # U!NoBuffer <=> uCallback.at = "send"
    /\ uWorker.buffer # U!NoBuffer <=> uWorker.at = "decode"
    /\ uWorker.at \in {"recv", "decode"} => \A b \in U!Buffers : \E p \in PlaceNames : Places(b) = {p}

UvcInv == U!TypeOK /\ UvcCaller /\ UvcContext /\ UvcWorker /\ UvcStages /\ UvcBuffers

\* No start yet.
LEMMA UvcInit == U!Init => UvcInv
<1> SUFFICES ASSUME U!Init PROVE UvcInv
  OBVIOUS
<1> USE DEF U!Init, U!HubIdle, U!Hub, U!NoContext, U!NoWorker, U!NoCallback, U!NoBuffer
<1>1. U!TypeOK
  BY DEF U!TypeOK
<1>2. UvcCaller /\ UvcContext /\ UvcWorker /\ UvcStages /\ UvcBuffers
  BY DEF UvcCaller, UvcContext, UvcWorker, UvcStages, UvcBuffers
<1> QED BY <1>1, <1>2 DEF UvcInv

\* Every step of the camera keeps its types.
LEMMA UvcTypes ==
  ASSUME U!TypeOK, UvcBuffers, U!Next
  PROVE  U!TypeOK'
<1> USE DEF U!TypeOK, U!stream, U!dispatch
<1>h. /\ U!HubStart(uHub) \in U!Hub /\ U!HubStop(uHub) \in U!Hub
      /\ U!HubStart(uHub).session \in Nat
  <2>1. uHub \in [session : Nat, active : BOOLEAN]
    BY DEF U!Hub
  <2>2. U!HubStart(uHub) \in U!Hub /\ U!HubStart(uHub).session \in Nat
    BY <2>1 DEF U!Hub, U!HubStart
  <2>3. U!HubStop(uHub) \in U!Hub
    BY <2>1 DEF U!Hub, U!HubStop
  <2> QED BY <2>2, <2>3
<1>1. ASSUME NEW c \in Threads, U!Start(c) \/ U!Stop(c) PROVE U!TypeOK'
  BY <1>1, <1>h DEF U!Start, U!Stop, U!Goto
<1>2. ASSUME NEW c \in Threads, U!Open(c) \/ U!OpenFails(c) PROVE U!TypeOK'
  BY <1>2 DEF U!Open, U!OpenFails, U!Goto, U!Return
<1>3. ASSUME NEW c \in Threads, U!Begin(c) PROVE U!TypeOK'
  <2>1. uHub' \in U!Hub /\ uContext' \in [session : Nat, mjpeg : BOOLEAN]
    BY <1>3, <1>h DEF U!Begin
  <2>2. uWorker' \in [at : {"none", "recv", "decode", "ended"}, session : Nat,
                      buffer : U!Buffers \cup {U!NoBuffer}]
    <3>1. \/ uWorker' = U!NoWorker
          \/ uWorker' = [at |-> "recv", session |-> U!HubStart(uHub).session, buffer |-> U!NoBuffer]
      BY <1>3 DEF U!Begin, U!NoWorker
    <3> QED BY <3>1, <1>h DEF U!NoWorker
  <2> QED BY <1>3, <2>1, <2>2 DEF U!Begin, U!Goto
<1>4. ASSUME NEW c \in Threads, U!BeginFails(c) \/ U!Stream(c) PROVE U!TypeOK'
  BY <1>4, <1>h DEF U!BeginFails, U!Stream, U!Goto, U!Return
<1>5. ASSUME NEW c \in Threads, U!StreamFails(c) \/ U!CancelTransfers(c) PROVE U!TypeOK'
  BY <1>5, <1>h DEF U!StreamFails, U!CancelTransfers, U!Goto
<1>6. ASSUME NEW c \in Threads, U!StopStreaming(c) PROVE U!TypeOK'
  BY <1>6 DEF U!StopStreaming, U!Goto, U!NoContext
<1>11. ASSUME NEW c \in Threads, U!JoinWorker(c) PROVE U!TypeOK'
  BY <1>11 DEF U!JoinWorker, U!Goto, U!Return, U!NoWorker
<1>7. CASE U!SessionStopsHub
  BY <1>7, <1>h DEF U!SessionStopsHub
<1>8. CASE U!Frame \/ U!FrameInPlace
  BY <1>8 DEF U!Frame, U!FrameInPlace, U!Callback, U!NoCallback, U!NoBuffer
<1>9. CASE U!TakeBuffer
  BY <1>9 DEF U!TakeBuffer, U!Callback
<1>10. CASE U!Send \/ U!SendRefused
  <2>1. uCallback.buffer \in U!Buffers
    BY <1>10 DEF U!Send, U!SendRefused, UvcBuffers
  <2> QED BY <1>10, <2>1 DEF U!Send, U!SendRefused, U!Callback, U!NoCallback
<1>12. CASE U!Receive
  BY <1>12 DEF U!Receive, U!Worker
<1>13. CASE U!Decode
  <2>1. uWorker.buffer \in U!Buffers
    BY <1>13 DEF U!Decode, UvcBuffers
  <2> QED BY <1>13, <2>1 DEF U!Decode, U!Worker
<1>14. CASE U!DecodePanics \/ U!WorkerEnds
  BY <1>14 DEF U!DecodePanics, U!WorkerEnds, U!Worker
<1> QED BY <1>1, <1>2, <1>3, <1>4, <1>5, <1>6, <1>7, <1>8, <1>9, <1>10, <1>11, <1>12, <1>13, <1>14
     DEF U!Next, U!CallerStep, U!CallbackStep, U!WorkerStep

\* The owner of the lifecycle mutex moves alone: what it does to its own place
\* decides the stages.
LEMMA UvcOwner ==
  ASSUME UvcParameters, U!TypeOK, UvcCaller, NEW c \in Threads, uHolder \in {c, NoOne}
  PROVE  \A d \in Threads : d # c => uCaller[d] = "idle"
BY DEF UvcParameters, U!TypeOK, UvcCaller

\* Every step of the camera keeps its threads in its session.
LEMMA UvcStep ==
  ASSUME UvcParameters, UvcInv, [U!Next]_(U!vars)
  PROVE  UvcInv'
<1> USE DEF UvcInv
<1>0. CASE UNCHANGED U!vars
  BY <1>0 DEF U!vars, U!TypeOK, UvcCaller, UvcContext, UvcWorker, UvcStages, UvcBuffers, Places
<1> DEFINE Kept == UvcCaller' /\ UvcContext' /\ UvcWorker' /\ UvcStages'
<1> SUFFICES ASSUME U!Next PROVE Kept /\ UvcBuffers'
  BY <1>0, UvcTypes
<1>t. U!TypeOK'
  BY UvcTypes
<1>h. /\ U!HubStart(uHub).session = uHub.session + 1 /\ uHub.session + 1 # 0
      /\ U!HubStop(uHub).session = uHub.session /\ ~U!HubStop(uHub).active
  <2>1. uHub \in [session : Nat, active : BOOLEAN]
    BY DEF U!Hub, U!TypeOK
  <2> QED BY <2>1 DEF U!HubStart, U!HubStop
<1> USE DEF UvcCaller, UvcContext, UvcWorker, UvcStages, U!TypeOK, U!stream, U!dispatch, U!Goto, U!Return
<1>1. ASSUME NEW c \in Threads, U!Start(c) \/ U!Stop(c) PROVE Kept
  BY <1>1, <1>h DEF U!Start, U!Stop, UvcParameters
<1>12. ASSUME NEW c \in Threads, U!Open(c) PROVE Kept
  BY <1>12, UvcOwner DEF U!Open, UvcParameters
<1>2. ASSUME NEW c \in Threads, U!OpenFails(c) PROVE Kept
  <2>1. uHolder = c /\ \A d \in Threads : d # c => uCaller[d] = "idle"
    BY <1>2, UvcOwner DEF U!OpenFails
  <2>2. UvcWorker'
    BY <1>2, <2>1 DEF U!OpenFails
  <2> QED BY <1>2, <2>1, <2>2 DEF U!OpenFails
<1>3. ASSUME NEW c \in Threads, U!Begin(c) PROVE Kept
  BY <1>3, <1>h, UvcOwner DEF U!Begin, U!NoWorker, U!NoContext, UvcParameters
<1>4. ASSUME NEW c \in Threads, U!BeginFails(c) PROVE Kept
  BY <1>4, <1>h, UvcOwner DEF U!BeginFails, UvcParameters
<1>5. ASSUME NEW c \in Threads, U!Stream(c) PROVE Kept
  BY <1>5, UvcOwner DEF U!Stream, UvcParameters
<1>6. ASSUME NEW c \in Threads, U!StreamFails(c) \/ U!CancelTransfers(c) PROVE Kept
  BY <1>6, <1>h, UvcOwner DEF U!StreamFails, U!CancelTransfers, UvcParameters
<1>7. ASSUME NEW c \in Threads, U!StopStreaming(c) PROVE Kept
  BY <1>7, UvcOwner DEF U!StopStreaming, U!CallbackJoined, U!NoContext, UvcParameters
<1>8. ASSUME NEW c \in Threads, U!JoinWorker(c) PROVE Kept
  BY <1>8, UvcOwner DEF U!JoinWorker, UvcParameters
<1>9. ASSUME U!SessionStopsHub PROVE Kept
  <2>1. /\ UNCHANGED <<uCaller, uHolder, uStreaming, uContext, uCallback, uWorker, uHalfBegun>>
        /\ uHub'.session = uHub.session /\ ~uHub'.active
    BY <1>9, <1>h DEF U!SessionStopsHub
  <2> QED BY <2>1 DEF U!NoContext, U!NoWorker
<1>10. ASSUME U!Frame \/ U!CallbackStep PROVE Kept
  <2>1. UNCHANGED <<uHub, uCaller, uHolder, uStreaming, uContext, uWorker, uHalfBegun>>
    BY <1>10 DEF U!Frame, U!CallbackStep, U!FrameInPlace, U!TakeBuffer, U!Send, U!SendRefused, U!Callback
  <2>2. uCallback'.at # "idle" => uContext # U!NoContext
    BY <1>10 DEF U!Frame, U!CallbackStep, U!FrameInPlace, U!TakeBuffer, U!Send, U!SendRefused, U!NoCallback
  <2> QED BY <2>1, <2>2 DEF U!NoContext, U!NoWorker
<1>11. ASSUME U!WorkerStep PROVE Kept
  <2>1. UNCHANGED <<uHub, uCaller, uHolder, uStreaming, uContext, uCallback, uHalfBegun>>
    BY <1>11 DEF U!WorkerStep, U!Receive, U!Decode, U!DecodePanics, U!WorkerEnds, U!Worker
  <2>2. uWorker # U!NoWorker /\ uWorker'.session = uWorker.session
    <3>1. uWorker.at # "none"
      BY <1>11 DEF U!WorkerStep, U!Receive, U!Decode, U!DecodePanics, U!WorkerEnds
    <3>2. ASSUME U!Receive \/ U!Decode \/ U!DecodePanics PROVE uWorker'.session = uWorker.session
      BY <3>2 DEF U!Receive, U!Decode, U!DecodePanics
    <3>3. ASSUME U!WorkerEnds PROVE uWorker'.session = uWorker.session
      BY <3>3 DEF U!WorkerEnds
    <3> QED BY <1>11, <3>1, <3>2, <3>3 DEF U!NoWorker, U!WorkerStep
  <2> QED BY <2>1, <2>2 DEF U!NoContext, U!NoWorker
<1>b. UvcBuffers'
  <2> HIDE DEF UvcCaller, UvcContext, UvcWorker, UvcStages
  <2>1. CASE UNCHANGED <<uFree, uChannel, uCallback, uWorker>>
    BY <2>1 DEF UvcBuffers, Places
  <2>2. ASSUME NEW c \in Threads, U!Begin(c) PROVE UvcBuffers'
    <3>1. uCallback.at = "idle"
      BY <2>2 DEF U!Begin, UvcContext, UvcStages
    <3> QED BY <2>2, <3>1, <1>t DEF U!Begin, UvcBuffers, Places, PlaceNames, U!NoWorker, U!NoBuffer, U!Buffers
  <2>3. ASSUME NEW c \in Threads, U!JoinWorker(c) PROVE UvcBuffers'
    BY <2>3 DEF U!JoinWorker, UvcBuffers, U!NoWorker, U!NoBuffer
  <2>4. CASE U!Frame \/ U!FrameInPlace
    BY <2>4 DEF U!Frame, U!FrameInPlace, U!Callback, U!NoCallback, UvcBuffers, Places, PlaceNames, U!NoBuffer
  <2>5. CASE U!TakeBuffer
    BY <2>5 DEF U!TakeBuffer, U!Callback, UvcBuffers, Places, PlaceNames, U!NoBuffer, U!Buffers
  <2>6. CASE U!Send
    BY <2>6 DEF U!Send, U!Callback, U!NoCallback, UvcBuffers, Places, PlaceNames, U!NoBuffer, U!Buffers
  <2>7. CASE U!SendRefused
    BY <2>7 DEF U!SendRefused, U!Callback, U!NoCallback, UvcBuffers, Places, PlaceNames, U!NoBuffer, U!Buffers
  <2>8. CASE U!Receive
    BY <2>8 DEF U!Receive, U!Worker, UvcBuffers, Places, PlaceNames, U!NoBuffer, U!Buffers
  <2>9. CASE U!Decode
    <3> DEFINE d == uWorker.buffer
    <3>1. /\ uWorker.at = "decode" /\ d # U!NoBuffer /\ uFree' = uFree \cup {d}
          /\ uWorker'.at = "recv" /\ uWorker'.buffer = U!NoBuffer /\ UNCHANGED <<uChannel, uCallback>>
      BY <2>9 DEF U!Decode, U!Worker, UvcBuffers
    <3>2. ASSUME NEW b \in U!Buffers PROVE \E p \in PlaceNames : Places(b)' = {p}
      <4>1. PICK p \in PlaceNames : Places(b) = {p}
        BY <3>1 DEF UvcBuffers
      <4>2. b # U!NoBuffer
        BY DEF U!Buffers, U!NoBuffer
      <4>3. CASE b = d
        <5>1. "worker" \in Places(b)
          BY <4>3 DEF Places, PlaceNames
        <5>2. Places(b)' = {"free"}
          BY <3>1, <4>1, <4>2, <4>3, <5>1 DEF Places, PlaceNames
        <5> QED BY <5>2 DEF PlaceNames
      <4>4. CASE b # d
        <5>1. Places(b)' = Places(b)
          BY <3>1, <4>2, <4>4 DEF Places
        <5> QED BY <4>1, <5>1
      <4> QED BY <4>3, <4>4
    <3> HIDE DEF d
    <3> QED BY <3>1, <3>2 DEF UvcBuffers
  <2>10. CASE U!DecodePanics \/ U!WorkerEnds
    BY <2>10 DEF U!DecodePanics, U!WorkerEnds, U!Worker, UvcBuffers, U!NoBuffer
  <2> QED BY <2>1, <2>2, <2>3, <2>4, <2>5, <2>6, <2>7, <2>8, <2>9, <2>10
       DEF U!Next, U!CallerStep, U!CallbackStep, U!WorkerStep, U!Start, U!Stop, U!Open, U!OpenFails,
           U!BeginFails, U!Stream, U!StreamFails, U!CancelTransfers, U!StopStreaming, U!SessionStopsHub
<1>c. Kept
  BY <1>1, <1>2, <1>3, <1>4, <1>5, <1>6, <1>7, <1>8, <1>9, <1>10, <1>11, <1>12 DEF U!Next, U!CallerStep
<1> QED BY <1>b, <1>c

\* A pair has two members.
LEMMA PairCounted == \A a, b : a # b => Cardinality({a, b}) = 2
<1> SUFFICES ASSUME NEW a, NEW b, a # b PROVE Cardinality({a, b}) = 2
  OBVIOUS
<1>1. IsFiniteSet({a}) /\ b \notin {a} /\ Cardinality({a}) = 1
  BY FS_Singleton
<1>2. Cardinality({a} \cup {b}) = Cardinality({a}) + 1
  BY <1>1, FS_AddElement
<1>3. {a} \cup {b} = {a, b}
  OBVIOUS
<1>4. Cardinality({a} \cup {b}) = 2
  BY <1>1, <1>2
<1> QED BY <1>3, <1>4

\* The places among three that hold a buffer.
Filled(x, y, z) == {n \in 1..3 : <<x, y, z>>[n] # 0}

\* Each buffer is in a set or in one of three places.
InOnePlace(set, x, y, z) ==
    /\ set \subseteq {1, 2} /\ {x, y, z} \subseteq {0, 1, 2}
    /\ \A b \in {1, 2} :
         \/ b \in set /\ x # b /\ y # b /\ z # b
         \/ b \notin set /\ x = b /\ y # b /\ z # b
         \/ b \notin set /\ x # b /\ y = b /\ z # b
         \/ b \notin set /\ x # b /\ y # b /\ z = b

\* Then the set and the filled places make two.
LEMMA BuffersCounted ==
  ASSUME NEW free, NEW x, NEW y, NEW z, InOnePlace(free, x, y, z)
  PROVE  Cardinality(free) + Cardinality(Filled(x, y, z)) = 2
<1> DEFINE full == Filled(x, y, z)
<1>1. Cardinality({}) = 0 /\ Cardinality({1}) = 1 /\ Cardinality({2}) = 1 /\ Cardinality({3}) = 1
  BY FS_EmptySet, FS_Singleton
<1>2. Cardinality({1, 2}) = 2 /\ Cardinality({1, 3}) = 2 /\ Cardinality({2, 3}) = 2
  <2>1. 1 # 2 /\ 1 # 3 /\ 2 # 3
    OBVIOUS
  <2> QED BY <2>1, PairCounted, Zenon
<1>3. full = {n \in {1, 2, 3} : (n = 1 /\ x # 0) \/ (n = 2 /\ y # 0) \/ (n = 3 /\ z # 0)}
  BY DEF Filled
<1> HIDE DEF full
<1>4. CASE free = {1, 2}
  <2>1. full = {}
    BY <1>3, <1>4 DEF InOnePlace
  <2> QED BY <1>1, <1>2, <1>4, <2>1 DEF full
<1>5. CASE free = {1} \/ free = {2}
  <2>1. full = {1} \/ full = {2} \/ full = {3}
    BY <1>3, <1>5 DEF InOnePlace
  <2>2. Cardinality(free) = 1
    BY <1>1, <1>5, Zenon
  <2>3. Cardinality(full) = 1
    BY <1>1, <2>1, Zenon
  <2> QED BY <2>2, <2>3 DEF full
<1>6. CASE free = {}
  <2>1. full = {1, 2} \/ full = {1, 3} \/ full = {2, 3}
    BY <1>3, <1>6 DEF InOnePlace
  <2>2. Cardinality(free) = 0
    BY <1>1, <1>6, Zenon
  <2>3. Cardinality(full) = 2
    BY <1>2, <2>1, Zenon
  <2> QED BY <2>2, <2>3 DEF full
<1> QED BY <1>4, <1>5, <1>6 DEF InOnePlace

\* The stages tell whose the threads are, and where the buffers are.
LEMMA UvcPromises ==
  ASSUME UvcParameters, UvcInv
  PROVE  U!ContextOutlivesCallback /\ U!BuffersConserved /\ U!AtRest
<1> USE DEF UvcInv
<1>1. U!ContextOutlivesCallback
  BY DEF UvcContext, U!ContextOutlivesCallback
<1>2. U!AtRest
  <2> SUFFICES ASSUME uHolder = NoOne
               PROVE  /\ uHub.active => uStreaming \/ uHalfBegun
                      /\ uStreaming <=> uContext # U!NoContext
                      /\ uContext # U!NoContext => uContext.session = uHub.session
                      /\ uWorker # U!NoWorker => uWorker.session = uContext.session
    BY DEF U!AtRest
  <2>1. \A c \in Threads : uCaller[c] = "idle"
    BY DEF UvcParameters, UvcCaller
  <2> QED BY <2>1 DEF UvcContext, UvcWorker, UvcStages
<1>3. U!BuffersConserved
  <2> SUFFICES ASSUME uWorker.at \in {"recv", "decode"}
               PROVE  /\ uFree \cup ({uChannel, uCallback.buffer, uWorker.buffer} \ {0}) = {1, 2}
                      /\ Cardinality(uFree)
                           + Cardinality({n \in 1..3 : <<uChannel, uCallback.buffer, uWorker.buffer>>[n] # 0})
                         = Cardinality({1, 2})
    BY DEF U!BuffersConserved, U!NoBuffer, U!Buffers, U!Cardinality, Cardinality
  <2>1. /\ uChannel \in {0, 1, 2} /\ uCallback.buffer \in {0, 1, 2} /\ uWorker.buffer \in {0, 1, 2}
        /\ uFree \subseteq {1, 2}
    BY DEF U!TypeOK, U!NoBuffer, U!Buffers
  <2>2. \A b \in {1, 2} : \E p \in PlaceNames : Places(b) = {p}
    BY DEF UvcBuffers, U!Buffers
  <2> DEFINE x == uChannel
             y == uCallback.buffer
             z == uWorker.buffer
  <2>4. x \in {0, 1, 2} /\ y \in {0, 1, 2} /\ z \in {0, 1, 2} /\ uFree \subseteq {1, 2}
    BY <2>1
  <2>5. InOnePlace(uFree, x, y, z)
    <3>1. ASSUME NEW b \in {1, 2}
          PROVE  \/ b \in uFree /\ x # b /\ y # b /\ z # b
                 \/ b \notin uFree /\ x = b /\ y # b /\ z # b
                 \/ b \notin uFree /\ x # b /\ y = b /\ z # b
                 \/ b \notin uFree /\ x # b /\ y # b /\ z = b
      BY <2>2 DEF Places, PlaceNames
    <3> QED BY <2>4, <3>1 DEF InOnePlace
  <2> HIDE DEF x, y, z
  <2>6. uFree \cup ({x, y, z} \ {0}) = {1, 2}
    BY <2>4, <2>5 DEF InOnePlace
  <2>7. Cardinality(uFree) + Cardinality(Filled(x, y, z)) = 2
    BY <2>5, BuffersCounted
  <2>8. Cardinality({1, 2}) = 2
    <3>1. 1 # 2
      OBVIOUS
    <3> QED BY <3>1, PairCounted, Zenon
  <2> QED BY <2>6, <2>7, <2>8 DEF x, y, z, Filled
<1> QED BY <1>1, <1>2, <1>3
-----------------------------------------------------------------------------
(* The components together.                                                 *)

\* What the arguments ask of the constants, all of them what the code has: a
\* ring of two buffers at least, a threshold of one error at least, finitely
\* many threads and devices, and counts for bounds.
Parameters ==
    /\ MaxDepth \in Nat /\ MaxDepth >= 2
    /\ MaxSessions \in Nat /\ MaxCalls \in Nat /\ MaxGeneration \in Nat
    /\ Stall \in Nat /\ Threshold \in Nat \ {0}
    /\ IsFiniteSet(Threads) /\ NoOne \notin Threads
    /\ IsFiniteSet(Devices)

\* The parameters of each component's arguments are among them.
LEMMA ParametersEach ==
  Parameters =>
    /\ VP!Parameters /\ UvcParameters /\ MP!Parameters
    /\ WatchParameters /\ RP!Parameters /\ HandleParameters
BY DEF Parameters, VP!Parameters, UvcParameters, MP!Parameters, WatchParameters, RP!Parameters,
       HandleParameters, IsFiniteSet, RP!IsFiniteSet

ComponentsInv ==
    /\ which \in Components
    /\ VP!WorkerInv /\ UvcInv /\ MP!MfInv /\ CameraInv
    /\ AvfInv /\ WatchInv /\ RP!RecoveryInv /\ HandleInv /\ SessionsSoFar

\* A step of the whole is a step of one component, or none.
LEMMA StepOfEach ==
  ASSUME [Next]_vars
  PROVE  /\ [V!Next]_(V!vars) /\ [U!Next]_(U!vars) /\ [M!Next]_(M!vars) /\ [C!Next]_(C!vars)
         /\ [A!Next]_(A!vars) /\ [W!Next]_(W!vars) /\ [R!Next]_(R!vars) /\ [H!Next]_(H!vars)
         /\ which' = which
<1>1. CASE Next
  <2>1. /\ V!Next \/ UNCHANGED vVars
        /\ U!Next \/ UNCHANGED uVars
        /\ M!Next \/ UNCHANGED mVars
        /\ C!Next \/ UNCHANGED cVars
        /\ A!Next \/ UNCHANGED aVars
        /\ W!Next \/ UNCHANGED wVars
        /\ R!Next \/ UNCHANGED rVars
        /\ H!Next \/ UNCHANGED hVars
        /\ which' = which
    BY <1>1 DEF Next
  <2> QED BY <2>1 DEF vVars, uVars, mVars, cVars, aVars, wVars, rVars, hVars,
               V!vars, U!vars, M!vars, C!vars, A!vars, W!vars, R!vars, H!vars
<1>2. CASE UNCHANGED vars
  BY <1>2 DEF vars, vVars, uVars, mVars, cVars, aVars, wVars, rVars, hVars,
     V!vars, U!vars, M!vars, C!vars, A!vars, W!vars, R!vars, H!vars
<1> QED BY <1>1, <1>2

\* Every component as it begins.
LEMMA ComponentsInit == Parameters /\ Init => ComponentsInv
<1> SUFFICES ASSUME Parameters, Init PROVE ComponentsInv
  OBVIOUS
<1>1. /\ which \in Components
      /\ V!Init /\ U!Init /\ M!Init /\ C!Init /\ A!Init /\ W!Init /\ R!Init /\ H!Init
  BY DEF Init
<1>2. VP!WorkerInv
  BY <1>1, ParametersEach, VSame, VP!WorkerInvInit
<1>3. MP!MfInv
  BY <1>1, ParametersEach, MSame, MP!MfInvInit
<1>4. AvfInv
  BY <1>1, AvfInit
<1>5. RP!RecoveryInv
  BY <1>1, ParametersEach, RSame, RP!RecoveryInvInit
<1>6. UvcInv /\ CameraInv
  BY <1>1, UvcInit, CameraInit
<1>7. WatchInv /\ HandleInv /\ SessionsSoFar
  BY <1>1, ParametersEach, WatchInit, HandleInit, HandleSoFarInit
<1> QED BY <1>1, <1>2, <1>3, <1>4, <1>5, <1>6, <1>7 DEF ComponentsInv

\* Every step of the whole keeps every component's invariant.
LEMMA ComponentsStep == Parameters /\ ComponentsInv /\ [Next]_vars => ComponentsInv'
<1> SUFFICES ASSUME Parameters, ComponentsInv, [Next]_vars PROVE ComponentsInv'
  OBVIOUS
<1> USE DEF ComponentsInv
<1>1. VP!WorkerInv'
  BY StepOfEach, ParametersEach, VSame, VP!WorkerInvStep
<1>2. MP!MfInv'
  BY StepOfEach, ParametersEach, MSame, MP!MfInvStep
<1>3. AvfInv'
  BY StepOfEach, AvfStep
<1>4. RP!RecoveryInv'
  BY StepOfEach, ParametersEach, RSame, RP!RecoveryInvStep
<1>5. UvcInv'
  BY StepOfEach, ParametersEach, UvcStep
<1>6. CameraInv'
  BY StepOfEach, CameraStep
<1>7. WatchInv'
  BY StepOfEach, ParametersEach, WatchStep
<1>8. HandleInv'
  BY StepOfEach, ParametersEach, HandleStep
<1>9. which' \in Components
  BY StepOfEach
<1>10. SessionsSoFar'
  BY StepOfEach, ParametersEach, HandleSoFar DEF HandleInv
<1> QED BY <1>1, <1>2, <1>3, <1>4, <1>5, <1>6, <1>7, <1>8, <1>9, <1>10

\* What the V4L2 backend promises.
LEMMA VPromises == VP!WorkerInv => V!TypeOK /\ V!WorkerOwnsSession /\ V!AtRest /\ V!RingWhole
BY VP!WorkerPromises
   DEF V!TypeOK, V!WorkerOwnsSession, V!AtRest, V!RingWhole, V!Hub, V!Workers, V!Buffers, V!Running,
       V!Streaming, V!Spawned, VP!TypeOK, VP!WorkerOwnsSession, VP!AtRest, VP!RingWhole, VP!Hub,
       VP!Workers, VP!Buffers, VP!Running, VP!Streaming, VP!Spawned

\* What the Media Foundation backend promises.
LEMMA MPromises == MP!MfInv => M!TypeOK /\ M!NoStaleSample /\ M!AtRest
BY MP!MfPromises
   DEF M!TypeOK, M!NoStaleSample, M!AtRest, M!Hub, M!Calls, M!Events, M!Samples, M!Drained, M!Calling,
       MP!TypeOK, MP!NoStaleSample, MP!AtRest, MP!Hub, MP!Calls, MP!Events, MP!Samples, MP!Drained,
       MP!Calling

\* What the recovery monitor promises.
LEMMA RPromises == RP!Parameters /\ RP!RecoveryInv => R!TypeOK /\ R!NoLostWake /\ R!StrayChargesBounded
BY RP!RecoveryPromises
   DEF R!TypeOK, R!NoLostWake, R!StrayChargesBounded, R!Hub, R!MaxErrors, R!Asleep, R!Trigger,
       R!Remaining, RP!TypeOK, RP!NoLostWake, RP!StrayChargesBounded, RP!Hub, RP!MaxErrors, RP!Asleep,
       RP!Trigger, RP!Remaining, Cardinality, R!Cardinality, RP!Cardinality

-----------------------------------------------------------------------------
(* Theorems.                                                                *)

\* Every component's invariant holds in every reachable state of the whole.
THEOREM ComponentsInvariant == ASSUME Parameters PROVE Spec => []ComponentsInv
<1>1. Init => ComponentsInv
  BY ComponentsInit
<1>2. ComponentsInv /\ [Next]_vars => ComponentsInv'
  BY ComponentsStep
<1> QED BY <1>1, <1>2, PTL DEF Spec

\* Every component keeps its types: v4l2, uvc, mf, camera2 and avfoundation
\* camera.rs, discovery.rs, frame.rs and the Android lib.rs.
THEOREM TypesHold == ASSUME Parameters PROVE Spec => []TypeOK
<1>1. ComponentsInv => TypeOK
  BY ParametersEach, VPromises, MPromises, AvfPromises, RPromises
     DEF ComponentsInv, UvcInv, CameraInv, WatchInv, HandleInv, TypeOK
<1> QED BY <1>1, ComponentsInvariant, PTL

\* Whoever works for a stream works for the one the hub has now: no worker,
\* callback or sample of an earlier stream can end or feed a later one, in any
\* of the five native backends.  Of a callback that an exception in the drop of
\* an AVFoundation session leaves behind it says only that its frames are for
\* no live stream; what it reads may have been released (capture.rs:484-515).
THEOREM StreamsOwned == ASSUME Parameters PROVE Spec => []OwnSession
<1>1. ComponentsInv => OwnSession
  BY ParametersEach, VPromises, MPromises, AvfPromises, UvcPromises, CameraPromises
     DEF ComponentsInv, OwnSession
<1> QED BY <1>1, ComponentsInvariant, PTL

\* Between the calls of a backend its handle, its hub and its native side agree
\* of the stream, whichever step of a start or stop failed, but for the UVC hub
\* left live by the returns at uvc/camera.rs:1010 and 1017, and for a Camera2
\* device lost between setRepeatingRequest and streaming = true.
THEOREM RestAgrees == ASSUME Parameters PROVE Spec => []AtRest
<1>1. ComponentsInv => AtRest
  BY ParametersEach, VPromises, MPromises, AvfPromises, UvcPromises, CameraPromises
     DEF ComponentsInv, AtRest
<1> QED BY <1>1, ComponentsInvariant, PTL

\* No buffer of the V4L2 ring, of any depth, and none of the MJPEG worker's two
\* is lost or in two hands.
THEOREM BuffersKept == ASSUME Parameters PROVE Spec => []BuffersConserved
<1>1. ComponentsInv => BuffersConserved
  BY ParametersEach, VPromises, UvcPromises DEF ComponentsInv, BuffersConserved
<1> QED BY <1>1, ComponentsInvariant, PTL

\* The device watcher compares sets of devices by inclusion and size: still its
\* snapshot is its last scan, device for device, of any finite set of them.
THEOREM LastScanShown == ASSUME Parameters PROVE Spec => []ShowsLastScan
<1>1. ComponentsInv => ShowsLastScan
  BY DEF ComponentsInv, WatchInv, WatchStages, ShowsLastScan
<1> QED BY <1>1, ComponentsInvariant, PTL

\* After a stop() of the watcher that joined its task neither task nor snapshot
\* moves; after one that was dropped, or found no handle any more, nothing is
\* published but what the task had weighed before.
THEOREM StoppedWatcherIsFinal == ASSUME Parameters PROVE Spec => W!FinalAfterStop
<1>1. ComponentsInv /\ [Next]_vars =>
        [/\ wOwner.at = "stopped" => UNCHANGED <<wShown, wTask>>
         /\ wCancel /\ wShown' # wShown => wTask.at = "publish"
         /\ wCancel /\ wTask'.at # wTask.at => wTask'.at \in {"ended", "sleep"}]_(W!vars)
  BY StepOfEach, WatchFinal DEF ComponentsInv, WatchQuiets
<1> QED BY <1>1, ComponentsInvariant, PTL DEF Spec, W!FinalAfterStop

\* The monitor never sleeps past a reason to recover, and the errors of an
\* ended stream count for the next at most once per source thread.
THEOREM MonitorWoken == ASSUME Parameters PROVE Spec => []WakesMonitor
<1>1. ComponentsInv => WakesMonitor
  BY ParametersEach, RPromises DEF ComponentsInv, WakesMonitor
<1> QED BY <1>1, ComponentsInvariant, PTL

\* A closed Java handle has no open session, whatever calls of whatever number
\* of threads were under way, and no session is open where no call could stop it.
THEOREM HandlesClose == ASSUME Parameters PROVE Spec => []HandleCloses
<1>1. ComponentsInv => HandleCloses
  BY ParametersEach, HandleClosed DEF ComponentsInv, HandleCloses
<1> QED BY <1>1, ComponentsInvariant, PTL

\* A good frame that was taken from its receiver leaves the Java reader with
\* the call that returns it, or once its session is over and the reader goes on
\* to a later one; the only other way is a call that looked up its session
\* before the reader went over to the frame's (lib.rs:568-582).
THEOREM GoodFrameReturned == ASSUME Parameters PROVE Spec => GoodFrameDelivered
<1>1. ComponentsInv /\ [Next]_vars =>
        [hReader.pending = "good" /\ hReader'.pending # "good" =>
           \/ \E t \in Threads : hThread[t].at = "reading" /\ hThread'[t].result = "frame"
           \/ hReader.session \notin hOpen /\ hReader'.session > hReader.session
           \/ \E t \in Threads : H!Overtaken(t) /\ hReader'.lock = t]_(H!vars)
  BY StepOfEach, ParametersEach, HandleDelivers DEF ComponentsInv, HandleInv, FrameLeaves
<1> QED BY <1>1, ComponentsInvariant, PTL DEF Spec, GoodFrameDelivered, H!GoodFrameDelivered

============================================================================
