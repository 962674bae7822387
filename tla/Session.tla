------------------------------ MODULE Session -------------------------------
(***************************************************************************)
(* Life of the capture sessions of one open camera (src/src/api.rs):       *)
(* Camera::start_inner with its spawned startup task and StartGuard,       *)
(* SessionInner::request_stop and stop, CaptureSession::close and Drop,    *)
(* the recovery task, and Camera::close.                                   *)
(*                                                                         *)
(* Sessions follow one another on the same camera and share its frame hub, *)
(* its source and its busy flag; each has flags, a watched state and a     *)
(* lifecycle mutex of its own.  The frame hub is seen through its snapshot *)
(* (FrameDelivery has the readers), the source through the calls made on   *)
(* it and whether it captures.                                             *)
(*                                                                         *)
(* A task is <<kind, id>>: the application task that opens the camera, the *)
(* ones that close or drop a session, and, per session, the spawned        *)
(* startup, recovery and stop tasks.  An action is what a task does up to  *)
(* its next await point or access to state another task may use.           *)
(***************************************************************************)
EXTENDS Integers

CONSTANTS
  Closers,      \* application tasks that close or drop sessions
  Candidates,   \* capture configurations a startup may try
  MaxAttempts,  \* ReconnectPolicy.max_attempts, 0 for None
  Reconnect,    \* the requests carry a ReconnectPolicy
  PromptStart,  \* a startup task runs before its start() is given up
  MaxSession,   \* bound: sessions opened
  MaxEpoch,     \* bound: frame hub epochs
  MaxLate       \* bound: stops left behind by cancelled closes at a time

ASSUME BoundsAssumption ==
  /\ Candidates \in Nat \ {0} /\ MaxAttempts \in Nat
  /\ Reconnect \in BOOLEAN /\ PromptStart \in BOOLEAN
  /\ MaxSession \in Nat \ {0} /\ MaxEpoch \in Nat /\ MaxLate \in Nat

Sessions == 1..MaxSession

Opener      == <<"open", 0>>
Starter(n)  == <<"start", n>>
Recoverer(n) == <<"recover", n>>
Stopper(n)  == <<"stop", n>>
CloserTasks == {<<"close", c>> : c \in Closers}
Tasks == {Opener} \cup CloserTasks
           \cup UNION {{Starter(n), Recoverer(n), Stopper(n)} : n \in Sessions}
NoTask == <<"none", 0>>

VARIABLES
  busy,      \* Camera.busy
  gone,      \* Camera.closed
  opened,    \* sessions created so far; the last one is the current one
  handed,    \* sessions start() returned and the application still holds
  hub,       \* Snapshot: epoch, active, recovering, reconnect, frame in latest
  source,    \* the source: handle present, session it captures for, see below
  late,      \* source.stop() calls left behind by a cancelled close()
  state,     \* SessionInner.state
  stopping,  \* SessionInner.stopping
  closed,    \* SessionInner.closed
  lock,      \* SessionInner.lifecycle: the task that holds it
  tx,        \* the startup task's oneshot channel
  pc,        \* what each task does next
  at,        \* the session it does it for
  got,       \* startup and recovery: what the attempt came to
  tries,     \* candidates tried by startup, attempts of recovery
  cause,     \* recovery: the trigger it answers, "none" before one
  flags      \* hub.start(): the recovery flags it read

camera  == <<busy, gone, opened, handed>>
session == <<state, stopping, closed, lock, tx>>
task    == <<pc, at, got, tries, cause, flags>>
vars    == <<camera, hub, source, late, session, task>>

-----------------------------------------------------------------------------
\* owner is 0 when the source does not capture; stuck marks a capture whose
\* stop was reported as failed.
Source == [open : BOOLEAN, owner : 0..MaxSession, stuck : BOOLEAN]
Off    == [open |-> TRUE, owner |-> 0, stuck |-> FALSE]

NoFlags == [recovering |-> FALSE, reconnect |-> FALSE]

Init ==
  /\ busy = FALSE /\ gone = FALSE /\ opened = 0 /\ handed = {}
  /\ hub = [epoch |-> 0, active |-> FALSE, recovering |-> FALSE,
            reconnect |-> FALSE, frame |-> FALSE]
  /\ source = Off /\ late = 0
  /\ state    = [n \in Sessions |-> "none"]
  /\ stopping = [n \in Sessions |-> FALSE]
  /\ closed   = [n \in Sessions |-> FALSE]
  /\ lock     = [n \in Sessions |-> NoTask]
  /\ tx       = [n \in Sessions |-> "pending"]
  /\ pc       = [t \in Tasks |-> "idle"]
  /\ at       = [t \in Tasks |-> IF t[1] \in {"start", "recover", "stop"} THEN t[2] ELSE 0]
  /\ got      = [t \in Tasks |-> "none"]
  /\ tries    = [t \in Tasks |-> 0]
  /\ cause    = [t \in Tasks |-> "none"]
  /\ flags    = [t \in Tasks |-> NoFlags]

-----------------------------------------------------------------------------
(* What the tasks call. *)

Goto(t, next) == pc' = [pc EXCEPT ![t] = next]

SetState(n, s) == state' = [state EXCEPT ![n] = s]

\* FrameHub::stop.
HubStopped == [hub EXCEPT !.active = FALSE, !.frame = FALSE]

\* FrameHub::disable_recovery, then end_recovery.
HubQuiet == [hub EXCEPT !.recovering = FALSE, !.reconnect = FALSE]

\* Source::stop.  Without a native handle nothing is done; otherwise the hub
\* is stopped first, and a failure may leave the hardware running.
SourceStop(ok) ==
  IF ~source.open THEN ok /\ UNCHANGED <<hub, source>>
  ELSE /\ hub' = HubStopped
       /\ \/ source' = [source EXCEPT !.owner = 0, !.stuck = FALSE]
          \/ ~ok /\ source.owner # 0 /\ source' = [source EXCEPT !.stuck = TRUE]

\* tokio's Mutex.
Free(n)  == lock[n] = NoTask
Take(t)  == lock' = [lock EXCEPT ![at[t]] = t]
Leave(t) == lock' = [lock EXCEPT ![at[t]] = NoTask]

-----------------------------------------------------------------------------
(* SessionInner::request_stop: the guard of a failed start, close, Drop.   *)

\* What the caller does after request_stop: close() goes on to stop().
AfterRequest(t) == IF t \in CloserTasks /\ got[t] = "close" THEN "stop" ELSE "idle"

RequestStop(t) ==
  LET n == at[t] IN
  /\ pc[t] = "request"
  /\ stopping' = [stopping EXCEPT ![n] = TRUE]
  /\ Goto(t, IF stopping[n] \/ closed[n] THEN AfterRequest(t) ELSE "announce")
  /\ UNCHANGED <<camera, hub, source, late, state, closed, lock, tx,
                 at, got, tries, cause, flags>>

RequestAnnounce(t) ==
  /\ pc[t] = "announce"
  /\ SetState(at[t], "Stopping")
  /\ Goto(t, "quiet")
  /\ UNCHANGED <<camera, hub, source, late, stopping, closed, lock, tx,
                 at, got, tries, cause, flags>>

RequestQuiet(t) ==
  /\ pc[t] = "quiet"
  /\ hub' = HubQuiet
  /\ Goto(t, "halt")
  /\ UNCHANGED <<camera, source, late, session, at, got, tries, cause, flags>>

\* Broken: nobody is left to run stop() when the session is dropped.
RequestHaltAlone(t) ==
  /\ pc[t] = "halt"
  /\ hub' = HubStopped
  /\ Goto(t, AfterRequest(t))
  /\ UNCHANGED <<camera, source, late, session, at, got, tries, cause, flags>>

\* hub.stop(), and the task that will run stop() is spawned.
RequestHalt(t) ==
  /\ pc[t] = "halt"
  /\ hub' = HubStopped
  /\ pc' = [pc EXCEPT ![t] = AfterRequest(t), ![Stopper(at[t])] = "stop"]
  /\ UNCHANGED <<camera, source, late, session, at, got, tries, cause, flags>>

-----------------------------------------------------------------------------
(* SessionInner::stop: the spawned stop task and close(). *)

\* Broken: closes the session again.
StopLockAgain(t) ==
  /\ pc[t] = "stop" /\ Free(at[t])
  /\ Take(t) /\ Goto(t, "stopQuiet")
  /\ stopping' = [stopping EXCEPT ![at[t]] = TRUE]
  /\ UNCHANGED <<camera, hub, source, late, state, closed, tx,
                 at, got, tries, cause, flags>>

\* With the lifecycle mutex, unless another task closed the session before.
StopLock(t) ==
  LET n == at[t] IN
  /\ pc[t] = "stop" /\ Free(n)
  /\ IF closed[n]
     THEN Goto(t, "idle") /\ UNCHANGED <<lock, stopping>>
     ELSE /\ Take(t) /\ Goto(t, "stopQuiet")
          /\ stopping' = [stopping EXCEPT ![n] = TRUE]
  /\ UNCHANGED <<camera, hub, source, late, state, closed, tx,
                 at, got, tries, cause, flags>>

\* Broken: trusts that request_stop cleared the recovery flags for good.
StopQuietSkipped(t) ==
  /\ pc[t] = "stopQuiet"
  /\ Goto(t, "stopHalt")
  /\ UNCHANGED <<camera, hub, source, late, session, at, got, tries, cause, flags>>

StopQuiet(t) ==
  /\ pc[t] = "stopQuiet"
  /\ hub' = HubQuiet
  /\ Goto(t, "stopHalt")
  /\ UNCHANGED <<camera, source, late, session, at, got, tries, cause, flags>>

StopHalt(t) ==
  /\ pc[t] = "stopHalt"
  /\ hub' = HubStopped
  /\ Goto(t, "stopSource")
  /\ UNCHANGED <<camera, source, late, session, at, got, tries, cause, flags>>

StopSource(t, ok) ==
  /\ pc[t] = "stopSource"
  /\ SourceStop(ok)
  /\ Goto(t, IF ok THEN "stopClosed" ELSE "stopFailed")
  /\ UNCHANGED <<camera, late, session, at, got, tries, cause, flags>>

\* Broken: a failed stop leaves without the final state.
StopClosedQuietly(t) ==
  /\ pc[t] \in {"stopClosed", "stopFailed"}
  /\ closed' = [closed EXCEPT ![at[t]] = TRUE]
  /\ Goto(t, IF pc[t] = "stopClosed" THEN "stopState" ELSE "stopFree")
  /\ UNCHANGED <<camera, hub, source, late, state, stopping, lock, tx,
                 at, got, tries, cause, flags>>

\* The final metrics are kept, then closed is set...
StopClosed(t) ==
  /\ pc[t] \in {"stopClosed", "stopFailed"}
  /\ closed' = [closed EXCEPT ![at[t]] = TRUE]
  /\ Goto(t, IF pc[t] = "stopClosed" THEN "stopState" ELSE "failState")
  /\ UNCHANGED <<camera, hub, source, late, state, stopping, lock, tx,
                 at, got, tries, cause, flags>>

\* ...then the state...
StopState(t) ==
  /\ pc[t] \in {"stopState", "failState"}
  /\ SetState(at[t], IF pc[t] = "stopState" THEN "Stopped" ELSE "Failed")
  /\ Goto(t, "stopFree")
  /\ UNCHANGED <<camera, hub, source, late, stopping, closed, lock, tx,
                 at, got, tries, cause, flags>>

\* ...and the camera is free.
StopFree(t) ==
  /\ pc[t] = "stopFree"
  /\ busy' = FALSE
  /\ Leave(t)
  /\ Goto(t, "idle")
  /\ UNCHANGED <<gone, opened, handed, hub, source, late, state, stopping, closed, tx,
                 at, got, tries, cause, flags>>

-----------------------------------------------------------------------------
(* The application: close(), Drop, and giving up on close(). *)

Close(t, n) ==
  /\ pc[t] = "idle" /\ n \in handed
  /\ pc'  = [pc  EXCEPT ![t] = "request"]
  /\ at'  = [at  EXCEPT ![t] = n]
  /\ got' = [got EXCEPT ![t] = "close"]
  /\ UNCHANGED <<camera, hub, source, late, session, tries, cause, flags>>

\* Nobody else may hold the session any more.
DropSession(t, n) ==
  /\ pc[t] = "idle" /\ n \in handed
  /\ \A u \in CloserTasks : at[u] = n => pc[u] = "idle"
  /\ handed' = handed \ {n}
  /\ pc'  = [pc  EXCEPT ![t] = IF stopping[n] THEN "idle" ELSE "request"]
  /\ at'  = [at  EXCEPT ![t] = n]
  /\ got' = [got EXCEPT ![t] = "drop"]
  /\ UNCHANGED <<busy, gone, opened, hub, source, late, session, tries, cause, flags>>

\* The future of close() is dropped at an await point: waiting for the
\* lifecycle mutex, or for source.stop(), which a blocking thread finishes.
CancelClose(t) ==
  /\ pc[t] \in {"stop", "stopSource"}
  /\ IF pc[t] = "stopSource"
     THEN late < MaxLate /\ late' = late + 1 /\ Leave(t)
     ELSE UNCHANGED <<lock, late>>
  /\ Goto(t, "idle")
  /\ UNCHANGED <<camera, hub, source, state, stopping, closed, tx,
                 at, got, tries, cause, flags>>

LateStop ==
  /\ late > 0
  /\ late' = late - 1
  /\ \E ok \in BOOLEAN : SourceStop(ok)
  /\ UNCHANGED <<camera, session, task>>

-----------------------------------------------------------------------------
(* Camera::start_inner and Camera::close, the task that owns the camera.   *)

\* busy.swap; a camera that is busy or was closed refuses.
OpenClaim ==
  /\ pc[Opener] = "idle" /\ ~busy /\ ~gone
  /\ opened < MaxSession
  /\ busy' = TRUE
  /\ Goto(Opener, "configure")
  /\ UNCHANGED <<gone, opened, handed, hub, source, late, session,
                 at, got, tries, cause, flags>>

\* hub.configure, which refuses while the hub is active or when retained
\* frames exceed the new budget (fits).
OpenConfigure(fits) ==
  /\ pc[Opener] = "configure"
  /\ IF hub.active \/ ~fits
     THEN /\ busy' = FALSE
          /\ Goto(Opener, "idle")
          /\ UNCHANGED <<opened, at, state>>
     ELSE /\ opened' = opened + 1
          /\ at' = [at EXCEPT ![Opener] = opened + 1]
          /\ SetState(opened + 1, "Starting")
          /\ Goto(Opener, "options")
          /\ UNCHANGED busy
  /\ UNCHANGED <<gone, handed, hub, source, late, stopping, closed, lock, tx,
                 got, tries, cause, flags>>

\* apply_backend_options, then the startup task is spawned.  From here on
\* the guard asks the session to stop when the start fails.
OpenOptions(ok) ==
  /\ pc[Opener] = "options"
  /\ pc' = IF ok THEN [pc EXCEPT ![Opener] = "await", ![Starter(opened)] = "lock"]
           ELSE [pc EXCEPT ![Opener] = "request"]
  /\ UNCHANGED <<camera, hub, source, late, session, at, got, tries, cause, flags>>

\* The channel delivers.  A mode that cannot be reported fails the start.
OpenResult(reported) ==
  /\ pc[Opener] = "await" /\ tx[opened] \in {"ok", "err"}
  /\ Goto(Opener, IF tx[opened] = "ok" /\ reported THEN "streaming" ELSE "request")
  /\ UNCHANGED <<camera, hub, source, late, session, at, got, tries, cause, flags>>

\* The deadline passes, or the application drops the future of start():
\* the receiving half of the channel goes first.  PromptStart rules out that
\* this comes before the startup task has the lifecycle mutex.
OpenTimeout ==
  /\ pc[Opener] = "await"
  /\ PromptStart => pc[Starter(opened)] # "lock"
  /\ tx' = [tx EXCEPT ![opened] = "dropped"]
  /\ Goto(Opener, "request")
  /\ UNCHANGED <<camera, hub, source, late, state, stopping, closed, lock,
                 at, got, tries, cause, flags>>

OpenStreaming ==
  /\ pc[Opener] = "streaming"
  /\ SetState(opened, "Streaming")
  /\ Goto(Opener, "handover")
  /\ UNCHANGED <<camera, hub, source, late, stopping, closed, lock, tx,
                 at, got, tries, cause, flags>>

\* enable_recovery and spawn_recovery, and the session is the application's.
OpenHandover ==
  /\ pc[Opener] = "handover"
  /\ hub' = [hub EXCEPT !.reconnect = @ \/ Reconnect]
  /\ handed' = handed \cup {opened}
  /\ pc' = [pc EXCEPT ![Opener] = "idle",
                      ![Recoverer(opened)] = IF Reconnect THEN "watch" ELSE "idle"]
  /\ UNCHANGED <<busy, gone, opened, source, late, session, at, got, tries, cause, flags>>

\* Camera::close refuses while busy, then Source::release: the handle is
\* given up once source.stop() succeeded.
CloseCamera(ok) ==
  /\ pc[Opener] = "idle" /\ ~busy
  /\ gone' = TRUE
  /\ IF source.open /\ ok
     THEN hub' = HubStopped /\ source' = [Off EXCEPT !.open = FALSE]
     ELSE SourceStop(ok)
  /\ UNCHANGED <<busy, opened, handed, late, session, task>>

-----------------------------------------------------------------------------
(* Source::start, by the startup and recovery tasks.                       *)

\* FrameHub::start reads the recovery flags...
SourceStartBegin(t) ==
  /\ pc[t] = "begin" /\ source.open
  /\ hub.epoch < MaxEpoch
  /\ flags' = [flags EXCEPT ![t] = [recovering |-> hub.recovering,
                                    reconnect |-> hub.reconnect]]
  /\ Goto(t, "started")
  /\ UNCHANGED <<camera, hub, source, late, session, at, got, tries, cause>>

\* Broken: a new epoch forgets that recovery is enabled.
HubStartedAfresh(t) ==
  [epoch |-> hub.epoch + 1, active |-> TRUE, frame |-> FALSE,
   recovering |-> flags[t].recovering, reconnect |-> FALSE]

\* ...and replaces the snapshot.
HubStarted(t) ==
  [epoch |-> hub.epoch + 1, active |-> TRUE, frame |-> FALSE,
   recovering |-> flags[t].recovering, reconnect |-> flags[t].reconnect]

SourceStartEnd(t) ==
  /\ pc[t] = "started"
  /\ hub' = HubStarted(t)
  /\ source' = [source EXCEPT !.owner = at[t], !.stuck = FALSE]
  /\ Goto(t, "first")
  /\ UNCHANGED <<camera, late, session, at, got, tries, cause, flags>>

\* The device refuses before an epoch is begun, or after: most backends then
\* stop the hub, some leave that to the caller.
SourceStartFails(t) ==
  /\ \/ pc[t] = "begin" /\ UNCHANGED hub
     \/ pc[t] = "started" /\ hub' \in {HubStarted(t), [HubStarted(t) EXCEPT !.active = FALSE]}
  /\ got' = [got EXCEPT ![t] = "err"]
  /\ Goto(t, "judge")
  /\ UNCHANGED <<camera, source, late, session, at, tries, cause, flags>>

\* wait_first_in: a frame of the new epoch, in a mode that may be accepted.
FirstFrame(t, accepted) ==
  /\ pc[t] = "first" /\ hub.frame
  /\ got' = [got EXCEPT ![t] = IF accepted THEN "ok" ELSE "err"]
  /\ Goto(t, "judge")
  /\ UNCHANGED <<camera, hub, source, late, session, at, tries, cause, flags>>

\* No frame before the timeout, or the hub stopped meanwhile.
NoFirstFrame(t) ==
  /\ pc[t] = "first"
  /\ got' = [got EXCEPT ![t] = "err"]
  /\ Goto(t, "judge")
  /\ UNCHANGED <<camera, hub, source, late, session, at, tries, cause, flags>>

-----------------------------------------------------------------------------
(* The startup task.                                                       *)

StartLock(n) ==
  LET t == Starter(n) IN
  /\ pc[t] = "lock" /\ Free(n)
  /\ Take(t)
  /\ Goto(t, "candidate")
  /\ got' = [got EXCEPT ![t] = "err"]
  /\ UNCHANGED <<camera, hub, source, late, state, stopping, closed, tx,
                 at, tries, cause, flags>>

\* Nobody waits for the start any more.
Unwanted(n) == stopping[n] \/ tx[n] = "dropped"

\* The next candidate, unless there is none or the start was given up.
StartCandidate(n) ==
  LET t == Starter(n) IN
  /\ pc[t] = "candidate"
  /\ IF Unwanted(n) \/ tries[t] = Candidates
     THEN Goto(t, "finish") /\ UNCHANGED tries
     ELSE Goto(t, "begin") /\ tries' = [tries EXCEPT ![t] = @ + 1]
  /\ UNCHANGED <<camera, hub, source, late, session, at, got, cause, flags>>

\* A candidate that failed is stopped before the next one is tried.
StartJudge(n) ==
  LET t == Starter(n) IN
  /\ pc[t] = "judge"
  /\ IF got[t] = "ok"
     THEN Goto(t, "finish") /\ UNCHANGED <<hub, source>>
     ELSE Goto(t, "candidate") /\ \E ok \in BOOLEAN : SourceStop(ok)
  /\ UNCHANGED <<camera, late, session, at, got, tries, cause, flags>>

\* The start is over.  A result somebody waits for is sent, holding the
\* lifecycle mutex; otherwise the source is stopped...
StartFinish(n) ==
  LET t == Starter(n) IN
  /\ pc[t] = "finish"
  /\ IF Unwanted(n) \/ got[t] = "err"
     THEN Goto(t, "abort") /\ \E ok \in BOOLEAN : SourceStop(ok)
     ELSE Goto(t, "send") /\ UNCHANGED <<hub, source>>
  /\ UNCHANGED <<camera, late, session, at, got, tries, cause, flags>>

\* ...the flags of a closed session are set...
StartAbort(n) ==
  LET t == Starter(n) IN
  /\ pc[t] = "abort"
  /\ stopping' = [stopping EXCEPT ![n] = TRUE]
  /\ closed' = [closed EXCEPT ![n] = TRUE]
  /\ Goto(t, "abortState")
  /\ UNCHANGED <<camera, hub, source, late, state, lock, tx, at, got, tries, cause, flags>>

StartAbortState(n) ==
  LET t == Starter(n) IN
  /\ pc[t] = "abortState"
  /\ SetState(n, "Stopped")
  /\ Goto(t, "abortFree")
  /\ UNCHANGED <<camera, hub, source, late, stopping, closed, lock, tx,
                 at, got, tries, cause, flags>>

\* ...and the camera is free.
StartAbortFree(n) ==
  LET t == Starter(n) IN
  /\ pc[t] = "abortFree"
  /\ busy' = FALSE
  /\ Goto(t, "send")
  /\ UNCHANGED <<gone, opened, handed, hub, source, late, session,
                 at, got, tries, cause, flags>>

StartSend(n) ==
  LET t == Starter(n) IN
  /\ pc[t] = "send"
  /\ tx' = [tx EXCEPT ![n] = IF @ = "dropped" THEN @ ELSE got[t]]
  /\ Leave(t)
  /\ Goto(t, "idle")
  /\ UNCHANGED <<camera, hub, source, late, state, stopping, closed,
                 at, got, tries, cause, flags>>

-----------------------------------------------------------------------------
(* The recovery task.                                                      *)

\* wait_for_recovery_trigger returns, or the retry delay has passed.
RecoverWake(n) ==
  LET t == Recoverer(n) IN
  /\ pc[t] = "watch"
  /\ IF cause[t] # "none" THEN UNCHANGED cause
     ELSE cause' = [cause EXCEPT ![t] = IF hub.active THEN "stall" ELSE "stopped"]
  /\ got' = [got EXCEPT ![t] = IF cause[t] = "none" THEN "fresh" ELSE "retry"]
  /\ Goto(t, IF stopping[n] THEN "idle" ELSE "lock")
  /\ UNCHANGED <<camera, hub, source, late, session, at, tries, flags>>

\* Attempts are told apart up to the second one and the last one allowed.
OneMore(attempt) == IF attempt > MaxAttempts + 1 THEN attempt ELSE attempt + 1

\* With the lifecycle mutex the session is looked at again, and a fresh
\* trigger too: an active source may have come back to life.
RecoverLock(n) ==
  LET t == Recoverer(n) IN
  /\ pc[t] = "lock" /\ Free(n)
  /\ \/ /\ stopping[n]
        /\ Goto(t, "idle")
        /\ UNCHANGED <<lock, cause, tries>>
     \/ /\ ~stopping[n] /\ got[t] = "fresh" /\ hub.active
        /\ cause' = [cause EXCEPT ![t] = "none"]
        /\ Goto(t, "watch")
        /\ UNCHANGED <<lock, tries>>
     \/ /\ ~stopping[n]
        /\ Take(t)
        /\ tries' = [tries EXCEPT ![t] = OneMore(@)]
        /\ Goto(t, "recovering")
        /\ UNCHANGED cause
  /\ UNCHANGED <<camera, hub, source, late, state, stopping, closed, tx, at, got, flags>>

RecoverState(n) ==
  LET t == Recoverer(n) IN
  /\ pc[t] = "recovering"
  /\ SetState(n, "Recovering")
  /\ Goto(t, "announce recovery")
  /\ UNCHANGED <<camera, hub, source, late, stopping, closed, lock, tx,
                 at, got, tries, cause, flags>>

\* begin_recovery.
RecoverBegin(n) ==
  LET t == Recoverer(n) IN
  /\ pc[t] = "announce recovery"
  /\ hub' = [hub EXCEPT !.recovering = TRUE]
  /\ Goto(t, "stop old")
  /\ UNCHANGED <<camera, source, late, session, at, got, tries, cause, flags>>

\* The old stream is stopped.  The device is reopened on a retry, after a
\* disconnect, and when it would not stop.
RecoverStop(n, ok) ==
  LET t == Recoverer(n) IN
  /\ pc[t] = "stop old"
  /\ SourceStop(ok)
  /\ Goto(t, IF tries[t] > 1 \/ cause[t] = "stopped" \/ ~ok THEN "reopen" ELSE "restart")
  /\ UNCHANGED <<camera, late, session, at, got, tries, cause, flags>>

\* Broken: the old handle is given up while it captures.
RecoverReopenRunning(n, found, ok) ==
  LET t == Recoverer(n) IN
  /\ pc[t] = "reopen"
  /\ ok => found
  /\ hub' = IF source.open THEN HubStopped ELSE hub
  /\ source' = [source EXCEPT !.open = found]
  /\ got' = [got EXCEPT ![t] = IF ok THEN @ ELSE "err"]
  /\ Goto(t, IF ok THEN "restart" ELSE "judge")
  /\ UNCHANGED <<camera, late, session, at, tries, cause, flags>>

\* NativeSource::reopen drops the handle before it looks for the device, and
\* the backend options are applied again.
RecoverReopen(n, found, ok) ==
  LET t == Recoverer(n) IN
  /\ pc[t] = "reopen"
  /\ ok => found
  /\ hub' = IF source.open THEN HubStopped ELSE hub
  /\ source' = [Off EXCEPT !.open = found]
  /\ got' = [got EXCEPT ![t] = IF ok THEN @ ELSE "err"]
  /\ Goto(t, IF ok THEN "restart" ELSE "judge")
  /\ UNCHANGED <<camera, late, session, at, tries, cause, flags>>

RecoverRestart(n) ==
  LET t == Recoverer(n) IN
  /\ pc[t] = "restart"
  /\ got' = [got EXCEPT ![t] = IF stopping[n] THEN "err" ELSE @]
  /\ Goto(t, IF stopping[n] THEN "judge" ELSE "begin")
  /\ UNCHANGED <<camera, hub, source, late, session, at, tries, cause, flags>>

\* The attempt is over.  A session that was asked to stop stops the source.
RecoverJudge(n) ==
  LET t == Recoverer(n) IN
  /\ pc[t] = "judge"
  /\ \/ /\ stopping[n]
        /\ \E ok \in BOOLEAN : SourceStop(ok)
        /\ Leave(t) /\ Goto(t, "idle")
     \/ /\ ~stopping[n] /\ got[t] = "ok"
        /\ Goto(t, "recovered")
        /\ UNCHANGED <<hub, source, lock>>
     \/ /\ ~stopping[n] /\ got[t] = "err"
        /\ \E ok \in BOOLEAN : SourceStop(ok)
        /\ Goto(t, "failed")
        /\ UNCHANGED lock
  /\ UNCHANGED <<camera, late, state, stopping, closed, tx, at, got, tries, cause, flags>>

\* end_recovery...
RecoverEnd(n) ==
  LET t == Recoverer(n) IN
  /\ pc[t] = "recovered"
  /\ hub' = [hub EXCEPT !.recovering = FALSE]
  /\ Goto(t, "report")
  /\ UNCHANGED <<camera, source, late, session, at, got, tries, cause, flags>>

\* ...and the session streams again.
RecoverStreaming(n) ==
  LET t == Recoverer(n) IN
  /\ pc[t] = "report"
  /\ SetState(n, "Streaming")
  /\ tries' = [tries EXCEPT ![t] = 0]
  /\ cause' = [cause EXCEPT ![t] = "none"]
  /\ Leave(t) /\ Goto(t, "watch")
  /\ UNCHANGED <<camera, hub, source, late, stopping, closed, tx, at, got, flags>>

\* hub.stop() after a failed attempt, and another one unless this was the
\* last the policy allows.
RecoverFailed(n) ==
  LET t == Recoverer(n) IN
  /\ pc[t] = "failed"
  /\ hub' = HubStopped
  /\ IF MaxAttempts > 0 /\ tries[t] >= MaxAttempts
     THEN Goto(t, "exhausted") /\ UNCHANGED lock
     ELSE Goto(t, "watch") /\ Leave(t)
  /\ UNCHANGED <<camera, source, late, state, stopping, closed, tx,
                 at, got, tries, cause, flags>>

\* Recovery is exhausted: the error is reported...
RecoverExhausted(n) ==
  LET t == Recoverer(n) IN
  /\ pc[t] = "exhausted"
  /\ SetState(n, "Failed")
  /\ Goto(t, "give up")
  /\ UNCHANGED <<camera, hub, source, late, stopping, closed, lock, tx,
                 at, got, tries, cause, flags>>

\* ...then the session is marked...
RecoverGiveUp(n) ==
  LET t == Recoverer(n) IN
  /\ pc[t] = "give up"
  /\ stopping' = [stopping EXCEPT ![n] = TRUE]
  /\ Goto(t, "give up hub")
  /\ UNCHANGED <<camera, hub, source, late, state, closed, lock, tx,
                 at, got, tries, cause, flags>>

\* ...the hub's flags are cleared...
RecoverGiveUpHub(n) ==
  LET t == Recoverer(n) IN
  /\ pc[t] = "give up hub"
  /\ hub' = HubQuiet
  /\ Goto(t, "give up source")
  /\ UNCHANGED <<camera, source, late, session, at, got, tries, cause, flags>>

\* ...it is stopped, and the source again...
RecoverGiveUpSource(n) ==
  LET t == Recoverer(n) IN
  /\ pc[t] = "give up source"
  /\ IF source.open THEN \E ok \in BOOLEAN : SourceStop(ok)
     ELSE hub' = HubStopped /\ UNCHANGED source
  /\ Goto(t, "give up closed")
  /\ UNCHANGED <<camera, late, session, at, got, tries, cause, flags>>

\* ...the session is closed...
RecoverClosed(n) ==
  LET t == Recoverer(n) IN
  /\ pc[t] = "give up closed"
  /\ closed' = [closed EXCEPT ![n] = TRUE]
  /\ Goto(t, "give up free")
  /\ UNCHANGED <<camera, hub, source, late, state, stopping, lock, tx,
                 at, got, tries, cause, flags>>

\* ...and the camera is free.
RecoverFree(n) ==
  LET t == Recoverer(n) IN
  /\ pc[t] = "give up free"
  /\ busy' = FALSE
  /\ Leave(t) /\ Goto(t, "idle")
  /\ UNCHANGED <<gone, opened, handed, hub, source, late, state, stopping, closed, tx,
                 at, got, tries, cause, flags>>

-----------------------------------------------------------------------------
(* The device.                                                             *)

SourceFrame ==
  /\ source.owner # 0 /\ ~source.stuck /\ hub.active
  /\ hub' = [hub EXCEPT !.frame = TRUE]
  /\ UNCHANGED <<camera, source, late, session, task>>

\* The device is unplugged or its stream ends: the backend's worker stops
\* the hub on its way out.
SourceLost ==
  /\ source.owner # 0
  /\ hub' = HubStopped
  /\ source' = [source EXCEPT !.owner = 0, !.stuck = FALSE]
  /\ UNCHANGED <<camera, late, session, task>>

-----------------------------------------------------------------------------
RequestStep(t) == RequestStop(t) \/ RequestAnnounce(t) \/ RequestQuiet(t) \/ RequestHalt(t)

StopStep(t) ==
  \/ StopLock(t) \/ StopQuiet(t) \/ StopHalt(t)
  \/ \E ok \in BOOLEAN : StopSource(t, ok)
  \/ StopClosed(t) \/ StopState(t) \/ StopFree(t)

OpenStep ==
  \/ \E fits \in BOOLEAN : OpenConfigure(fits)
  \/ \E ok \in BOOLEAN : OpenOptions(ok)
  \/ \E reported \in BOOLEAN : OpenResult(reported)
  \/ OpenStreaming \/ OpenHandover

AttemptStep(t) ==
  \/ SourceStartBegin(t) \/ SourceStartEnd(t) \/ SourceStartFails(t)
  \/ \E accepted \in BOOLEAN : FirstFrame(t, accepted)
  \/ NoFirstFrame(t)

StartStep(n) ==
  \/ StartLock(n) \/ StartCandidate(n) \/ StartJudge(n) \/ StartFinish(n)
  \/ StartAbort(n) \/ StartAbortState(n) \/ StartAbortFree(n) \/ StartSend(n)
  \/ AttemptStep(Starter(n))

\* What recovery does once it holds the lifecycle mutex.
RecoverStep(n) ==
  \/ RecoverState(n) \/ RecoverBegin(n) \/ RecoverRestart(n)
  \/ \E ok \in BOOLEAN : RecoverStop(n, ok)
  \/ \E found, ok \in BOOLEAN : RecoverReopen(n, found, ok)
  \/ RecoverJudge(n) \/ RecoverEnd(n) \/ RecoverStreaming(n)
  \/ RecoverFailed(n) \/ RecoverExhausted(n) \/ RecoverGiveUp(n)
  \/ RecoverGiveUpHub(n) \/ RecoverGiveUpSource(n) \/ RecoverClosed(n) \/ RecoverFree(n)
  \/ AttemptStep(Recoverer(n))

Next ==
  \/ OpenClaim \/ OpenStep \/ OpenTimeout
  \/ \E ok \in BOOLEAN : CloseCamera(ok)
  \/ \E t \in CloserTasks :
       (\E n \in Sessions : Close(t, n) \/ DropSession(t, n)) \/ CancelClose(t)
  \/ \E t \in CloserTasks \cup {Opener} : RequestStep(t)
  \/ \E t \in CloserTasks \cup {Stopper(n) : n \in Sessions} : StopStep(t)
  \/ \E n \in Sessions :
       StartStep(n) \/ RecoverWake(n) \/ RecoverLock(n) \/ RecoverStep(n)
  \/ LateStop \/ SourceFrame \/ SourceLost

Spec == Init /\ [][Next]_vars

\* Spawned tasks run and calls into the device return: every task goes on
\* from where it is, wait_first_in has a deadline, and tokio's mutexes serve
\* their waiters in order.  Nothing obliges the application to close a
\* session, to wait for close(), or the device to deliver.
Fairness ==
  /\ WF_vars(OpenStep)
  /\ \A t \in CloserTasks \cup {Opener} : WF_vars(RequestStep(t))
  /\ \A n \in Sessions :
       /\ SF_vars(StopStep(Stopper(n)))
       /\ WF_vars(StartStep(n)) /\ WF_vars(RecoverStep(n))
       /\ WF_vars(RecoverWake(n)) /\ SF_vars(RecoverLock(n))
  /\ \A t \in CloserTasks : WF_vars(StopStep(t) /\ pc[t] # "stop")

FairSpec == Spec /\ Fairness

-----------------------------------------------------------------------------
States == {"none", "Starting", "Streaming", "Recovering", "Stopping", "Stopped", "Failed"}

\* What a task can be at: the points between its steps.
Points ==
  {"idle", "configure", "options", "await", "streaming", "handover",
   "request", "announce", "quiet", "halt",
   "stop", "stopQuiet", "stopHalt", "stopSource", "stopClosed", "stopFailed",
   "stopState", "failState", "stopFree",
   "lock", "candidate", "begin", "started", "first", "judge", "finish",
   "abort", "abortState", "abortFree", "send",
   "watch", "recovering", "announce recovery", "stop old", "reopen", "restart",
   "recovered", "report", "failed", "exhausted",
   "give up", "give up hub", "give up source", "give up closed", "give up free"}

\* A source without a native handle captures for nobody.
TypeOK ==
  /\ busy \in BOOLEAN /\ gone \in BOOLEAN
  /\ opened \in 0..MaxSession /\ handed \subseteq 1..opened
  /\ hub \in [epoch : Nat, active : BOOLEAN, recovering : BOOLEAN,
              reconnect : BOOLEAN, frame : BOOLEAN]
  /\ source \in Source /\ (~source.open => source.owner = 0) /\ late \in Nat
  /\ state \in [Sessions -> States]
  /\ stopping \in [Sessions -> BOOLEAN] /\ closed \in [Sessions -> BOOLEAN]
  /\ lock \in [Sessions -> Tasks \cup {NoTask}]
  /\ tx \in [Sessions -> {"pending", "ok", "err", "dropped"}]
  /\ pc \in [Tasks -> Points] /\ at \in [Tasks -> 0..MaxSession]
  /\ got \in [Tasks -> {"none", "ok", "err", "fresh", "retry", "close", "drop"}]
  /\ tries \in [Tasks -> Nat]
  /\ cause \in [Tasks -> {"none", "stopped", "stall"}]
  /\ flags \in [Tasks -> [recovering : BOOLEAN, reconnect : BOOLEAN]]

\* One session at a time: a session is created only when the one before it
\* has been closed, and a camera that is not busy has no open session.
OneSession ==
  /\ \A n \in 1..opened : n < opened => closed[n]
  /\ ~busy /\ opened > 0 => closed[opened]

\* The camera becomes free only once capture is over for good: nothing the
\* closed session left running, whatever it was doing when it was asked to
\* stop, publishes, announces a recovery or captures.
FreeMeansQuiet ==
  ~busy =>
    /\ ~hub.active /\ ~hub.recovering /\ ~hub.reconnect
    /\ source.owner = 0 \/ source.stuck

\* A session that was not asked to stop and streams keeps its receivers: while
\* it recovers, a snapshot never reads as the end of the stream to them.
RecoveryKeepsReceivers ==
  \A n \in handed :
    state[n] \in {"Streaming", "Recovering"} /\ ~stopping[n] /\ Reconnect =>
      hub.active \/ hub.recovering \/ hub.reconnect

\* A session that was closed leaves its successor alone: no step of a task
\* that works for an earlier session stops the hub.
OldSessionHarmless ==
  [][\A t \in Tasks :
       pc'[t] # pc[t] /\ 0 < at[t] /\ at[t] < opened /\ hub.active => hub'.active]_vars

\* API.md: failed session state retains the original error.
FailureKept ==
  [][\A n \in Sessions : state[n] = "Failed" => state'[n] = "Failed"]_vars

\* A stop always completes: the session is closed and the camera can be used
\* again, whether startup or a recovery was under way, also when the close()
\* that asked for it was cancelled or the source's stop failed.
StopCompletes ==
  \A n \in Sessions : stopping[n] ~> (closed[n] /\ (~busy \/ opened > n))

\* A request_stop that has swapped `stopping` and not yet announced it, when
\* the session ended already: the recovery that gave up, or the stop of another
\* closer, was faster (api.rs:1745-1748).
AnnouncedLate(n) ==
  /\ state[n] \in {"Stopped", "Failed"}
  /\ \E t \in CloserTasks \cup {Opener} : pc[t] = "announce" /\ at[t] = n

\* Whoever watches the state of a session that was stopped sees it end and not
\* leave its last state, unless a request_stop announces itself late: then the
\* state says Stopping for ever.
StateEnds ==
  \A n \in Sessions :
    \/ <>AnnouncedLate(n)
    \/ (stopping[n] /\ tx[n] = "ok") ~> [](state[n] \in {"Stopped", "Failed"})

=============================================================================
