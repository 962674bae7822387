-------------------------- MODULE Session_proofs ---------------------------
(***************************************************************************)
(* Theorems about Session, for any application tasks, candidates, recovery *)
(* policy and numbers of sessions and epochs: sessions do not overlap, and *)
(* a camera becomes free only when nothing captures any more.  They are    *)
(* about the behaviours in which no start() is given up before its task    *)
(* has the lifecycle mutex, whatever PromptStart is.  In the others they   *)
(* do not hold: run abandoned_start shows one.                             *)
(***************************************************************************)
EXTENDS Session, TLAPS

-----------------------------------------------------------------------------
(* The inductive invariant: what the tasks do.                             *)

\* Between taking a session's lifecycle mutex and giving it back, but for
\* the report of a startup, which touches nothing the camera shares.
Working == {"candidate", "begin", "started", "first", "judge", "finish",
            "abort", "abortState", "abortFree",
            "recovering", "announce recovery", "stop old", "reopen", "restart",
            "recovered", "report", "failed", "exhausted",
            "give up", "give up hub", "give up source", "give up closed", "give up free",
            "stopQuiet", "stopHalt", "stopSource", "stopClosed", "stopFailed",
            "stopState", "failState", "stopFree"}

Holding == Working \cup {"send"}

\* The session is closed and the camera not yet free.
Closing == {"abortState", "abortFree", "give up free", "stopState", "failState", "stopFree"}

\* start() has a session which nobody else knows.
Opening == {"options", "await", "streaming", "handover"}

\* Stages of a stop that was asked for.
Asked == {"stopQuiet", "stopHalt", "stopSource", "stopClosed", "stopFailed",
          "give up hub", "give up source", "give up closed"}

\* Tasks keep their session, and the one that opens works for the last.
Places ==
  /\ \A n \in Sessions : at[Starter(n)] = n /\ at[Recoverer(n)] = n /\ at[Stopper(n)] = n
  /\ pc[Opener] \notin {"idle", "configure"} => opened > 0 /\ at[Opener] = opened

\* Who is between lock and unlock holds the mutex.
Held == \A t \in Tasks : pc[t] \in Holding => at[t] \in 1..opened /\ lock[at[t]] = t

\* Work is done for the last session only, while the camera is busy with it.
Works ==
  \A t \in Tasks : pc[t] \in Working =>
    /\ at[t] = opened /\ busy /\ pc[Opener] # "configure"
    /\ closed[opened] <=> pc[t] \in Closing
    /\ pc[t] \in Asked => stopping[opened]

\* Sessions follow one another.
Turns ==
  /\ \A n \in 1..opened : n < opened => closed[n]
  /\ opened > 0 /\ ~closed[opened] => busy /\ pc[Opener] # "configure"
  /\ pc[Opener] = "configure" => busy /\ opened < MaxSession
  /\ \A n \in Sessions : closed[n] => stopping[n]

\* A session still to be opened is untouched.
Fresh ==
  \A n \in Sessions : n > opened =>
    /\ ~stopping[n] /\ tx[n] = "pending"
    /\ pc[Starter(n)] = "idle" /\ pc[Recoverer(n)] = "idle" /\ pc[Stopper(n)] = "idle"

\* start() and its startup task are done with session n.
Delivered(n) ==
  /\ n \in 1..opened /\ pc[Starter(n)] = "idle"
  /\ n = opened => pc[Opener] \in {"idle", "configure"}

\* The application and the recovery task see delivered sessions only.
Clients ==
  /\ \A n \in handed : Delivered(n)
  /\ \A t \in CloserTasks : /\ at[t] # 0 => Delivered(at[t])
                            /\ pc[t] # "idle" => at[t] # 0
  /\ \A n \in Sessions : pc[Recoverer(n)] # "idle" => Delivered(n)

\* While start() waits, the startup task closes the session only to report
\* an error, and the channel has what it came to.
Awaited ==
  /\ tx[opened] # "dropped"
  /\ stopping[opened] => /\ pc[Starter(opened)] \in {"abortState", "abortFree", "send", "idle"}
                         /\ got[Starter(opened)] = "err"
  /\ pc[Starter(opened)] = "abort" => got[Starter(opened)] = "err"
  /\ tx[opened] # "pending" => /\ pc[Starter(opened)] = "idle"
                               /\ tx[opened] = got[Starter(opened)]

\* Until start() is over only the startup task acts for the session.
Startup ==
  /\ \A n \in Sessions : pc[Starter(n)] = "lock" => n = opened /\ pc[Opener] = "await"
  /\ \A n \in Sessions : pc[Starter(n)] \in Holding => got[Starter(n)] \in {"ok", "err"}
  /\ pc[Opener] \in Opening => pc[Stopper(opened)] = "idle"
  /\ pc[Opener] \in Opening \ {"await"} => ~stopping[opened] /\ pc[Starter(opened)] = "idle"
  /\ pc[Opener] = "options" => tx[opened] = "pending"
  /\ pc[Opener] = "await" => Awaited

Control == Places /\ Held /\ Works /\ Turns /\ Fresh /\ Clients /\ Startup

-----------------------------------------------------------------------------
(* The inductive invariant: the hub and the source.                        *)

Unflagged == ~hub.recovering /\ ~hub.reconnect
Inactive  == ~hub.active
Ended     == source.owner = 0 \/ source.stuck

\* Stages of a stop, an aborted start and an exhausted recovery after which
\* the recovery flags, the hub and the source are off.
AfterSource == {"abort", "abortState", "abortFree", "give up closed", "give up free",
             "stopClosed", "stopFailed", "stopState", "failState", "stopFree"}
AfterHub   == AfterSource \cup {"stopSource"}
AfterFlags == AfterHub \cup {"stopHalt", "give up source"}

Starters == {Starter(n) : n \in Sessions}

\* A source without a handle does not capture.
Handles == ~source.open => Inactive /\ source.owner = 0

\* What holds of the hub and the source when a task is where it is: whoever
\* works has come so far with them, and no recovery is announced before
\* start() hands the session over.
Stage(t) ==
  /\ pc[t] = "started" => source.open
  /\ pc[t] \in AfterFlags => Unflagged
  /\ pc[t] \in AfterHub => Inactive
  /\ pc[t] \in AfterSource => Ended
  /\ t = Opener /\ pc[t] \in Opening => Unflagged
  /\ t \in Starters /\ pc[t] \in Working => Unflagged
  /\ t \in Starters /\ pc[t] = "started" => flags[t] = NoFlags

\* A camera without a session is quiet.
Rest == ~busy \/ pc[Opener] = "configure" => Unflagged /\ Inactive /\ Ended

Quiet == Handles /\ (\A t \in Tasks : Stage(t)) /\ Rest

SessionInv == TypeOK /\ Control /\ Quiet

\* The step does not give a start() up whose task still waits for the mutex.
Prompt == OpenTimeout => pc[Starter(opened)] # "lock"

\* Where a task is between marking the session and stopping the hub.
Marks == {"announce", "quiet", "halt"}

\* A task that asked for a stop left its mark, and a session streams until it
\* is asked to stop, with the flag that keeps its receivers.
Kept ==
  /\ \A t \in CloserTasks \cup {Opener} : pc[t] \in Marks => stopping[at[t]]
  /\ \A n \in handed : ~stopping[n] /\ Reconnect =>
       /\ hub.reconnect
       /\ pc[Recoverer(n)] = "started" => flags[Recoverer(n)].reconnect

\* No close() of an earlier session is about to clear the recovery flags.
Undisturbed == \A t \in CloserTasks : pc[t] = "quiet" => at[t] = opened

-----------------------------------------------------------------------------
(* Tasks.                                                                  *)

\* The tasks are told apart by their kind and their session.
LEMMA TaskFacts ==
  /\ MaxSession \in Nat /\ MaxSession >= 1 /\ Sessions \subseteq Nat \ {0}
  /\ Opener \in Tasks /\ CloserTasks \subseteq Tasks /\ NoTask \notin Tasks
  /\ Opener \notin CloserTasks
  /\ \A n \in Sessions :
       /\ Starter(n) \in Tasks /\ Recoverer(n) \in Tasks /\ Stopper(n) \in Tasks
       /\ Starter(n) # Opener /\ Recoverer(n) # Opener /\ Stopper(n) # Opener
       /\ Starter(n) \notin CloserTasks /\ Recoverer(n) \notin CloserTasks
       /\ Stopper(n) \notin CloserTasks
       /\ \A m \in Sessions :
            /\ Starter(n) # Recoverer(m) /\ Starter(n) # Stopper(m) /\ Recoverer(n) # Stopper(m)
            /\ Starter(n) = Starter(m) => n = m
            /\ Recoverer(n) = Recoverer(m) => n = m
            /\ Stopper(n) = Stopper(m) => n = m
<1>1. MaxSession \in Nat /\ MaxSession >= 1 /\ Sessions \subseteq Nat \ {0}
  BY BoundsAssumption DEF Sessions
<1>2. Opener \in Tasks /\ CloserTasks \subseteq Tasks
  BY DEF Tasks
<1>3. NoTask \notin Tasks
  BY DEF Tasks, NoTask, Opener, CloserTasks, Starter, Recoverer, Stopper
<1>4. Opener \notin CloserTasks
  BY DEF Opener, CloserTasks
<1>5. ASSUME NEW n \in Sessions
      PROVE  /\ Starter(n) \in Tasks /\ Recoverer(n) \in Tasks /\ Stopper(n) \in Tasks
             /\ Starter(n) # Opener /\ Recoverer(n) # Opener /\ Stopper(n) # Opener
             /\ Starter(n) \notin CloserTasks /\ Recoverer(n) \notin CloserTasks
             /\ Stopper(n) \notin CloserTasks
             /\ \A m \in Sessions :
                  /\ Starter(n) # Recoverer(m) /\ Starter(n) # Stopper(m) /\ Recoverer(n) # Stopper(m)
                  /\ Starter(n) = Starter(m) => n = m
                  /\ Recoverer(n) = Recoverer(m) => n = m
                  /\ Stopper(n) = Stopper(m) => n = m
  <2>1. Starter(n) \in Tasks /\ Recoverer(n) \in Tasks /\ Stopper(n) \in Tasks
    BY DEF Tasks
  <2>2. /\ Starter(n) # Opener /\ Recoverer(n) # Opener /\ Stopper(n) # Opener
        /\ Starter(n) \notin CloserTasks /\ Recoverer(n) \notin CloserTasks
        /\ Stopper(n) \notin CloserTasks
    BY DEF Opener, CloserTasks, Starter, Recoverer, Stopper
  <2>3. \A m \in Sessions :
          /\ Starter(n) # Recoverer(m) /\ Starter(n) # Stopper(m) /\ Recoverer(n) # Stopper(m)
          /\ Starter(n) = Starter(m) => n = m
          /\ Recoverer(n) = Recoverer(m) => n = m
          /\ Stopper(n) = Stopper(m) => n = m
    BY DEF Starter, Recoverer, Stopper
  <2>4. QED
    BY <2>1, <2>2, <2>3
<1>6. QED
  BY <1>1, <1>2, <1>3, <1>4, <1>5

\* Every task is one of them.
LEMMA TaskKinds ==
  ASSUME NEW t \in Tasks, t # Opener, t \notin CloserTasks
  PROVE  \E n \in Sessions : t \in {Starter(n), Recoverer(n), Stopper(n)}
BY DEF Tasks

-----------------------------------------------------------------------------
(* Types.                                                                  *)

HubSet == [epoch : Nat, active : BOOLEAN, recovering : BOOLEAN,
           reconnect : BOOLEAN, frame : BOOLEAN]

FlagSet == [recovering : BOOLEAN, reconnect : BOOLEAN]

GotSet == {"none", "ok", "err", "fresh", "retry", "close", "drop"}

CauseSet == {"none", "stopped", "stall"}

TxSet == {"pending", "ok", "err", "dropped"}

\* The type invariant, of the sets named above, but for what it says of a
\* source without a handle, which Handles says too.
Types ==
  /\ busy \in BOOLEAN /\ gone \in BOOLEAN
  /\ opened \in 0..MaxSession /\ handed \subseteq 1..opened
  /\ hub \in HubSet /\ source \in Source /\ late \in Nat
  /\ state \in [Sessions -> States]
  /\ stopping \in [Sessions -> BOOLEAN] /\ closed \in [Sessions -> BOOLEAN]
  /\ lock \in [Sessions -> Tasks \cup {NoTask}] /\ tx \in [Sessions -> TxSet]
  /\ pc \in [Tasks -> Points] /\ at \in [Tasks -> 0..MaxSession]
  /\ got \in [Tasks -> GotSet] /\ tries \in [Tasks -> Nat]
  /\ cause \in [Tasks -> CauseSet] /\ flags \in [Tasks -> FlagSet]

\* What the steps do to the hub.
LEMMA HubFacts ==
  ASSUME Types, NEW t \in Tasks
  PROVE  /\ hub \in HubSet
         /\ HubStopped \in HubSet /\ HubQuiet \in HubSet /\ HubStarted(t) \in HubSet
         /\ [hub EXCEPT !.frame = TRUE] \in HubSet /\ [hub EXCEPT !.recovering = TRUE] \in HubSet
         /\ [hub EXCEPT !.recovering = FALSE] \in HubSet
         /\ \A b \in BOOLEAN : [hub EXCEPT !.reconnect = @ \/ b] \in HubSet
         /\ [HubStarted(t) EXCEPT !.active = FALSE] \in HubSet
         /\ [recovering |-> hub.recovering, reconnect |-> hub.reconnect] \in FlagSet
<1>1. hub \in HubSet /\ flags[t] \in FlagSet
  BY DEF Types, HubSet, FlagSet
<1>2. \A h \in HubSet : /\ h.epoch \in Nat /\ h.active \in BOOLEAN /\ h.recovering \in BOOLEAN
                        /\ h.reconnect \in BOOLEAN /\ h.frame \in BOOLEAN
                        /\ [h EXCEPT !.active = FALSE] \in HubSet
                        /\ [h EXCEPT !.frame = TRUE] \in HubSet
                        /\ [h EXCEPT !.recovering = TRUE] \in HubSet
                        /\ [h EXCEPT !.recovering = FALSE] \in HubSet
  BY DEF HubSet
<1>3. HubStopped \in HubSet /\ HubQuiet \in HubSet
  BY <1>1 DEF HubSet, HubStopped, HubQuiet
<1>4. HubStarted(t) \in HubSet
  <2>1. hub.epoch + 1 \in Nat /\ flags[t].recovering \in BOOLEAN /\ flags[t].reconnect \in BOOLEAN
    BY <1>1 DEF HubSet, FlagSet
  <2>2. QED
    BY <2>1 DEF HubSet, HubStarted
<1>5. \A b \in BOOLEAN : [hub EXCEPT !.reconnect = @ \/ b] \in HubSet
  BY <1>1 DEF HubSet
<1>6. [recovering |-> hub.recovering, reconnect |-> hub.reconnect] \in FlagSet
  BY <1>1 DEF HubSet, FlagSet
<1>7. QED
  BY <1>1, <1>2, <1>3, <1>4, <1>5, <1>6

\* What they do to the source.
LEMMA SourceFacts ==
  ASSUME Types
  PROVE  /\ source \in Source /\ Off \in Source
         /\ \A b \in BOOLEAN : [Off EXCEPT !.open = b] \in Source
         /\ [source EXCEPT !.owner = 0, !.stuck = FALSE] \in Source
         /\ [source EXCEPT !.stuck = TRUE] \in Source
         /\ \A n \in 0..MaxSession : [source EXCEPT !.owner = n, !.stuck = FALSE] \in Source
         /\ \A ok \in BOOLEAN : SourceStop(ok) => hub' \in HubSet /\ source' \in Source
<1>1. source \in Source /\ 0 \in 0..MaxSession
  BY TaskFacts DEF Types
<1>2. Off \in Source /\ \A b \in BOOLEAN : [Off EXCEPT !.open = b] \in Source
  BY <1>1 DEF Off, Source
<1>3. /\ [source EXCEPT !.stuck = TRUE] \in Source
      /\ \A n \in 0..MaxSession : [source EXCEPT !.owner = n, !.stuck = FALSE] \in Source
  BY <1>1 DEF Source
<1>4. [source EXCEPT !.owner = 0, !.stuck = FALSE] \in Source
  BY <1>1, <1>3
<1>5. \A ok \in BOOLEAN : SourceStop(ok) => hub' \in HubSet /\ source' \in Source
  <2>1. hub \in HubSet /\ HubStopped \in HubSet
    BY HubFacts, TaskFacts
  <2>2. QED
    BY <1>1, <1>3, <1>4, <2>1 DEF SourceStop
<1>6. QED
  BY <1>1, <1>2, <1>3, <1>4, <1>5


\* Numbers of sessions.
LEMMA SessionNumbers ==
  ASSUME Types
  PROVE  /\ \A n \in Sessions : n \in 0..MaxSession
         /\ opened \in Nat /\ (opened > 0 => opened \in 1..opened)
         /\ late + 1 \in Nat /\ (late > 0 => late - 1 \in Nat)
         /\ \A k \in Nat : OneMore(k) \in Nat /\ k + 1 \in Nat
         /\ opened < MaxSession => opened + 1 \in 0..MaxSession /\ handed \subseteq 1..(opened + 1)
<1>1. opened \in Nat /\ MaxSession \in Nat /\ handed \subseteq 1..opened
  BY TaskFacts DEF Types
<1>2. \A n \in Sessions : n \in 0..MaxSession
  BY <1>1 DEF Sessions
<1>3. opened < MaxSession => opened + 1 \in 0..MaxSession
  BY <1>1
<1>4. (\A n \in 1..opened : n \in 1..(opened + 1)) /\ (opened > 0 => opened \in 1..opened)
  BY <1>1
<1>5. late + 1 \in Nat /\ (late > 0 => late - 1 \in Nat)
  BY DEF Types
<1>6. \A k \in Nat : OneMore(k) \in Nat /\ k + 1 \in Nat
  BY BoundsAssumption DEF OneMore
<1>7. QED
  BY <1>1, <1>2, <1>3, <1>4, <1>5, <1>6

\* The names of the points.
LEMMA PointNames ==
  /\ "idle" \in Points /\ "configure" \in Points /\ "options" \in Points
  /\ "await" \in Points /\ "streaming" \in Points /\ "handover" \in Points
  /\ "request" \in Points /\ "announce" \in Points /\ "quiet" \in Points
  /\ "halt" \in Points /\ "stop" \in Points /\ "stopQuiet" \in Points
  /\ "stopHalt" \in Points /\ "stopSource" \in Points /\ "stopClosed" \in Points
  /\ "stopFailed" \in Points /\ "stopState" \in Points /\ "failState" \in Points
  /\ "stopFree" \in Points /\ "lock" \in Points /\ "candidate" \in Points
  /\ "begin" \in Points /\ "started" \in Points /\ "first" \in Points
  /\ "judge" \in Points /\ "finish" \in Points /\ "abort" \in Points
  /\ "abortState" \in Points /\ "abortFree" \in Points /\ "send" \in Points
  /\ "watch" \in Points /\ "recovering" \in Points /\ "announce recovery" \in Points
  /\ "stop old" \in Points /\ "reopen" \in Points /\ "restart" \in Points
  /\ "recovered" \in Points /\ "report" \in Points /\ "failed" \in Points
  /\ "exhausted" \in Points /\ "give up" \in Points /\ "give up hub" \in Points
  /\ "give up source" \in Points /\ "give up closed" \in Points
  /\ "give up free" \in Points
BY DEF Points

\* Going to a point.
LEMMA GotoPoint ==
  ASSUME pc \in [Tasks -> Points], NEW t, NEW x \in Points, Goto(t, x)
  PROVE  pc' \in [Tasks -> Points]
BY DEF Goto

\* Every step leads to one of the points: asking for a stop, and stop().
LEMMA PointsCloseStep ==
  ASSUME pc \in [Tasks -> Points],
         NEW t \in Tasks, RequestStep(t) \/ StopStep(t)
  PROVE  pc' \in [Tasks -> Points]
<1>1. CASE RequestStop(t)
  BY <1>1, GotoPoint, PointNames DEF RequestStop, AfterRequest
<1>2. CASE RequestAnnounce(t)
  BY <1>2, GotoPoint, PointNames DEF RequestAnnounce
<1>3. CASE RequestQuiet(t)
  BY <1>3, GotoPoint, PointNames DEF RequestQuiet
<1>4. CASE RequestHalt(t)
  BY <1>4, GotoPoint, PointNames DEF RequestHalt, AfterRequest
<1>5. CASE StopLock(t)
  <2>1. Goto(t, "idle") \/ Goto(t, "stopQuiet")
    BY <1>5 DEF StopLock
  <2>2. QED
    BY <2>1, GotoPoint, PointNames
<1>6. CASE StopQuiet(t)
  BY <1>6, GotoPoint, PointNames DEF StopQuiet
<1>7. CASE StopHalt(t)
  BY <1>7, GotoPoint, PointNames DEF StopHalt
<1>8. CASE \E ok \in BOOLEAN : StopSource(t, ok)
  BY <1>8, GotoPoint, PointNames DEF StopSource
<1>9. CASE StopClosed(t)
  BY <1>9, GotoPoint, PointNames DEF StopClosed
<1>10. CASE StopState(t)
  BY <1>10, GotoPoint, PointNames DEF StopState
<1>11. CASE StopFree(t)
  BY <1>11, GotoPoint, PointNames DEF StopFree
<1>12. QED
  BY <1>1, <1>2, <1>3, <1>4, <1>5, <1>6, <1>7, <1>8, <1>9, <1>10, <1>11 DEF RequestStep, StopStep

\* The application's calls.
LEMMA PointsCallStep ==
  ASSUME pc \in [Tasks -> Points],
         \/ OpenClaim \/ OpenStep \/ OpenTimeout
         \/ \E ok \in BOOLEAN : CloseCamera(ok)
         \/ \E t \in CloserTasks :
              (\E n \in Sessions : Close(t, n) \/ DropSession(t, n)) \/ CancelClose(t)
  PROVE  pc' \in [Tasks -> Points]
<1>1. CASE OpenClaim
  BY <1>1, GotoPoint, PointNames DEF OpenClaim
<1>2. CASE \E fits \in BOOLEAN : OpenConfigure(fits)
  BY <1>2, GotoPoint, PointNames DEF OpenConfigure
<1>3. CASE \E ok \in BOOLEAN : OpenOptions(ok)
  BY <1>3, GotoPoint, PointNames DEF OpenOptions
<1>4. CASE \E reported \in BOOLEAN : OpenResult(reported)
  <2>1. Goto(Opener, "streaming") \/ Goto(Opener, "request")
    BY <1>4 DEF OpenResult
  <2>2. QED
    BY <2>1, GotoPoint, PointNames
<1>5. CASE OpenTimeout
  BY <1>5, GotoPoint, PointNames DEF OpenTimeout
<1>6. CASE OpenStreaming
  BY <1>6, GotoPoint, PointNames DEF OpenStreaming
<1>7. CASE OpenHandover
  BY <1>7, GotoPoint, PointNames DEF OpenHandover
<1>8. CASE \E ok \in BOOLEAN : CloseCamera(ok)
  BY <1>8, GotoPoint, PointNames DEF CloseCamera, task
<1>9. CASE \E t \in CloserTasks, n \in Sessions : Close(t, n)
  BY <1>9, GotoPoint, PointNames DEF Close
<1>10. CASE \E t \in CloserTasks, n \in Sessions : DropSession(t, n)
  <2>1. \E t \in CloserTasks : Goto(t, "idle") \/ Goto(t, "request")
    BY <1>10 DEF DropSession, Goto
  <2>2. QED
    BY <2>1, GotoPoint, PointNames
<1>11. CASE \E t \in CloserTasks : CancelClose(t)
  BY <1>11, GotoPoint, PointNames DEF CancelClose
<1>12. QED
  BY <1>1, <1>2, <1>3, <1>4, <1>5, <1>6, <1>7, <1>8, <1>9, <1>10, <1>11 DEF OpenStep

\* An attempt to start the source.
LEMMA PointsAttemptStep ==
  ASSUME pc \in [Tasks -> Points],
         NEW t \in Tasks, AttemptStep(t)
  PROVE  pc' \in [Tasks -> Points]
<1>1. CASE SourceStartBegin(t)
  BY <1>1, GotoPoint, PointNames DEF SourceStartBegin
<1>2. CASE SourceStartEnd(t)
  BY <1>2, GotoPoint, PointNames DEF SourceStartEnd
<1>3. CASE SourceStartFails(t)
  BY <1>3, GotoPoint, PointNames DEF SourceStartFails
<1>4. CASE \E accepted \in BOOLEAN : FirstFrame(t, accepted)
  BY <1>4, GotoPoint, PointNames DEF FirstFrame
<1>5. CASE NoFirstFrame(t)
  BY <1>5, GotoPoint, PointNames DEF NoFirstFrame
<1>6. QED
  BY <1>1, <1>2, <1>3, <1>4, <1>5 DEF AttemptStep

\* The startup task, and what the device does.
LEMMA PointsStartStep ==
  ASSUME pc \in [Tasks -> Points],
         NEW n \in Sessions, StartStep(n) \/ LateStop \/ SourceFrame \/ SourceLost
  PROVE  pc' \in [Tasks -> Points]
<1>1. CASE StartLock(n)
  BY <1>1, GotoPoint, PointNames DEF StartLock
<1>2. CASE StartCandidate(n)
  BY <1>2, GotoPoint, PointNames DEF StartCandidate
<1>3. CASE StartJudge(n)
  BY <1>3, GotoPoint, PointNames DEF StartJudge
<1>4. CASE StartFinish(n)
  BY <1>4, GotoPoint, PointNames DEF StartFinish
<1>5. CASE StartAbort(n)
  BY <1>5, GotoPoint, PointNames DEF StartAbort
<1>6. CASE StartAbortState(n)
  BY <1>6, GotoPoint, PointNames DEF StartAbortState
<1>7. CASE StartAbortFree(n)
  BY <1>7, GotoPoint, PointNames DEF StartAbortFree
<1>8. CASE StartSend(n)
  BY <1>8, GotoPoint, PointNames DEF StartSend
<1>9. CASE AttemptStep(Starter(n))
  BY <1>9, PointsAttemptStep, TaskFacts
<1>10. CASE LateStop \/ SourceFrame \/ SourceLost
  BY <1>10, GotoPoint, PointNames DEF LateStop, SourceFrame, SourceLost, task
<1>11. QED
  BY <1>1, <1>2, <1>3, <1>4, <1>5, <1>6, <1>7, <1>8, <1>9, <1>10 DEF StartStep

\* The recovery task.
LEMMA PointsRecoverStep ==
  ASSUME pc \in [Tasks -> Points],
         NEW n \in Sessions, RecoverWake(n) \/ RecoverLock(n) \/ RecoverStep(n)
  PROVE  pc' \in [Tasks -> Points]
<1>1. CASE RecoverWake(n)
  BY <1>1, GotoPoint, PointNames DEF RecoverWake
<1>2. CASE RecoverLock(n)
  <2>1. \E x \in {"idle", "watch", "recovering"} : pc' = [pc EXCEPT ![Recoverer(n)] = x]
    BY <1>2 DEF RecoverLock, Take, Goto
  <2>2. {"idle", "watch", "recovering"} \subseteq Points
    BY DEF Points
  <2>3. QED
    BY <2>1, <2>2
<1>3. CASE RecoverState(n)
  BY <1>3, GotoPoint, PointNames DEF RecoverState
<1>4. CASE RecoverBegin(n)
  BY <1>4, GotoPoint, PointNames DEF RecoverBegin
<1>5. CASE RecoverRestart(n)
  BY <1>5, GotoPoint, PointNames DEF RecoverRestart
<1>6. CASE \E ok \in BOOLEAN : RecoverStop(n, ok)
  BY <1>6, GotoPoint, PointNames DEF RecoverStop
<1>7. CASE \E found, ok \in BOOLEAN : RecoverReopen(n, found, ok)
  BY <1>7, GotoPoint, PointNames DEF RecoverReopen
<1>8. CASE RecoverJudge(n)
  <2>1. \E x \in {"idle", "recovered", "failed"} : pc' = [pc EXCEPT ![Recoverer(n)] = x]
    BY <1>8 DEF RecoverJudge, Leave, SourceStop, Goto
  <2>2. {"idle", "recovered", "failed"} \subseteq Points
    BY DEF Points
  <2>3. QED
    BY <2>1, <2>2
<1>9. CASE RecoverEnd(n)
  BY <1>9, GotoPoint, PointNames DEF RecoverEnd
<1>10. CASE RecoverStreaming(n)
  BY <1>10, GotoPoint, PointNames DEF RecoverStreaming
<1>11. CASE RecoverFailed(n)
  BY <1>11, GotoPoint, PointNames DEF RecoverFailed
<1>12. CASE RecoverExhausted(n)
  BY <1>12, GotoPoint, PointNames DEF RecoverExhausted
<1>13. CASE RecoverGiveUp(n)
  BY <1>13, GotoPoint, PointNames DEF RecoverGiveUp
<1>14. CASE RecoverGiveUpHub(n)
  BY <1>14, GotoPoint, PointNames DEF RecoverGiveUpHub
<1>15. CASE RecoverGiveUpSource(n)
  BY <1>15, GotoPoint, PointNames DEF RecoverGiveUpSource
<1>16. CASE RecoverClosed(n)
  BY <1>16, GotoPoint, PointNames DEF RecoverClosed
<1>17. CASE RecoverFree(n)
  BY <1>17, GotoPoint, PointNames DEF RecoverFree
<1>18. CASE AttemptStep(Recoverer(n))
  BY <1>18, PointsAttemptStep, TaskFacts
<1>19. QED
  BY <1>1, <1>2, <1>3, <1>4, <1>5, <1>6, <1>7, <1>8, <1>9, <1>10, <1>11, <1>12, <1>13, <1>14, <1>15, <1>16, <1>17, <1>18 DEF RecoverStep

\* Every step keeps the types: asking for a stop, and stop().
LEMMA TypesCloseStep ==
  ASSUME Types, NEW t \in Tasks, RequestStep(t) \/ StopStep(t)
  PROVE  Types'
<1>p. pc' \in [Tasks -> Points]
  BY PointsCloseStep DEF Types
<1> USE <1>p DEF Types, camera, session, task, Goto
<1>1. CASE RequestStop(t)
  BY <1>1 DEF RequestStop, AfterRequest
<1>2. CASE RequestAnnounce(t)
  BY <1>2 DEF RequestAnnounce, SetState, States
<1>3. CASE RequestQuiet(t) \/ StopQuiet(t) \/ StopHalt(t)
  BY <1>3, HubFacts DEF RequestQuiet, StopQuiet, StopHalt
<1>4. CASE RequestHalt(t)
  <2>1. hub' \in HubSet
    BY <1>4, HubFacts DEF RequestHalt
  <2>2. pc' \in [Tasks -> Points]
    BY <1>4 DEF RequestHalt, AfterRequest
  <2>3. UNCHANGED <<busy, gone, opened, handed, source, late, state, stopping, closed, lock, tx, at, got, tries, cause, flags>>
    BY <1>4 DEF RequestHalt
  <2>4. QED
    BY <2>1, <2>2, <2>3
<1>5. CASE StopLock(t)
  <2>1. pc' \in [Tasks -> Points]
    <3>1. \E x \in {"idle", "stopQuiet"} : pc' = [pc EXCEPT ![t] = x]
      BY <1>5 DEF StopLock
    <3>2. QED
      BY <3>1
  <2>2. stopping' \in [Sessions -> BOOLEAN]
    BY <1>5 DEF StopLock
  <2>3. lock' \in [Sessions -> Tasks \cup {NoTask}]
    BY <1>5 DEF StopLock, Take
  <2>4. UNCHANGED <<busy, gone, opened, handed, hub, source, late, state, closed, tx, at, got, tries, cause, flags>>
    BY <1>5 DEF StopLock
  <2>5. QED
    BY <2>1, <2>2, <2>3, <2>4
<1>6. CASE StopFree(t)
  BY <1>6 DEF StopFree, Leave
<1>7. CASE StopState(t)
  BY <1>7 DEF StopState, SetState, States
<1>8. CASE \E ok \in BOOLEAN : StopSource(t, ok)
  BY <1>8, SourceFacts DEF StopSource
<1>9. CASE StopClosed(t)
  BY <1>9 DEF StopClosed
<1>10. QED
  BY <1>1, <1>2, <1>3, <1>4, <1>5, <1>6, <1>7, <1>8, <1>9 DEF RequestStep, StopStep

\* The application's calls.
LEMMA TypesCallStep ==
  ASSUME Types, Turns, Places,
         \/ OpenClaim \/ OpenStep \/ OpenTimeout
         \/ \E ok \in BOOLEAN : CloseCamera(ok)
         \/ \E t \in CloserTasks :
              (\E n \in Sessions : Close(t, n) \/ DropSession(t, n)) \/ CancelClose(t)
  PROVE  Types'
<1>p. pc' \in [Tasks -> Points]
  BY PointsCallStep DEF Types
<1> USE <1>p DEF Types, camera, session, task, Goto
<1>1. CASE OpenClaim
  BY <1>1 DEF OpenClaim
<1>2. CASE \E fits \in BOOLEAN : OpenConfigure(fits)
  <2>1. pc[Opener] = "configure" /\ opened < MaxSession
    BY <1>2 DEF OpenConfigure, Turns
  <2>2. opened + 1 \in 0..MaxSession /\ handed \subseteq 1..(opened + 1)
    BY <2>1, SessionNumbers
  <2>3. opened' \in 0..MaxSession /\ handed' \subseteq 1..opened'
    BY <1>2, <2>2 DEF OpenConfigure
  <2>4. at' \in [Tasks -> 0..MaxSession] /\ state' \in [Sessions -> States]
    BY <1>2, <2>2 DEF OpenConfigure, SetState, States
  <2>5. pc' \in [Tasks -> Points] /\ busy' \in BOOLEAN
    BY <1>2 DEF OpenConfigure
  <2>6. UNCHANGED <<gone, hub, source, late, stopping, closed, lock, tx, got, tries, cause, flags>>
    BY <1>2 DEF OpenConfigure
  <2>7. QED
    BY <2>3, <2>4, <2>5, <2>6
<1>3. CASE \E ok \in BOOLEAN : OpenOptions(ok)
  BY <1>3 DEF OpenOptions
<1>4. CASE (\E reported \in BOOLEAN : OpenResult(reported)) \/ OpenTimeout
  BY <1>4 DEF OpenResult, OpenTimeout, TxSet
<1>5. CASE OpenStreaming
  BY <1>5 DEF OpenStreaming, SetState, States
<1>6. CASE OpenHandover
  <2>1. hub' \in HubSet
    BY <1>6, HubFacts, TaskFacts, BoundsAssumption DEF OpenHandover
  <2>2. pc' \in [Tasks -> Points]
    BY <1>6 DEF OpenHandover
  <2>3. handed' \subseteq 1..opened'
    <3>1. pc[Opener] = "handover" /\ handed' = handed \cup {opened} /\ opened' = opened
      BY <1>6 DEF OpenHandover
    <3>2. opened > 0
      BY <3>1 DEF Places
    <3>3. opened \in 1..opened
      BY <3>2, SessionNumbers
    <3>4. QED
      BY <3>1, <3>3
  <2>4. UNCHANGED <<busy, gone, opened, source, late, state, stopping, closed, lock, tx, at, got, tries, cause, flags>>
    BY <1>6 DEF OpenHandover
  <2>5. QED
    BY <2>1, <2>2, <2>3, <2>4
<1>7. CASE \E ok \in BOOLEAN : CloseCamera(ok)
  <2>1. hub' \in HubSet /\ source' \in Source
    BY <1>7, HubFacts, SourceFacts, TaskFacts DEF CloseCamera
  <2>2. QED
    BY <1>7, <2>1 DEF CloseCamera
<1>8. ASSUME NEW t \in CloserTasks, NEW n \in Sessions, Close(t, n) \/ DropSession(t, n)
      PROVE  Types'
  <2>1. n \in 0..MaxSession
    BY SessionNumbers
  <2>2. CASE Close(t, n)
    BY <2>1, <2>2 DEF Close, GotSet
  <2>3. CASE DropSession(t, n)
    <3>1. pc' \in [Tasks -> Points] /\ got' \in [Tasks -> GotSet] /\ at' \in [Tasks -> 0..MaxSession]
      BY <2>1, <2>3 DEF DropSession, GotSet
    <3>2. handed' \subseteq handed
      BY <2>3 DEF DropSession
    <3>3. UNCHANGED <<busy, gone, opened, hub, source, late, state, stopping, closed, lock, tx, tries, cause, flags>>
      BY <2>3 DEF DropSession
    <3>4. QED
      BY <3>1, <3>2, <3>3
  <2>4. QED
    BY <1>8, <2>2, <2>3
<1>9. ASSUME NEW t \in CloserTasks, CancelClose(t) PROVE Types'
  <2>1. pc' \in [Tasks -> Points]
    BY <1>9 DEF CancelClose
  <2>4. late' \in Nat
    <3>1. late' \in {late, late + 1}
      BY <1>9 DEF CancelClose
    <3>2. QED
      BY <3>1, SessionNumbers
  <2>2. lock' \in [Sessions -> Tasks \cup {NoTask}]
    BY <1>9 DEF CancelClose, Leave
  <2>3. UNCHANGED <<busy, gone, opened, handed, hub, source, state, stopping, closed, tx, at, got, tries, cause, flags>>
    BY <1>9 DEF CancelClose
  <2>5. QED
    BY <2>1, <2>2, <2>3, <2>4
<1>10. QED
  BY <1>1, <1>2, <1>3, <1>4, <1>5, <1>6, <1>7, <1>8, <1>9 DEF OpenStep

\* An attempt to start the source, the startup task and the device.
LEMMA TypesStartStep ==
  ASSUME Types, Startup, NEW n \in Sessions, NEW t \in Tasks,
         AttemptStep(t) \/ StartStep(n) \/ LateStop \/ SourceFrame \/ SourceLost
  PROVE  Types'
<1>p. pc' \in [Tasks -> Points]
  BY PointsAttemptStep, PointsStartStep DEF Types
<1> USE <1>p DEF Types, camera, session, task, Goto
<1>1. ASSUME NEW u \in Tasks, AttemptStep(u) PROVE Types'
  <2>1. CASE SourceStartBegin(u)
    BY <2>1, HubFacts DEF SourceStartBegin
  <2>2. CASE SourceStartEnd(u)
    <3>1. at[u] \in 0..MaxSession
      OBVIOUS
    <3>2. hub' \in HubSet /\ source' \in Source
      BY <2>2, <3>1, HubFacts, SourceFacts DEF SourceStartEnd
    <3>3. QED
      BY <2>2, <3>2 DEF SourceStartEnd
  <2>3. CASE SourceStartFails(u)
    <3>1. hub' \in HubSet
      <4>1. hub' \in {hub, HubStarted(u), [HubStarted(u) EXCEPT !.active = FALSE]}
        BY <2>3 DEF SourceStartFails
      <4>2. QED
        BY <4>1, HubFacts
    <3>2. QED
      BY <2>3, <3>1 DEF SourceStartFails, GotSet
  <2>4. CASE (\E accepted \in BOOLEAN : FirstFrame(u, accepted)) \/ NoFirstFrame(u)
    BY <2>4 DEF FirstFrame, NoFirstFrame, GotSet
  <2>5. QED
    BY <1>1, <2>1, <2>2, <2>3, <2>4 DEF AttemptStep
<1>2. CASE StartLock(n)
  <2>1. Starter(n) \in Tasks
    BY TaskFacts
  <2>2. QED
    BY <1>2, <2>1 DEF StartLock, Take, GotSet
<1>3. CASE StartCandidate(n)
  <2>1. tries' \in [Tasks -> Nat]
    <3>1. tries' \in {tries, [tries EXCEPT ![Starter(n)] = tries[Starter(n)] + 1]}
      BY <1>3 DEF StartCandidate
    <3>2. Starter(n) \in Tasks
      BY TaskFacts
    <3>3. tries[Starter(n)] + 1 \in Nat
      BY <3>2, SessionNumbers
    <3>4. QED
      BY <3>1, <3>3
  <2>2. pc' \in [Tasks -> Points]
    <3>1. \E x \in {"finish", "begin"} : pc' = [pc EXCEPT ![Starter(n)] = x]
      BY <1>3 DEF StartCandidate
    <3>2. QED
      BY <3>1
  <2>3. UNCHANGED <<busy, gone, opened, handed, hub, source, late, state, stopping, closed, lock, tx, at, got, cause, flags>>
    BY <1>3 DEF StartCandidate
  <2>4. QED
    BY <2>1, <2>2, <2>3
<1>4. CASE StartJudge(n) \/ StartFinish(n)
  <2>1. hub' \in HubSet /\ source' \in Source
    <3>1. UNCHANGED <<hub, source>> \/ \E ok \in BOOLEAN : SourceStop(ok)
      BY <1>4 DEF StartJudge, StartFinish
    <3>2. QED
      BY <3>1, SourceFacts
  <2>2. pc' \in [Tasks -> Points]
    <3>1. \E x \in {"finish", "candidate", "abort", "send"} : pc' = [pc EXCEPT ![Starter(n)] = x]
      BY <1>4 DEF StartJudge, StartFinish
    <3>2. QED
      BY <3>1
  <2>3. UNCHANGED <<busy, gone, opened, handed, late, state, stopping, closed, lock, tx, at, got, tries, cause, flags>>
    BY <1>4 DEF StartJudge, StartFinish
  <2>4. QED
    BY <2>1, <2>2, <2>3
<1>5. CASE StartAbort(n) \/ StartAbortFree(n)
  BY <1>5 DEF StartAbort, StartAbortFree
<1>6. CASE StartAbortState(n)
  BY <1>6 DEF StartAbortState, SetState, States
<1>7. CASE StartSend(n)
  <2>1. tx' \in [Sessions -> TxSet]
    <3>1. got[Starter(n)] \in {"ok", "err"} /\ tx[n] \in TxSet
      BY <1>7 DEF StartSend, Startup, Holding
    <3>2. \A x \in TxSet : [tx EXCEPT ![n] = x] \in [Sessions -> TxSet]
      OBVIOUS
    <3>3. tx' = [tx EXCEPT ![n] = IF tx[n] = "dropped" THEN tx[n] ELSE got[Starter(n)]]
      BY <1>7 DEF StartSend
    <3>4. QED
      BY <3>1, <3>2, <3>3 DEF TxSet
  <2>2. QED
    BY <1>7, <2>1 DEF StartSend, Leave
<1>8. CASE LateStop \/ SourceFrame \/ SourceLost
  <2>1. hub' \in HubSet /\ source' \in Source
    <3>1. CASE LateStop
      BY <3>1, SourceFacts DEF LateStop
    <3>2. CASE SourceFrame
      BY <3>2, HubFacts DEF SourceFrame
    <3>3. CASE SourceLost
      BY <3>3, HubFacts, SourceFacts DEF SourceLost
    <3>4. QED
      BY <1>8, <3>1, <3>2, <3>3
  <2>2. late' \in Nat
    <3>1. late' = late \/ (late > 0 /\ late' = late - 1)
      BY <1>8 DEF LateStop, SourceFrame, SourceLost
    <3>2. QED
      BY <3>1, SessionNumbers
  <2>3. UNCHANGED <<busy, gone, opened, handed, state, stopping, closed, lock, tx, pc, at, got, tries, cause, flags>>
    BY <1>8 DEF LateStop, SourceFrame, SourceLost
  <2>4. QED
    BY <2>1, <2>2, <2>3
<1>9. QED
  BY <1>1, <1>2, <1>3, <1>4, <1>5, <1>6, <1>7, <1>8, TaskFacts DEF StartStep

\* The recovery task.
LEMMA TypesRecoverStep ==
  ASSUME Types, Startup, NEW n \in Sessions, RecoverWake(n) \/ RecoverLock(n) \/ RecoverStep(n)
  PROVE  Types'
<1>p. pc' \in [Tasks -> Points]
  BY PointsRecoverStep DEF Types
<1> USE <1>p DEF Types, camera, session, task, Goto
<1>1. CASE RecoverWake(n)
  BY <1>1 DEF RecoverWake, GotSet, CauseSet
<1>2. CASE RecoverLock(n)
  <2>1. Recoverer(n) \in Tasks
    BY TaskFacts
  <2>2. OneMore(tries[Recoverer(n)]) \in Nat
    BY <2>1, SessionNumbers
  <2>3. tries' \in {tries, [tries EXCEPT ![Recoverer(n)] = OneMore(tries[Recoverer(n)])]}
    BY <1>2 DEF RecoverLock
  <2>4. tries' \in [Tasks -> Nat]
    BY <2>2, <2>3
  <2>5. cause' \in {cause, [cause EXCEPT ![Recoverer(n)] = "none"]}
    BY <1>2 DEF RecoverLock
  <2>6. cause' \in [Tasks -> CauseSet]
    BY <2>5 DEF CauseSet
  <2>7. lock' \in {lock, [lock EXCEPT ![at[Recoverer(n)]] = Recoverer(n)]}
    BY <1>2 DEF RecoverLock, Take
  <2>8. lock' \in [Sessions -> Tasks \cup {NoTask}]
    BY <2>1, <2>7
  <2>9. pc' \in [Tasks -> Points]
    BY <1>2 DEF RecoverLock
  <2>10. UNCHANGED <<busy, gone, opened, handed, hub, source, late, state, stopping, closed, tx, at, got, flags>>
    BY <1>2 DEF RecoverLock
  <2>11. QED
    BY <2>4, <2>6, <2>8, <2>9, <2>10
<1>3. CASE RecoverState(n) \/ RecoverExhausted(n)
  BY <1>3 DEF RecoverState, RecoverExhausted, SetState, States
<1>4. CASE RecoverBegin(n) \/ RecoverEnd(n) \/ RecoverGiveUpHub(n)
  <2>1. Recoverer(n) \in Tasks
    BY TaskFacts
  <2>2. hub' \in HubSet
    BY <1>4, <2>1, HubFacts DEF RecoverBegin, RecoverEnd, RecoverGiveUpHub
  <2>3. QED
    BY <1>4, <2>2 DEF RecoverBegin, RecoverEnd, RecoverGiveUpHub
<1>5. CASE RecoverRestart(n)
  BY <1>5 DEF RecoverRestart, GotSet
<1>6. CASE \E ok \in BOOLEAN : RecoverStop(n, ok)
  <2>1. PICK ok \in BOOLEAN : RecoverStop(n, ok)
    BY <1>6
  <2>2. hub' \in HubSet /\ source' \in Source
    BY <2>1, SourceFacts DEF RecoverStop
  <2>3. pc' \in [Tasks -> Points]
    BY <2>1 DEF RecoverStop
  <2>4. UNCHANGED <<busy, gone, opened, handed, late, state, stopping, closed, lock, tx, at, got, tries, cause, flags>>
    BY <2>1 DEF RecoverStop
  <2>5. QED
    BY <2>2, <2>3, <2>4
<1>7. CASE \E found, ok \in BOOLEAN : RecoverReopen(n, found, ok)
  <2>1. PICK found \in BOOLEAN, ok \in BOOLEAN : RecoverReopen(n, found, ok)
    BY <1>7
  <2>2. hub' \in HubSet /\ source' \in Source
    BY <2>1, HubFacts, SourceFacts, TaskFacts DEF RecoverReopen
  <2>3. pc' \in [Tasks -> Points] /\ got' \in [Tasks -> GotSet]
    BY <2>1 DEF RecoverReopen, GotSet
  <2>4. UNCHANGED <<busy, gone, opened, handed, late, state, stopping, closed, lock, tx, at, tries, cause, flags>>
    BY <2>1 DEF RecoverReopen
  <2>5. QED
    BY <2>2, <2>3, <2>4
<1>8. CASE RecoverJudge(n)
  <2>1. hub' \in HubSet /\ source' \in Source
    BY <1>8, SourceFacts DEF RecoverJudge
  <2>2. lock' \in [Sessions -> Tasks \cup {NoTask}]
    BY <1>8 DEF RecoverJudge, Leave
  <2>3. QED
    BY <1>8, <2>1, <2>2 DEF RecoverJudge
<1>9. CASE RecoverStreaming(n)
  BY <1>9 DEF RecoverStreaming, SetState, States, CauseSet, Leave
<1>10. CASE RecoverFailed(n)
  BY <1>10, HubFacts, TaskFacts DEF RecoverFailed, Leave
<1>11. CASE RecoverGiveUp(n) \/ RecoverClosed(n)
  BY <1>11 DEF RecoverGiveUp, RecoverClosed
<1>12. CASE RecoverGiveUpSource(n)
  <2>1. hub' \in HubSet /\ source' \in Source
    BY <1>12, HubFacts, SourceFacts, TaskFacts DEF RecoverGiveUpSource
  <2>2. QED
    BY <1>12, <2>1 DEF RecoverGiveUpSource
<1>13. CASE RecoverFree(n)
  BY <1>13 DEF RecoverFree, Leave
<1>14. CASE AttemptStep(Recoverer(n))
  BY <1>14, TypesStartStep, TaskFacts
<1>15. QED
  BY <1>1, <1>2, <1>3, <1>4, <1>5, <1>6, <1>7, <1>8, <1>9, <1>10, <1>11, <1>12, <1>13, <1>14
     DEF RecoverStep

-----------------------------------------------------------------------------
(* Control: lemmas.                                                        *)

\* Only one task works.
LEMMA OneWorks ==
  ASSUME Held, Works, NEW t \in Tasks, NEW u \in Tasks, pc[t] \in Working, pc[u] \in Working
  PROVE  t = u
BY DEF Held, Works, Holding

\* A session that may be acted for, because it is not closed, is the last one.
LEMMA OpenSession ==
  ASSUME Types, Turns, NEW n \in 1..opened, ~closed[n]
  PROVE  n = opened /\ busy /\ pc[Opener] # "configure"
<1>1. opened \in Nat /\ n \in Nat /\ n <= opened
  BY TaskFacts DEF Types
<1>2. n = opened
  BY <1>1 DEF Turns
<1>3. QED
  BY <1>1, <1>2 DEF Turns

\* The sessions tasks work for.
LEMMA TheirSessions ==
  ASSUME Types, Control
  PROVE  /\ opened \in Nat /\ 1..opened \subseteq Sessions
         /\ opened > 0 => opened \in 1..opened /\ opened \in Sessions
         /\ \A t \in CloserTasks : pc[t] # "idle" => Delivered(at[t])
         /\ \A n \in Sessions : pc[Starter(n)] # "idle" => n \in 1..opened
         /\ \A n \in Sessions : pc[Recoverer(n)] # "idle" => n \in 1..opened
         /\ \A n \in Sessions : pc[Stopper(n)] # "idle" => n \in 1..opened
<1>1. opened \in Nat /\ 1..opened \subseteq Sessions
  BY TaskFacts DEF Types, Sessions
<1>2. \A n \in Sessions : n \in Nat /\ n >= 1 /\ (n <= opened => n \in 1..opened)
  BY <1>1, TaskFacts
<1>3. \A t \in CloserTasks : pc[t] # "idle" => Delivered(at[t])
  BY DEF Control, Clients
<1>4. QED
  BY <1>1, <1>2, <1>3 DEF Control, Fresh

\* A step of one task that is not start() itself and spawns nobody.
LEMMA ControlMoves ==
  ASSUME Types, Control, NEW t \in Tasks, t # Opener, pc[t] # "idle", NEW x \in Points,
         pc' = [pc EXCEPT ![t] = x], \A u \in Tasks : u # t => got'[u] = got[u],
         UNCHANGED <<opened, handed, at>>,
         \A n \in Sessions : lock'[n] # lock[n] => n = at[t] /\ lock[n] \in {NoTask, t},
         x \in Holding => at[t] \in 1..opened /\ lock'[at[t]] = t,
         closed' = closed \/ (pc[t] \in Working /\ closed' = [closed EXCEPT ![opened] = TRUE]),
         \A n \in Sessions : /\ stopping[n] \/ closed'[n] => stopping'[n]
                             /\ n > opened => (stopping'[n] <=> stopping[n]),
         pc[Opener] \in Opening /\ t # Starter(opened) => (stopping'[opened] <=> stopping[opened]),
         busy' = busy \/ (~busy' /\ pc[t] \in Closing),
         x \in Working =>
           /\ at[t] = opened /\ busy' /\ pc[Opener] # "configure"
           /\ closed'[opened] <=> x \in Closing
           /\ x \in Asked => stopping'[opened],
         \A n \in Sessions :
           /\ t # Starter(n) => tx'[n] = tx[n]
           /\ t = Starter(n) =>
                /\ x # "lock" /\ (x \in Holding => got'[t] \in {"ok", "err"})
                /\ pc[Opener] = "await" /\ n = opened => Awaited'
  PROVE  Control'
<1> USE DEF Control
<1>1. /\ pc'[t] = x /\ \A u \in Tasks : u # t => pc'[u] = pc[u]
      /\ pc'[Opener] = pc[Opener]
  BY TaskFacts DEF Types
<1>2. /\ opened \in Nat /\ 1..opened \subseteq Sessions
      /\ \A n \in Sessions : t = Starter(n) \/ t = Recoverer(n) \/ t = Stopper(n) => n \in 1..opened
  BY TheirSessions
<1>3. Closing \subseteq Working /\ Working \subseteq Holding
  BY DEF Closing, Working, Holding
<1>4. Places'
  BY <1>1 DEF Places
<1>5. Held'
  <2> SUFFICES ASSUME NEW u \in Tasks, pc'[u] \in Holding
               PROVE  at[u] \in 1..opened /\ lock'[at[u]] = u
    BY DEF Held
  <2>1. CASE u = t
    BY <1>1, <2>1
  <2>2. CASE u # t
    <3>1. at[u] \in 1..opened /\ lock[at[u]] = u /\ at[u] \in Sessions
      BY <1>1, <1>2, <2>2 DEF Held
    <3>2. lock[at[u]] \notin {NoTask, t}
      BY <2>2, <3>1, TaskFacts
    <3>3. QED
      BY <3>1, <3>2
  <2>3. QED
    BY <2>1, <2>2
<1>6. Works'
  <2> SUFFICES ASSUME NEW u \in Tasks, pc'[u] \in Working
               PROVE  /\ at[u] = opened /\ busy' /\ pc'[Opener] # "configure"
                      /\ closed'[opened] <=> pc'[u] \in Closing
                      /\ pc'[u] \in Asked => stopping'[opened]
    BY DEF Works
  <2>1. CASE u = t
    BY <1>1, <2>1
  <2>2. CASE u # t
    <3>1. pc'[u] = pc[u] /\ pc[u] \in Working /\ pc[t] \notin Working
      BY <1>1, <2>2, OneWorks
    <3>2. closed' = closed /\ busy' = busy
      BY <1>3, <3>1
    <3>3. opened \in Sessions
      BY <1>2, <3>1 DEF Works, Held, Holding
    <3>4. QED
      BY <1>1, <3>1, <3>2, <3>3 DEF Works
  <2>3. QED
    BY <2>1, <2>2
<1>7. Turns'
  <2>1. \A n \in 1..opened : n < opened => closed'[n]
    BY <1>2 DEF Turns, Types
  <2>2. opened > 0 => opened \in Sessions
    BY TheirSessions
  <2>3. pc[t] \in Closing => closed[opened] /\ pc[Opener] # "configure"
    BY <1>3 DEF Works
  <2>4. opened > 0 /\ ~closed'[opened] => busy' /\ pc[Opener] # "configure"
    BY <2>2, <2>3 DEF Turns, Types
  <2>5. pc[Opener] = "configure" => busy' /\ opened < MaxSession
    BY <2>3 DEF Turns
  <2>6. QED
    BY <1>1, <2>1, <2>4, <2>5 DEF Turns
<1>8. \A n \in Sessions : pc[Starter(n)] = "idle" => pc'[Starter(n)] = "idle"
  BY <1>1, TaskFacts
<1>9. Fresh'
  <2>1. \A n \in Sessions : n > opened => n \notin 1..opened
    BY <1>2
  <2>2. \A n \in Sessions : n > opened => pc'[Recoverer(n)] = "idle" /\ pc'[Stopper(n)] = "idle"
    BY <1>1, <1>2, <2>1, TaskFacts DEF Fresh
  <2>3. \A n \in Sessions : n > opened => tx'[n] = "pending" /\ ~stopping'[n]
    BY <1>2, <2>1 DEF Fresh
  <2>4. QED
    BY <1>8, <2>2, <2>3 DEF Fresh
<1>10. \A n : Delivered(n) => n \in Sessions /\ Delivered(n)'
  BY <1>1, <1>2, <1>8 DEF Delivered
<1>11. Clients'
  BY <1>1, <1>10, TaskFacts DEF Clients
<1>12. Startup'
  <2>1. \A n \in Sessions : pc'[Starter(n)] = "lock" => n = opened /\ pc[Opener] = "await"
    BY <1>1, TaskFacts DEF Startup
  <2>2. \A n \in Sessions : pc'[Starter(n)] \in Holding => got'[Starter(n)] \in {"ok", "err"}
    BY <1>1, TaskFacts DEF Startup
  <2>3. pc[Opener] \in Opening => opened \in Sessions
    BY TheirSessions DEF Places, Opening
  <2>4. pc[Opener] \in Opening => pc'[Stopper(opened)] = "idle"
    BY <1>1, <2>3, TaskFacts DEF Startup
  <2>5. pc[Opener] \in Opening \ {"await"} => ~stopping'[opened] /\ pc'[Starter(opened)] = "idle"
    BY <1>8, <2>3 DEF Startup
  <2>6. pc[Opener] = "options" => tx'[opened] = "pending"
    BY <2>3 DEF Startup, Opening
  <2>7. ASSUME pc[Opener] = "await" PROVE Awaited'
    <3>1. opened \in Sessions /\ Starter(opened) \in Tasks
      BY <2>3, <2>7, TaskFacts DEF Opening
    <3>2. CASE t # Starter(opened)
      <4>1. /\ pc'[Starter(opened)] = pc[Starter(opened)] /\ got'[Starter(opened)] = got[Starter(opened)]
            /\ tx'[opened] = tx[opened] /\ (stopping'[opened] <=> stopping[opened])
        BY <1>1, <2>7, <3>1, <3>2 DEF Opening
      <4>2. QED
        BY <2>7, <4>1 DEF Startup, Awaited
    <3>3. CASE t = Starter(opened)
      BY <2>7, <3>1, <3>3
    <3>4. QED
      BY <3>2, <3>3
  <2>8. QED
    BY <1>1, <2>1, <2>2, <2>4, <2>5, <2>6, <2>7 DEF Startup
<1>13. QED
  BY <1>4, <1>5, <1>6, <1>7, <1>9, <1>11, <1>12

\* The simplest of these: the task goes on within what it holds.
LEMMA ControlGoes ==
  ASSUME Types, Control, NEW t \in Tasks, t # Opener, pc[t] # "idle", NEW x \in Points,
         pc' = [pc EXCEPT ![t] = x], \A u \in Tasks : u # t => got'[u] = got[u],
         UNCHANGED <<busy, opened, handed, stopping, closed, lock, tx, at>>,
         x \in Holding => pc[t] \in Holding,
         x \in Working => pc[t] \in Working /\ (x \in Closing <=> pc[t] \in Closing),
         x \in Asked => pc[t] \in Asked,
         \A n \in Sessions : t = Starter(n) =>
           /\ x # "lock" /\ (x \in Holding => got'[t] \in {"ok", "err"})
           /\ pc[Opener] = "await" /\ n = opened => Awaited'
  PROVE  Control'
<1>1. x \in Holding => at[t] \in 1..opened /\ lock'[at[t]] = t
  BY DEF Control, Held
<1>2. /\ \A n \in Sessions : lock'[n] # lock[n] => n = at[t] /\ lock[n] \in {NoTask, t}
      /\ closed' = closed /\ busy' = busy
      /\ pc[Opener] \in Opening /\ t # Starter(opened) => (stopping'[opened] <=> stopping[opened])
  OBVIOUS
<1>3. \A n \in Sessions : /\ stopping[n] \/ closed'[n] => stopping'[n]
                          /\ n > opened => (stopping'[n] <=> stopping[n])
  BY DEF Control, Turns
<1>4. x \in Working => /\ at[t] = opened /\ busy' /\ pc[Opener] # "configure"
                       /\ closed'[opened] <=> x \in Closing
                       /\ x \in Asked => stopping'[opened]
  BY DEF Control, Works
<1>5. QED
  BY <1>1, <1>2, <1>3, <1>4, ControlMoves

\* SessionInner::stop, by close() and by the spawned stop tasks.
LEMMA StopControl ==
  ASSUME Types, Control, NEW t \in Tasks,
         t \in CloserTasks \/ \E n \in Sessions : t = Stopper(n),
         StopStep(t)
  PROVE  Control'
<1>1. /\ t # Opener /\ \A n \in Sessions : t # Starter(n)
      /\ pc[t] # "idle" => at[t] \in 1..opened /\ at[t] \in Sessions
      /\ pc[t] # "idle" /\ pc[Opener] \in Opening => at[t] # opened
  <2>1. CASE t \in CloserTasks
    BY <2>1, TaskFacts, TheirSessions DEF Delivered, Opening
  <2>2. ASSUME NEW n \in Sessions, t = Stopper(n)
        PROVE  /\ t # Opener /\ \A m \in Sessions : t # Starter(m)
               /\ pc[t] # "idle" => at[t] \in 1..opened /\ at[t] \in Sessions
               /\ pc[t] # "idle" /\ pc[Opener] \in Opening => at[t] # opened
    <3>1. at[t] = n
      BY <2>2 DEF Control, Places
    <3>2. QED
      BY <2>2, <3>1, TaskFacts, TheirSessions DEF Control, Startup
  <2>3. QED
    BY <2>1, <2>2
<1>2. CASE StopLock(t)
  <2>1. /\ pc[t] = "stop" /\ Free(at[t])
        /\ UNCHANGED <<busy, opened, handed, closed, tx, at, got>>
    BY <1>2 DEF StopLock, camera
  <2>2. CASE closed[at[t]]
    <3>1. pc' = [pc EXCEPT ![t] = "idle"] /\ UNCHANGED <<lock, stopping>>
      BY <1>2, <2>2 DEF StopLock, Goto
    <3>2. "idle" \in Points /\ "idle" \notin Holding /\ "idle" \notin Working /\ "idle" \notin Asked
      BY DEF Points, Holding, Working, Asked
    <3>3. QED
      BY <1>1, <2>1, <3>1, <3>2, ControlGoes
  <2>3. CASE ~closed[at[t]]
    <3>1. /\ pc' = [pc EXCEPT ![t] = "stopQuiet"]
          /\ lock' = [lock EXCEPT ![at[t]] = t] /\ stopping' = [stopping EXCEPT ![at[t]] = TRUE]
      BY <1>2, <2>3 DEF StopLock, Goto, Take
    <3>2. "stopQuiet" \in Points /\ "stopQuiet" \in Holding /\ "stopQuiet" \notin Closing
      BY DEF Points, Holding, Working, Closing
    <3>3. at[t] \in 1..opened /\ at[t] \in Sessions /\ at[t] = opened /\ busy /\ pc[Opener] # "configure"
      BY <1>1, <2>1, <2>3, OpenSession DEF Control
    <3>4. lock'[at[t]] = t /\ lock[at[t]] = NoTask /\ stopping'[opened]
          /\ \A n \in Sessions : n # at[t] => lock'[n] = lock[n] /\ stopping'[n] = stopping[n]
      BY <2>1, <3>1, <3>3 DEF Types, Free
    <3>5. \A n \in Sessions : /\ stopping[n] \/ closed'[n] => stopping'[n]
                              /\ n > opened => (stopping'[n] <=> stopping[n])
      BY <2>1, <3>3, <3>4, TheirSessions DEF Control, Turns
    <3>6. pc[Opener] \in Opening /\ t # Starter(opened) => (stopping'[opened] <=> stopping[opened])
      BY <1>1, <2>1, <3>3
    <3>7. \A n \in Sessions : lock'[n] # lock[n] => n = at[t] /\ lock[n] \in {NoTask, t}
      BY <3>4
    <3>8. "stopQuiet" \in Holding => at[t] \in 1..opened /\ lock'[at[t]] = t
      BY <3>3, <3>4
    <3>9. "stopQuiet" \in Working =>
            /\ at[t] = opened /\ busy' /\ pc[Opener] # "configure"
            /\ closed'[opened] <=> "stopQuiet" \in Closing
            /\ "stopQuiet" \in Asked => stopping'[opened]
      BY <2>1, <2>3, <3>2, <3>3, <3>4
    <3>10. \A n \in Sessions :
             /\ t # Starter(n) => tx'[n] = tx[n]
             /\ t = Starter(n) =>
                  /\ "stopQuiet" # "lock" /\ ("stopQuiet" \in Holding => got'[t] \in {"ok", "err"})
                  /\ pc[Opener] = "await" /\ n = opened => Awaited'
      BY <1>1, <2>1
    <3>11. t # Opener /\ pc[t] # "idle" /\ closed' = closed /\ busy' = busy
           /\ (\A u \in Tasks : u # t => got'[u] = got[u]) /\ UNCHANGED <<opened, handed, at>>
      BY <1>1, <2>1
    <3>12. "stopQuiet" \in Points /\ pc' = [pc EXCEPT ![t] = "stopQuiet"]
      BY <3>1, <3>2
    <3> HIDE <1>1
    <3>13. QED
      BY <3>5, <3>6, <3>7, <3>8, <3>9, <3>10, <3>11, <3>12, ControlMoves
  <2>4. QED
    BY <2>2, <2>3
<1>3. CASE StopQuiet(t) \/ StopHalt(t) \/ (\E ok \in BOOLEAN : StopSource(t, ok)) \/ StopState(t)
  <2>1. UNCHANGED <<busy, opened, handed, stopping, closed, lock, tx, at, got>>
    BY <1>3 DEF StopQuiet, StopHalt, StopSource, StopState, camera, session
  <2>2. \E x \in Points : /\ pc' = [pc EXCEPT ![t] = x] /\ pc[t] \in Working
                          /\ x \in Closing <=> pc[t] \in Closing
                          /\ x \in Asked => pc[t] \in Asked
    BY <1>3 DEF StopQuiet, StopHalt, StopSource, StopState, Goto, Points, Working, Closing, Asked
  <2>3. pc[t] # "idle" /\ pc[t] \in Holding
    BY <2>2 DEF Working, Holding
  <2>4. QED
    BY <1>1, <2>1, <2>2, <2>3, ControlGoes
<1>4. CASE StopClosed(t)
  <2>1. UNCHANGED <<busy, opened, handed, stopping, lock, tx, at, got>>
    BY <1>4 DEF StopClosed, camera
  <2>2. PICK x \in {"stopState", "failState"} : pc' = [pc EXCEPT ![t] = x]
    BY <1>4 DEF StopClosed, Goto
  <2>3. /\ x \in Points /\ x \in Holding /\ x \in Working /\ x \in Closing /\ x \notin Asked
        /\ pc[t] \in Working /\ pc[t] \in Holding /\ pc[t] \in Asked
    BY <1>4 DEF StopClosed, Points, Holding, Working, Closing, Asked
  <2>4. at[t] = opened /\ busy /\ pc[Opener] # "configure" /\ stopping[opened] /\ lock[at[t]] = t
    BY <2>3 DEF Control, Works, Held
  <2>5. closed' = [closed EXCEPT ![opened] = TRUE] /\ at[t] \in 1..opened /\ opened \in Sessions
        /\ pc[t] # "idle"
    BY <1>1, <1>4, <2>4 DEF StopClosed
  <2>6. /\ closed'[opened] /\ \A n \in Sessions : n # opened => closed'[n] = closed[n]
    BY <2>5 DEF Types
  <2>7. \A n \in Sessions : stopping[n] \/ closed'[n] => stopping'[n]
    BY <2>1, <2>4, <2>6 DEF Control, Turns
  <2>8. QED
    BY <1>1, <2>1, <2>2, <2>3, <2>4, <2>5, <2>6, <2>7, ControlMoves
<1>5. CASE StopFree(t)
  <2>1. /\ UNCHANGED <<opened, handed, stopping, closed, tx, at, got>>
        /\ pc' = [pc EXCEPT ![t] = "idle"] /\ pc[t] = "stopFree" /\ ~busy'
        /\ lock' = [lock EXCEPT ![at[t]] = NoTask]
    BY <1>5 DEF StopFree, Goto, Leave
  <2>2. /\ "idle" \in Points /\ "idle" \notin Holding /\ "idle" \notin Working
        /\ pc[t] \in Holding /\ pc[t] \in Closing
    BY <2>1 DEF Points, Holding, Working, Closing
  <2>3. lock[at[t]] = t /\ \A n \in Sessions : n # at[t] => lock'[n] = lock[n]
    BY <2>1, <2>2 DEF Control, Held, Types
  <2>4. \A n \in Sessions : stopping[n] \/ closed'[n] => stopping'[n]
    BY <2>1 DEF Control, Turns
  <2>5. QED
    BY <1>1, <2>1, <2>2, <2>3, <2>4, ControlMoves
<1>6. QED
  BY <1>2, <1>3, <1>4, <1>5 DEF StopStep

\* A step that leaves alone all that control is about.
LEMMA ControlKept ==
  ASSUME Types, Control, UNCHANGED <<busy, opened, handed, stopping, closed, lock, tx, pc, at, got>>
  PROVE  Control'
<1>1. Places' /\ Held' /\ Works' /\ Turns' /\ Fresh'
  BY DEF Control, Places, Held, Works, Turns, Fresh
<1>2. \A n : Delivered(n)' <=> Delivered(n)
  BY DEF Delivered
<1>3. Clients'
  BY <1>2 DEF Control, Clients
<1>4. Startup'
  <2>1. Awaited' <=> Awaited
    BY DEF Awaited
  <2>2. QED
    BY <2>1 DEF Control, Startup
<1>5. QED
  BY <1>1, <1>3, <1>4 DEF Control

\* Where start() can be once it has a session, but waiting for its startup task.
After == {"idle", "request", "announce", "quiet", "halt", "streaming", "handover"}

\* start() goes on, and perhaps a stop task is spawned.
LEMMA OpenerMoves ==
  ASSUME Types, Control, pc[Opener] \notin {"idle", "configure"}, NEW x \in After,
         pc'[Opener] = x,
         \A u \in Tasks \ {Opener} :
           pc'[u] = pc[u] \/ (u = Stopper(opened) /\ pc'[u] = "stop" /\ x \notin Opening),
         UNCHANGED <<busy, opened, handed, closed, lock, at, got>>,
         \A n \in Sessions : /\ n # opened => tx'[n] = tx[n] /\ (stopping'[n] <=> stopping[n])
                             /\ stopping[n] => stopping'[n],
         pc[Starter(opened)] # "lock",
         x \in Opening => /\ pc[Opener] \in Opening
                          /\ ~stopping'[opened] /\ pc[Starter(opened)] = "idle"
  PROVE  Control'
<1> USE DEF Control
<1>1. /\ opened \in Nat /\ opened > 0 /\ opened \in 1..opened /\ opened \in Sessions
      /\ at[Opener] = opened /\ 1..opened \subseteq Sessions
  BY TheirSessions DEF Places
<1>2. \A n \in Sessions : pc'[Starter(n)] = pc[Starter(n)] /\ pc'[Recoverer(n)] = pc[Recoverer(n)]
  BY <1>1, TaskFacts
<1>3. \A t \in CloserTasks : pc'[t] = pc[t]
  BY <1>1, TaskFacts
<1>4. \A u \in Tasks : pc'[u] \in Holding => pc'[u] = pc[u]
  BY DEF Holding, Working, After
<1>5. \A n \in Sessions : n # opened => pc'[Stopper(n)] = pc[Stopper(n)]
  BY <1>1, TaskFacts
<1>6. x # "configure" /\ x # "await" /\ x # "options" /\ Working \subseteq Holding
  BY DEF After, Holding
<1>7. Places'
  BY <1>1 DEF Places
<1>8. Held'
  BY <1>4 DEF Held
<1>9. Works'
  BY <1>1, <1>4, <1>6 DEF Works
<1>10. Turns'
  BY <1>1, <1>6 DEF Turns
<1>11. Fresh'
  BY <1>1, <1>2, <1>5 DEF Fresh
<1>12. \A n : Delivered(n) => Delivered(n)'
  BY <1>1, <1>2 DEF Delivered
<1>13. Clients'
  BY <1>2, <1>3, <1>12 DEF Clients
<1>14. Startup'
  <2>1. \A n \in Sessions : pc'[Starter(n)] # "lock"
    BY <1>2 DEF Startup
  <2>2. \A n \in Sessions : pc'[Starter(n)] \in Holding => got'[Starter(n)] \in {"ok", "err"}
    BY <1>2 DEF Startup
  <2>3. x \in Opening => pc'[Stopper(opened)] = "idle"
    BY <1>1, TaskFacts DEF Startup
  <2>4. QED
    BY <1>1, <1>2, <1>6, <2>1, <2>2, <2>3 DEF Startup
<1>15. QED
  BY <1>7, <1>8, <1>9, <1>10, <1>11, <1>13, <1>14

\* SessionInner::request_stop, by close(), Drop and the guard of start().
LEMMA RequestControl ==
  ASSUME Types, Control, NEW t \in CloserTasks \cup {Opener}, RequestStep(t)
  PROVE  Control'
<1> DEFINE n == at[t]
<1>1. t \in Tasks /\ pc[t] \notin {"idle", "configure"} /\ pc[t] \notin Opening
  BY TaskFacts DEF RequestStep, RequestStop, RequestAnnounce, RequestQuiet, RequestHalt, Opening
<1>2. /\ n \in 1..opened /\ n \in Sessions /\ opened \in Nat
      /\ t = Opener => n = opened
      /\ t # Opener => Delivered(n)
  <2>1. opened \in Nat /\ 1..opened \subseteq Sessions
    BY TheirSessions
  <2>2. CASE t = Opener
    BY <1>1, <2>1, <2>2, TheirSessions DEF Control, Places
  <2>3. CASE t # Opener
    BY <1>1, <2>1, <2>3, TheirSessions DEF Delivered
  <2>4. QED
    BY <2>2, <2>3
<1> HIDE DEF n
<1>3. \A m \in Sessions : t # Starter(m)
  BY TaskFacts
<1>4. CASE RequestHalt(t)
  <2>1. /\ UNCHANGED <<busy, opened, handed, stopping, closed, lock, tx, at, got>>
        /\ pc' = [pc EXCEPT ![t] = AfterRequest(t), ![Stopper(n)] = "stop"]
    BY <1>4 DEF RequestHalt, camera, session, n
  <2>2. Stopper(n) \in Tasks /\ Stopper(n) # t
    BY <1>2, TaskFacts
  <2>3. CASE t = Opener
    <3>1. AfterRequest(t) = "idle"
      BY <2>3, TaskFacts DEF AfterRequest
    <3>2. /\ pc'[Opener] = "idle" /\ pc'[Stopper(opened)] = "stop"
          /\ \A u \in Tasks \ {Opener} : u # Stopper(opened) => pc'[u] = pc[u]
      BY <1>1, <1>2, <2>1, <2>2, <2>3, <3>1 DEF Types
    <3>3. "idle" \in After /\ "idle" \notin Opening
      BY DEF After, Opening
    <3>4. pc[Starter(opened)] # "lock"
      BY <1>1, <1>2, <2>3 DEF Control, Startup, Opening
    <3>5. QED
      BY <1>1, <2>1, <2>3, <3>2, <3>3, <3>4, OpenerMoves
  <2>4. CASE t # Opener
    <3>1. AfterRequest(t) \in {"idle", "stop"} /\ t \in CloserTasks
      BY <2>4 DEF AfterRequest
    <3>2. /\ pc'[t] \in {"idle", "stop"} /\ pc'[Stopper(n)] = "stop" /\ pc'[Opener] = pc[Opener]
          /\ \A u \in Tasks : u # t /\ u # Stopper(n) => pc'[u] = pc[u]
      BY <1>1, <1>2, <2>1, <2>2, <2>4, <3>1, TaskFacts DEF Types
    <3>3. \A m \in Sessions : pc'[Starter(m)] = pc[Starter(m)] /\ pc'[Recoverer(m)] = pc[Recoverer(m)]
      BY <1>2, <3>1, <3>2, TaskFacts
    <3>4. \A m \in Sessions : m # n => pc'[Stopper(m)] = pc[Stopper(m)]
      BY <1>2, <3>1, <3>2, TaskFacts
    <3>5. \A u \in Tasks : pc'[u] \in Holding => pc'[u] = pc[u]
      BY <3>2 DEF Holding, Working
    <3>6. pc[Opener] \in Opening => n # opened
      BY <1>2, <2>4 DEF Delivered, Opening
    <3>7. Places'
      BY <2>1, <3>2 DEF Control, Places
    <3>8. Held' /\ Works'
      BY <2>1, <3>2, <3>5 DEF Control, Held, Works, Holding
    <3>9. Turns'
      BY <2>1, <3>2 DEF Control, Turns
    <3>10. Fresh'
      <4>1. \A m \in Sessions : m > opened => m # n
        BY <1>2
      <4>2. QED
        BY <2>1, <3>3, <3>4, <4>1 DEF Control, Fresh
    <3>11. \A m : Delivered(m) => Delivered(m)'
      BY <2>1, <3>2, <3>3, TheirSessions DEF Delivered
    <3>12. Clients'
      <4>1. \A u \in CloserTasks : pc'[u] # "idle" => pc[u] # "idle"
        BY <1>1, <1>2, <3>2, TaskFacts
      <4>2. /\ \A m \in handed : Delivered(m)
            /\ \A u \in CloserTasks : at[u] # 0 => Delivered(at[u])
            /\ \A u \in CloserTasks : pc'[u] # "idle" => at[u] # 0
            /\ \A m \in Sessions : pc'[Recoverer(m)] # "idle" => Delivered(m)
        BY <3>3, <4>1 DEF Control, Clients
      <4> HIDE <1>1, <1>2, <1>3
      <4>3. \A m \in handed' : Delivered(m)'
        BY <2>1, <3>11, <4>2 DEF Delivered
      <4>4. \A u \in CloserTasks : at'[u] # 0 => Delivered(at[u])'
        BY <2>1, <3>11, <4>2 DEF Delivered
      <4>5. \A m \in Sessions : pc'[Recoverer(m)] # "idle" => Delivered(m)'
        BY <3>11, <4>2 DEF Delivered
      <4>6. QED
        BY <2>1, <4>2, <4>3, <4>4, <4>5 DEF Clients
    <3>13. Startup'
      <4>1. pc[Opener] = "await" => (Awaited' <=> Awaited) /\ pc[Opener] \in Opening
        BY <2>1, <3>3, TheirSessions DEF Awaited, Control, Places, Opening
      <4>2. opened > 0 => opened \in Sessions
        BY TheirSessions
      <4>3. pc[Opener] \in Opening => opened > 0
        BY DEF Control, Places, Opening
      <4>4. QED
        BY <2>1, <3>2, <3>3, <3>4, <3>6, <4>1, <4>2, <4>3 DEF Control, Startup
    <3>14. QED
      BY <3>7, <3>8, <3>9, <3>10, <3>12, <3>13 DEF Control
  <2>5. QED
    BY <2>3, <2>4
<1>5. CASE RequestStop(t) \/ RequestAnnounce(t) \/ RequestQuiet(t)
  <2>1. UNCHANGED <<busy, opened, handed, closed, lock, tx, at, got>>
    BY <1>5 DEF RequestStop, RequestAnnounce, RequestQuiet, camera, session
  <2>2. PICK x \in {"idle", "stop", "announce", "quiet", "halt"} :
          pc' = [pc EXCEPT ![t] = x] /\ (x = "stop" => t # Opener)
    BY <1>5, TaskFacts DEF RequestStop, RequestAnnounce, RequestQuiet, AfterRequest, Goto
  <2>3. stopping' = stopping \/ stopping' = [stopping EXCEPT ![n] = TRUE]
    BY <1>5 DEF RequestStop, RequestAnnounce, RequestQuiet, session, n
  <2>4. \A m \in Sessions : /\ stopping[m] => stopping'[m]
                            /\ m # n => (stopping'[m] <=> stopping[m])
    BY <1>2, <2>3 DEF Types
  <2>5. x \notin Opening /\ x \in Points /\ x \notin Holding /\ x \notin Working
    BY DEF Opening, Points, Holding, Working
  <2>6. CASE t = Opener
    <3>1. pc[Starter(opened)] # "lock"
      BY <1>1, <1>2, <2>6 DEF Control, Startup, Opening
    <3>2. x \in After /\ pc'[Opener] = x /\ \A u \in Tasks \ {Opener} : pc'[u] = pc[u]
      BY <1>1, <2>2, <2>6 DEF After, Types
    <3>3. QED
      BY <1>1, <1>2, <2>1, <2>4, <2>5, <2>6, <3>1, <3>2, OpenerMoves
  <2>7. CASE t # Opener
    <3>1. pc[Opener] \in Opening => n # opened /\ opened \in Sessions
      BY <1>2, <2>7, TheirSessions DEF Delivered, Opening
    <3>2. \A m \in Sessions : /\ stopping[m] \/ closed'[m] => stopping'[m]
                              /\ m > opened => (stopping'[m] <=> stopping[m])
      BY <1>2, <2>1, <2>4 DEF Control, Turns
    <3>3. pc[Opener] \in Opening => (stopping'[opened] <=> stopping[opened])
      BY <2>4, <3>1
    <3>4. QED
      BY <1>1, <1>3, <2>1, <2>2, <2>5, <2>7, <3>2, <3>3, ControlMoves
  <2>8. QED
    BY <2>6, <2>7
<1>6. QED
  BY <1>4, <1>5 DEF RequestStep

\* close() and Drop, and a close() that is given up.
LEMMA CallControl ==
  ASSUME Types, Control, NEW t \in CloserTasks,
         (\E n \in Sessions : Close(t, n) \/ DropSession(t, n)) \/ CancelClose(t)
  PROVE  Control'
<1> USE DEF Control
<1>1. t \in Tasks /\ t # Opener /\ \A n \in Sessions : t # Starter(n) /\ t # Recoverer(n) /\ t # Stopper(n)
  BY TaskFacts
<1>2. ASSUME NEW n \in Sessions, Close(t, n) \/ DropSession(t, n) PROVE Control'
  <2>1. /\ UNCHANGED <<busy, opened, stopping, closed, lock, tx>>
        /\ handed' \subseteq handed /\ n \in handed /\ pc[t] = "idle"
        /\ at' = [at EXCEPT ![t] = n] /\ \E g \in GotSet : got' = [got EXCEPT ![t] = g]
        /\ \E x \in {"idle", "request"} : pc' = [pc EXCEPT ![t] = x]
    BY <1>2 DEF Close, DropSession, camera, session, GotSet
  <2>2. /\ pc'[t] \in {"idle", "request"} /\ at'[t] = n
        /\ \A u \in Tasks : u # t => pc'[u] = pc[u] /\ at'[u] = at[u] /\ got'[u] = got[u]
    BY <1>1, <2>1 DEF Types
  <2>3. Delivered(n) /\ n # 0
    BY <2>1, TaskFacts DEF Clients
  <2>4. \A m \in Sessions :
          /\ pc'[Starter(m)] = pc[Starter(m)] /\ got'[Starter(m)] = got[Starter(m)]
          /\ pc'[Recoverer(m)] = pc[Recoverer(m)] /\ pc'[Stopper(m)] = pc[Stopper(m)]
          /\ at'[Starter(m)] = at[Starter(m)] /\ at'[Recoverer(m)] = at[Recoverer(m)]
          /\ at'[Stopper(m)] = at[Stopper(m)]
    BY <1>1, <2>2, TaskFacts
  <2>5. pc'[Opener] = pc[Opener] /\ at'[Opener] = at[Opener]
    BY <1>1, <2>2, TaskFacts
  <2>6. \A u \in Tasks : pc'[u] \in Holding => pc'[u] = pc[u] /\ at'[u] = at[u]
    BY <2>2 DEF Holding, Working
  <2>7. Places' /\ Turns' /\ Fresh'
    BY <2>1, <2>4, <2>5 DEF Places, Turns, Fresh
  <2>8. Held' /\ Works'
    BY <2>1, <2>5, <2>6 DEF Held, Works, Holding
  <2>9. \A m : Delivered(m) => Delivered(m)'
    BY <2>1, <2>4, <2>5, TheirSessions DEF Delivered
  <2>10. Clients'
    BY <2>1, <2>2, <2>3, <2>4, <2>9 DEF Clients
  <2>11. Startup'
    <3>1. pc[Opener] \in Opening => opened \in Sessions
      BY TheirSessions DEF Places, Opening
    <3>2. pc[Opener] = "await" => (Awaited' <=> Awaited) /\ pc[Opener] \in Opening
      BY <2>1, <2>4, <3>1 DEF Awaited, Opening
    <3>3. QED
      BY <2>1, <2>4, <2>5, <3>1, <3>2 DEF Startup
  <2>12. QED
    BY <2>7, <2>8, <2>10, <2>11
<1>3. CASE CancelClose(t)
  <2>1. /\ UNCHANGED <<busy, opened, handed, stopping, closed, tx, at, got>>
        /\ pc' = [pc EXCEPT ![t] = "idle"] /\ pc[t] \in {"stop", "stopSource"}
        /\ lock' = lock \/ (pc[t] = "stopSource" /\ lock' = [lock EXCEPT ![at[t]] = NoTask])
    BY <1>3 DEF CancelClose, Goto, Leave, camera
  <2>2. /\ "idle" \in Points /\ "idle" \notin Holding /\ "idle" \notin Working /\ pc[t] # "idle"
        /\ pc[t] = "stopSource" => pc[t] \in Holding
    BY <2>1 DEF Points, Holding, Working
  <2>3. pc[t] = "stopSource" => lock[at[t]] = t
    BY <1>1, <2>2 DEF Held
  <2>4. \A n \in Sessions : lock'[n] # lock[n] => n = at[t] /\ lock[n] \in {NoTask, t}
    BY <2>1, <2>3 DEF Types
  <2>5. \A n \in Sessions : stopping[n] \/ closed'[n] => stopping'[n]
    BY <2>1 DEF Turns
  <2>6. QED
    BY <1>1, <2>1, <2>2, <2>4, <2>5, ControlMoves
<1>4. QED
  BY <1>2, <1>3

\* Camera::start_inner and Camera::close.
LEMMA OpenControl ==
  ASSUME Types, Control, Prompt,
         OpenClaim \/ OpenStep \/ OpenTimeout \/ \E ok \in BOOLEAN : CloseCamera(ok)
  PROVE  Control'
<1> USE DEF Control
<1>1. Opener \in Tasks /\ \A n \in Sessions : Starter(n) # Opener /\ Recoverer(n) # Opener /\ Stopper(n) # Opener
  BY TaskFacts
<1>2. opened \in Nat /\ 1..opened \subseteq Sessions
  BY TheirSessions
<1>3. pc[Opener] \in Opening => opened \in Sessions /\ opened \in 1..opened /\ Starter(opened) \in Tasks
  BY TheirSessions, TaskFacts DEF Places, Opening
<1>4. ASSUME NEW x \in {"configure", "idle"}, ~busy \/ pc[Opener] = "configure",
             pc[Opener] \in {"idle", "configure"}, x = "configure" => busy' /\ opened < MaxSession,
             pc' = [pc EXCEPT ![Opener] = x],
             UNCHANGED <<opened, handed, stopping, closed, lock, tx, at, got>>
      PROVE  Control'
  <2>1. pc'[Opener] = x /\ \A u \in Tasks : u # Opener => pc'[u] = pc[u]
    BY <1>1, <1>4 DEF Types
  <2>2. \A n \in Sessions : /\ pc'[Starter(n)] = pc[Starter(n)] /\ pc'[Recoverer(n)] = pc[Recoverer(n)]
                            /\ pc'[Stopper(n)] = pc[Stopper(n)]
    BY <1>1, <2>1, TaskFacts
  <2>3. \A t \in CloserTasks : pc'[t] = pc[t]
    BY <2>1, TaskFacts
  <2>4. \A u \in Tasks : pc'[u] \in Holding => pc'[u] = pc[u] /\ pc[u] \notin Working
    <3>1. \A u \in Tasks : pc[u] \notin Working
      BY <1>4 DEF Works
    <3>2. \A u \in Tasks : pc'[u] \in Holding => u # Opener
      BY <2>1 DEF Holding, Working
    <3>3. QED
      BY <2>1, <3>1, <3>2
  <2>5. Places' /\ Held' /\ Fresh'
    BY <1>4, <2>1, <2>2, <2>4 DEF Places, Held, Fresh
  <2>6. Works'
    BY <2>4 DEF Works, Holding
  <2>7. Turns'
    <3>1. opened > 0 => closed[opened]
      BY <1>4 DEF Turns
    <3>2. QED
      BY <1>4, <2>1, <3>1 DEF Turns
  <2>8. \A n : Delivered(n) => Delivered(n)'
    BY <1>2, <1>4, <2>1, <2>2 DEF Delivered
  <2>9. Clients'
    BY <1>4, <2>2, <2>3, <2>8 DEF Clients
  <2>10. Startup'
    BY <1>4, <2>1, <2>2 DEF Startup, Opening
  <2>11. QED
    BY <2>5, <2>6, <2>7, <2>9, <2>10
<1>5. CASE OpenClaim
  BY <1>4, <1>5 DEF OpenClaim, Goto, session
<1>6. CASE \E fits \in BOOLEAN : OpenConfigure(fits)
  <2>1. pc[Opener] = "configure" /\ busy /\ opened < MaxSession
    BY <1>6 DEF OpenConfigure, Turns
  <2>2. CASE opened' = opened
    <3>1. opened + 1 # opened
      BY <1>2
    <3>2. pc' = [pc EXCEPT ![Opener] = "idle"] /\ UNCHANGED <<handed, stopping, closed, lock, tx, at, got>>
      BY <1>6, <2>2, <3>1 DEF OpenConfigure, Goto
    <3>3. QED
      BY <1>4, <2>1, <2>2, <3>2
  <2>3. CASE opened' # opened
    <3>1. /\ opened' = opened + 1 /\ at' = [at EXCEPT ![Opener] = opened + 1]
          /\ pc' = [pc EXCEPT ![Opener] = "options"]
          /\ UNCHANGED <<busy, handed, stopping, closed, lock, tx, got>>
      BY <1>6, <2>3 DEF OpenConfigure, Goto
    <3>2. /\ pc'[Opener] = "options" /\ at'[Opener] = opened'
          /\ \A u \in Tasks : u # Opener => pc'[u] = pc[u] /\ at'[u] = at[u]
      BY <1>1, <3>1 DEF Types
    <3>3. \A n \in Sessions :
            /\ pc'[Starter(n)] = pc[Starter(n)] /\ pc'[Recoverer(n)] = pc[Recoverer(n)]
            /\ pc'[Stopper(n)] = pc[Stopper(n)] /\ at'[Starter(n)] = at[Starter(n)]
            /\ at'[Recoverer(n)] = at[Recoverer(n)] /\ at'[Stopper(n)] = at[Stopper(n)]
      BY <1>1, <3>2, TaskFacts
    <3>4. \A t \in CloserTasks : pc'[t] = pc[t] /\ at'[t] = at[t]
      BY <3>2, TaskFacts
    <3>5. \A u \in Tasks : pc'[u] \in Holding => u # Opener /\ pc'[u] = pc[u] /\ pc[u] \notin Working
      <4>1. \A u \in Tasks : pc[u] \notin Working
        BY <2>1 DEF Works
      <4>2. \A u \in Tasks : pc'[u] \in Holding => u # Opener
        BY <3>2 DEF Holding, Working
      <4>3. QED
        BY <3>2, <4>1, <4>2
    <3>6. opened + 1 \in Sessions /\ opened + 1 > opened /\ opened + 1 > 0
      BY <1>2, <2>1, TaskFacts DEF Sessions
    <3>7. /\ ~stopping[opened + 1] /\ tx[opened + 1] = "pending"
          /\ pc[Starter(opened + 1)] = "idle" /\ pc[Stopper(opened + 1)] = "idle"
          /\ ~closed[opened + 1]
      BY <3>6 DEF Fresh, Turns
    <3>8. \A n \in Sessions : n > opened' => n > opened
      BY <1>2, <3>1, TaskFacts
    <3>9. \A n \in 1..opened' : n < opened' => n \in 1..opened
      BY <1>2, <3>1
    <3>10. Places'
      BY <1>2, <3>1, <3>2, <3>3 DEF Places
    <3>11. Held'
      <4>1. 1..opened \subseteq 1..opened'
        BY <1>2, <3>1
      <4>2. QED
        BY <3>1, <3>2, <3>5, <4>1 DEF Held
    <3>12. Works'
      BY <3>5 DEF Works, Holding
    <3>13. Turns'
      <4>1. \A n \in 1..opened : closed[n]
        <5>1. opened > 0 => closed[opened]
          BY <2>1 DEF Turns
        <5>2. \A n \in 1..opened : n < opened \/ n = opened
          BY <1>2
        <5>3. QED
          BY <1>2, <5>1, <5>2 DEF Turns
      <4>2. \A n \in 1..opened' : n < opened' => closed'[n]
        BY <3>1, <3>9, <4>1
      <4>3. busy' /\ pc'[Opener] # "configure" /\ \A n \in Sessions : closed'[n] => stopping'[n]
        BY <2>1, <3>1, <3>2 DEF Turns
      <4>4. QED
        BY <4>2, <4>3 DEF Turns
    <3>14. Fresh'
      BY <3>1, <3>3, <3>8 DEF Fresh
    <3>15. \A n : Delivered(n) => Delivered(n)'
      <4>1. \A n \in 1..opened : n # opened' /\ n \in 1..opened' /\ n \in Sessions
        BY <1>2, <3>1
      <4>2. QED
        BY <3>3, <4>1 DEF Delivered
    <3>16. Clients'
      BY <3>1, <3>3, <3>4, <3>15 DEF Clients
    <3>17. Startup'
      <4>1. \A n \in Sessions : pc'[Starter(n)] # "lock"
        BY <2>1, <3>3 DEF Startup
      <4>2. \A n \in Sessions : pc'[Starter(n)] \in Holding => got'[Starter(n)] \in {"ok", "err"}
        BY <3>1, <3>3 DEF Startup
      <4>3. pc'[Stopper(opened')] = "idle" /\ pc'[Starter(opened')] = "idle"
        BY <3>1, <3>3, <3>6, <3>7
      <4>4. ~stopping'[opened'] /\ tx'[opened'] = "pending"
        BY <3>1, <3>7
      <4>5. QED
        BY <3>2, <4>1, <4>2, <4>3, <4>4 DEF Startup
    <3>18. QED
      BY <3>10, <3>11, <3>12, <3>13, <3>14, <3>16, <3>17
  <2>4. QED
    BY <2>2, <2>3
<1>7. CASE OpenTimeout \/ OpenStreaming \/ (\E reported \in BOOLEAN : OpenResult(reported))
           \/ OpenOptions(FALSE)
  <2>1. /\ UNCHANGED <<busy, opened, handed, stopping, closed, lock, at, got>>
        /\ pc[Opener] \in Opening /\ pc[Opener] \notin {"idle", "configure"}
    BY <1>7 DEF OpenTimeout, OpenStreaming, OpenResult, OpenOptions, camera, session, Opening
  <2>2. \A n \in Sessions : n # opened => tx'[n] = tx[n]
    BY <1>7 DEF OpenTimeout, OpenStreaming, OpenResult, OpenOptions, session, Types
  <2>3. PICK x \in After : pc' = [pc EXCEPT ![Opener] = x]
    BY <1>7 DEF OpenTimeout, OpenStreaming, OpenResult, OpenOptions, Goto, After
  <2>4. pc'[Opener] = x /\ \A u \in Tasks \ {Opener} : pc'[u] = pc[u]
    BY <1>1, <2>3 DEF Types
  <2>5. pc[Starter(opened)] # "lock" /\ (x \in Opening => ~stopping[opened] /\ pc[Starter(opened)] = "idle")
    <3>1. CASE OpenTimeout
      <4>1. x = "request"
        BY <1>1, <2>4, <3>1 DEF OpenTimeout, Goto, Types
      <4>2. QED
        BY <3>1, <4>1 DEF Prompt, OpenTimeout, Opening
    <3>2. CASE OpenStreaming \/ OpenOptions(FALSE)
      BY <3>2 DEF OpenStreaming, OpenOptions, Startup, Opening
    <3>3. CASE \E reported \in BOOLEAN : OpenResult(reported)
      <4>1. Awaited /\ tx[opened] \in {"ok", "err"} /\ x \in {"streaming", "request"}
            /\ (x = "streaming" => tx[opened] = "ok")
        <5>1. \E y \in {"streaming", "request"} :
                /\ pc' = [pc EXCEPT ![Opener] = y]
                /\ y = "streaming" => tx[opened] = "ok"
          BY <3>3 DEF OpenResult, Goto
        <5>2. QED
          BY <1>1, <2>4, <3>3, <5>1 DEF OpenResult, Startup, Types
      <4>2. QED
        BY <4>1 DEF Awaited, Opening
    <3>4. QED
      BY <1>7, <3>1, <3>2, <3>3
  <2>6. QED
    BY <2>1, <2>2, <2>3, <2>4, <2>5, OpenerMoves
<1>8. CASE OpenOptions(TRUE)
  <2> DEFINE s == Starter(opened)
  <2>1. /\ pc[Opener] = "options" /\ pc[Opener] \in Opening
        /\ pc' = [pc EXCEPT ![Opener] = "await", ![s] = "lock"]
        /\ UNCHANGED <<busy, opened, handed, stopping, closed, lock, tx, at, got>>
    BY <1>8 DEF OpenOptions, camera, session, Opening
  <2>2. /\ pc'[Opener] = "await" /\ pc'[s] = "lock"
        /\ \A u \in Tasks : u # Opener /\ u # s => pc'[u] = pc[u]
    BY <1>1, <1>3, <2>1 DEF Types
  <2>3. \A n \in Sessions : /\ n # opened => pc'[Starter(n)] = pc[Starter(n)]
                            /\ pc'[Recoverer(n)] = pc[Recoverer(n)] /\ pc'[Stopper(n)] = pc[Stopper(n)]
    BY <1>1, <1>3, <2>1, <2>2, TaskFacts
  <2>4. \A t \in CloserTasks : pc'[t] = pc[t]
    BY <1>3, <2>1, <2>2, TaskFacts
  <2>5. \A u \in Tasks : pc'[u] \in Holding => pc'[u] = pc[u]
    BY <2>2 DEF Holding, Working
  <2>6. /\ ~stopping[opened] /\ tx[opened] = "pending" /\ pc[s] = "idle" /\ pc[Stopper(opened)] = "idle"
        /\ opened > 0 /\ at[Opener] = opened
    BY <2>1 DEF Startup, Opening, Places
  <2>7. Places' /\ Turns'
    BY <2>1, <2>2, <2>6 DEF Places, Turns
  <2>8. Held' /\ Works'
    BY <2>1, <2>2, <2>5 DEF Held, Works, Holding
  <2>9. Fresh'
    <3>1. \A n \in Sessions : n > opened => n # opened
      BY <1>2, TaskFacts
    <3>2. QED
      BY <2>1, <2>3, <3>1 DEF Fresh
  <2>10. \A n : Delivered(n) => Delivered(n)'
    BY <1>2, <2>1, <2>3 DEF Delivered
  <2>11. Clients'
    BY <2>1, <2>3, <2>4, <2>10 DEF Clients
  <2>12. Startup'
    <3>1. Awaited'
      BY <2>1, <2>2, <2>6 DEF Awaited
    <3>2. \A n \in Sessions : pc'[Starter(n)] = "lock" => n = opened
      BY <2>1, <2>3 DEF Startup
    <3>3. \A n \in Sessions : pc'[Starter(n)] \in Holding => got'[Starter(n)] \in {"ok", "err"}
      BY <2>1, <2>2, <2>3 DEF Startup, Holding, Working
    <3>4. QED
      BY <1>3, <2>1, <2>2, <2>3, <2>6, <3>1, <3>2, <3>3 DEF Startup
  <2>13. QED
    BY <2>7, <2>8, <2>9, <2>11, <2>12
<1>9. CASE OpenHandover
  <2> DEFINE r == Recoverer(opened)
  <2>1. /\ pc[Opener] = "handover" /\ pc[Opener] \in Opening
        /\ UNCHANGED <<busy, opened, stopping, closed, lock, tx, at, got>>
        /\ handed' = handed \cup {opened}
        /\ \E x \in {"idle", "watch"} : pc' = [pc EXCEPT ![Opener] = "idle", ![r] = x]
    BY <1>9 DEF OpenHandover, session, Opening
  <2>2. r \in Tasks
    BY <1>3, <2>1, TaskFacts
  <2>3. /\ pc'[Opener] = "idle" /\ pc'[r] \in {"idle", "watch"}
        /\ \A u \in Tasks : u # Opener /\ u # r => pc'[u] = pc[u]
    BY <1>1, <1>3, <2>1, <2>2 DEF Types
  <2>4. \A n \in Sessions : /\ n # opened => pc'[Recoverer(n)] = pc[Recoverer(n)]
                            /\ pc'[Starter(n)] = pc[Starter(n)] /\ pc'[Stopper(n)] = pc[Stopper(n)]
    BY <1>1, <1>3, <2>1, <2>3, TaskFacts
  <2>5. \A t \in CloserTasks : pc'[t] = pc[t]
    BY <1>3, <2>1, <2>3, TaskFacts
  <2>6. \A u \in Tasks : pc'[u] \in Holding => pc'[u] = pc[u]
    BY <2>3 DEF Holding, Working
  <2>7. /\ pc[Starter(opened)] = "idle" /\ opened > 0
    BY <2>1 DEF Startup, Opening, Places
  <2>8. Places' /\ Turns'
    BY <2>1, <2>3 DEF Places, Turns
  <2>9. Held' /\ Works'
    BY <2>1, <2>3, <2>6 DEF Held, Works, Holding
  <2>10. Fresh'
    <3>1. \A n \in Sessions : n > opened => n # opened
      BY <1>2, TaskFacts
    <3>2. QED
      BY <2>1, <2>4, <3>1 DEF Fresh
  <2>11. Delivered(opened)' /\ \A n : Delivered(n) => Delivered(n)'
    BY <1>2, <1>3, <2>1, <2>3, <2>4, <2>7 DEF Delivered
  <2>12. Clients'
    BY <2>1, <2>4, <2>5, <2>11 DEF Clients
  <2>13. Startup'
    <3>1. \A n \in Sessions : pc'[Starter(n)] # "lock"
      BY <2>1, <2>4 DEF Startup
    <3>2. QED
      BY <2>1, <2>3, <2>4, <3>1 DEF Startup, Opening
  <2>14. QED
    BY <2>8, <2>9, <2>10, <2>12, <2>13
<1>10. CASE \E ok \in BOOLEAN : CloseCamera(ok)
  BY <1>10, ControlKept DEF CloseCamera, session, task
<1>11. QED
  <2>1. \A ok \in BOOLEAN : OpenOptions(ok) => OpenOptions(TRUE) \/ OpenOptions(FALSE)
    OBVIOUS
  <2>2. QED
    BY <1>5, <1>6, <1>7, <1>8, <1>9, <1>10, <2>1 DEF OpenStep

\* The task takes a session's lifecycle mutex and starts to work for it.
LEMMA ControlTakes ==
  ASSUME Types, Control, NEW n \in Sessions, NEW t \in {Starter(n), Recoverer(n)},
         pc[t] # "idle", ~stopping[n], Free(n), NEW x \in Working \ (Closing \cup Asked),
         pc' = [pc EXCEPT ![t] = x], Take(t), \A u \in Tasks : u # t => got'[u] = got[u],
         UNCHANGED <<busy, opened, handed, stopping, closed, tx, at>>,
         t = Starter(n) => /\ got'[t] \in {"ok", "err"}
                           /\ pc[Opener] = "await" /\ n = opened => Awaited'
  PROVE  Control'
<1>1. /\ t \in Tasks /\ t # Opener /\ at[t] = n /\ x \in Points /\ x # "lock"
      /\ \A m \in Sessions : t = Starter(m) => m = n
  <2>1. t \in Tasks /\ t # Opener /\ at[t] = n /\ \A m \in Sessions : t = Starter(m) => m = n
    BY TaskFacts DEF Control, Places
  <2>2. Working \subseteq Points /\ "lock" \notin Working
    BY DEF Working, Points
  <2>3. QED
    BY <2>1, <2>2
<1>2. n \in 1..opened
  BY TaskFacts, TheirSessions
<1>3. ~closed[n]
  BY DEF Control, Turns
<1>4. n = opened /\ busy /\ pc[Opener] # "configure"
  BY <1>2, <1>3, OpenSession DEF Control
<1>5. lock'[n] = t /\ lock[n] = NoTask /\ \A m \in Sessions : m # n => lock'[m] = lock[m]
  BY <1>1 DEF Take, Free, Types
<1>6. \A m \in Sessions : /\ stopping[m] \/ closed'[m] => stopping'[m]
                          /\ m > opened => (stopping'[m] <=> stopping[m])
  BY DEF Control, Turns
<1>7. \A m \in Sessions : lock'[m] # lock[m] => m = at[t] /\ lock[m] \in {NoTask, t}
  BY <1>1, <1>5
<1>8. x \in Holding => at[t] \in 1..opened /\ lock'[at[t]] = t
  BY <1>1, <1>2, <1>5
<1>9. x \in Working => /\ at[t] = opened /\ busy' /\ pc[Opener] # "configure"
                       /\ closed'[opened] <=> x \in Closing
                       /\ x \in Asked => stopping'[opened]
  BY <1>1, <1>3, <1>4
<1>10. pc[Opener] \in Opening /\ t # Starter(opened) => (stopping'[opened] <=> stopping[opened])
  BY <1>4
<1>11. \A m \in Sessions :
         /\ t # Starter(m) => tx'[m] = tx[m]
         /\ t = Starter(m) =>
              /\ x # "lock" /\ (x \in Holding => got'[t] \in {"ok", "err"})
              /\ pc[Opener] = "await" /\ m = opened => Awaited'
  BY <1>1
<1>12. QED
  BY <1>1, <1>6, <1>7, <1>8, <1>9, <1>10, <1>11, ControlMoves

\* The task gives the mutex back.
LEMMA ControlLeaves ==
  ASSUME Types, Control, NEW n \in Sessions, NEW t \in {Starter(n), Recoverer(n)},
         pc[t] \in Holding, NEW x \in {"idle", "watch"},
         pc' = [pc EXCEPT ![t] = x], Leave(t),
         UNCHANGED <<opened, handed, stopping, closed, at, got>>,
         busy' = busy \/ (~busy' /\ pc[t] \in Closing),
         \A m \in Sessions : m # n \/ t = Recoverer(n) => tx'[m] = tx[m],
         t = Starter(n) /\ pc[Opener] = "await" /\ n = opened => Awaited'
  PROVE  Control'
<1>1. /\ t \in Tasks /\ t # Opener /\ at[t] = n /\ x \in Points /\ pc[t] # "idle"
      /\ x \notin Holding /\ x \notin Working /\ x # "lock"
      /\ \A m \in Sessions : t = Starter(m) => m = n
  <2>1. t \in Tasks /\ t # Opener /\ at[t] = n /\ \A m \in Sessions : t = Starter(m) => m = n
    BY TaskFacts DEF Control, Places
  <2>2. x \notin Holding /\ x \notin Working /\ "idle" \notin Holding
    BY DEF Working, Holding
  <2>3. x \in Points /\ x # "lock"
    BY DEF Points
  <2>4. QED
    BY <2>1, <2>2, <2>3
<1>2. lock[n] = t /\ \A m \in Sessions : m # n => lock'[m] = lock[m]
  BY <1>1 DEF Leave, Types, Control, Held
<1>3. \A m \in Sessions : stopping[m] \/ closed'[m] => stopping'[m]
  BY DEF Control, Turns
<1>4. \A m \in Sessions :
        /\ t # Starter(m) => tx'[m] = tx[m]
        /\ t = Starter(m) =>
             /\ x # "lock" /\ (x \in Holding => got'[t] \in {"ok", "err"})
             /\ pc[Opener] = "await" /\ m = opened => Awaited'
  BY <1>1
<1>5. \A m \in Sessions : lock'[m] # lock[m] => m = at[t] /\ lock[m] \in {NoTask, t}
  BY <1>1, <1>2
<1>6. \A m \in Sessions : /\ stopping[m] \/ closed'[m] => stopping'[m]
                          /\ m > opened => (stopping'[m] <=> stopping[m])
  BY <1>3
<1>7. pc[Opener] \in Opening /\ t # Starter(opened) => (stopping'[opened] <=> stopping[opened])
  OBVIOUS
<1>8. QED
  BY <1>1, <1>4, <1>5, <1>6, <1>7, ControlMoves

\* The task closes its session.
LEMMA ControlCloses ==
  ASSUME Types, Control, NEW n \in Sessions, NEW t \in {Starter(n), Recoverer(n)},
         pc[t] \in Working, NEW x \in Working \cap Closing,
         pc' = [pc EXCEPT ![t] = x], closed' = [closed EXCEPT ![n] = TRUE],
         UNCHANGED <<busy, opened, handed, lock, tx, at, got>>,
         stopping' = [stopping EXCEPT ![n] = TRUE],
         t = Starter(n) /\ pc[Opener] = "await" /\ n = opened => Awaited'
  PROVE  Control'
<1>1. /\ t \in Tasks /\ t # Opener /\ at[t] = n /\ x \in Points /\ pc[t] # "idle"
      /\ x \in Holding /\ x # "lock" /\ x \notin Asked /\ pc[t] \in Holding
      /\ \A m \in Sessions : t = Starter(m) => m = n
  <2>1. t \in Tasks /\ t # Opener /\ at[t] = n /\ \A m \in Sessions : t = Starter(m) => m = n
    BY TaskFacts DEF Control, Places
  <2>2. pc[t] # "idle" /\ pc[t] \in Holding /\ x \in Holding /\ x # "lock"
    <3>1. "idle" \notin Working /\ "lock" \notin Working
      BY DEF Working
    <3>2. QED
      BY <3>1 DEF Holding
  <2>3. x \in Points /\ x \notin Asked
    BY DEF Closing, Points, Asked
  <2>4. QED
    BY <2>1, <2>2, <2>3
<1>2. /\ n = opened /\ busy /\ pc[Opener] # "configure" /\ n \in 1..opened /\ lock[n] = t
  BY <1>1 DEF Control, Works, Held
<1>3. /\ closed'[n] /\ stopping'[n]
      /\ \A m \in Sessions : m # n => closed'[m] = closed[m] /\ stopping'[m] = stopping[m]
  BY DEF Types
<1>4. \A m \in Sessions : /\ stopping[m] \/ closed'[m] => stopping'[m]
                          /\ m > opened => (stopping'[m] <=> stopping[m])
  BY <1>2, <1>3, TheirSessions DEF Control, Turns
<1>5. pc[Opener] \in Opening /\ t # Starter(opened) => (stopping'[opened] <=> stopping[opened])
  <2>1. t # Starter(opened) => Delivered(n)
    BY <1>1, <1>2 DEF Control, Clients
  <2>2. QED
    BY <1>2, <2>1 DEF Delivered, Opening
<1>6. t = Starter(n) => got'[t] \in {"ok", "err"}
  BY <1>1 DEF Control, Startup
<1>7. x \in Holding => at[t] \in 1..opened /\ lock'[at[t]] = t
  BY <1>1, <1>2
<1>8. x \in Working => /\ at[t] = opened /\ busy' /\ pc[Opener] # "configure"
                       /\ closed'[opened] <=> x \in Closing
                       /\ x \in Asked => stopping'[opened]
  BY <1>1, <1>2, <1>3
<1>9. closed' = closed \/ (pc[t] \in Working /\ closed' = [closed EXCEPT ![opened] = TRUE])
  BY <1>2
<1>10. \A m \in Sessions :
         /\ t # Starter(m) => tx'[m] = tx[m]
         /\ t = Starter(m) =>
              /\ x # "lock" /\ (x \in Holding => got'[t] \in {"ok", "err"})
              /\ pc[Opener] = "await" /\ m = opened => Awaited'
  BY <1>1, <1>6
<1>11. \A m \in Sessions : lock'[m] # lock[m] => m = at[t] /\ lock[m] \in {NoTask, t}
  OBVIOUS
<1>12. \A u \in Tasks : u # t => got'[u] = got[u]
  OBVIOUS
<1>13. QED
  BY <1>1, <1>4, <1>5, <1>7, <1>8, <1>9, <1>10, <1>11, <1>12, ControlMoves

\* Source::start, by startup and recovery.
LEMMA AttemptControl ==
  ASSUME Types, Control, NEW n \in Sessions, NEW t \in {Starter(n), Recoverer(n)}, AttemptStep(t)
  PROVE  Control'
<1>1. /\ t \in Tasks /\ t # Opener /\ \A m \in Sessions : t = Starter(m) => m = n
  BY TaskFacts
<1>2. UNCHANGED <<busy, opened, handed, stopping, closed, lock, tx, at>>
  BY DEF AttemptStep, SourceStartBegin, SourceStartEnd, SourceStartFails, FirstFrame, NoFirstFrame,
         camera, session
<1>3. PICK x \in {"started", "first", "judge"} : pc' = [pc EXCEPT ![t] = x]
  BY DEF AttemptStep, SourceStartBegin, SourceStartEnd, SourceStartFails, FirstFrame, NoFirstFrame, Goto
<1>4. /\ pc[t] \in {"begin", "started", "first"}
      /\ got' = got \/ \E g \in {"ok", "err"} : got' = [got EXCEPT ![t] = g]
  BY DEF AttemptStep, SourceStartBegin, SourceStartEnd, SourceStartFails, FirstFrame, NoFirstFrame
<1>5. /\ pc[t] # "idle" /\ x \in Points /\ pc[t] \in Working /\ pc[t] \in Holding /\ x \notin Asked
      /\ x \notin Closing /\ pc[t] \notin Closing /\ x # "lock"
  BY <1>4 DEF Working, Holding, Closing, Asked, Points
<1>6. /\ \A u \in Tasks : u # t => got'[u] = got[u]
      /\ got'[t] = got[t] \/ got'[t] \in {"ok", "err"}
  BY <1>1, <1>4 DEF Types
<1>7. t = Starter(n) => got'[t] \in {"ok", "err"}
  BY <1>5, <1>6 DEF Control, Startup
<1>8. t = Starter(n) /\ pc[Opener] = "await" /\ n = opened => Awaited'
  BY <1>1, <1>2, <1>3, <1>4 DEF Control, Startup, Awaited, Types
<1>9. QED
  BY <1>1, <1>2, <1>3, <1>5, <1>6, <1>7, <1>8, ControlGoes

\* The startup task.
LEMMA StartControl ==
  ASSUME Types, Control, NEW n \in Sessions, StartStep(n)
  PROVE  Control'
<1> DEFINE t == Starter(n)
<1>1. /\ t \in Tasks /\ t # Opener /\ at[t] = n /\ \A m \in Sessions : t = Starter(m) => m = n
  BY TaskFacts DEF Control, Places
<1>2. pc[Opener] = "await" => Awaited
  BY DEF Control, Startup
<1>3. CASE StartLock(n)
  <2>1. /\ pc[t] = "lock" /\ Free(n) /\ Take(t) /\ pc' = [pc EXCEPT ![t] = "candidate"]
        /\ got' = [got EXCEPT ![t] = "err"]
        /\ UNCHANGED <<busy, opened, handed, stopping, closed, tx, at>>
    BY <1>3 DEF StartLock, Goto, camera
  <2>2. /\ pc'[t] = "candidate" /\ got'[t] = "err" /\ \A u \in Tasks : u # t => got'[u] = got[u]
    BY <1>1, <2>1 DEF Types
  <2>3. n = opened /\ pc[Opener] = "await"
    BY <2>1 DEF Control, Startup
  <2>4. ~stopping[n] /\ tx[n] = "pending"
    BY <1>2, <2>1, <2>3, TheirSessions DEF Awaited, Types, TxSet
  <2>5. Awaited'
    BY <2>1, <2>2, <2>3, <2>4 DEF Awaited
  <2>6. "candidate" \in Working \ (Closing \cup Asked)
    BY DEF Working, Closing, Asked
  <2>7. QED
    BY <2>1, <2>2, <2>4, <2>5, <2>6, ControlTakes
<1>4. CASE StartCandidate(n) \/ StartJudge(n) \/ StartFinish(n) \/ StartAbortState(n)
  <2>1. /\ UNCHANGED <<busy, opened, handed, stopping, closed, lock, tx, at, got>>
        /\ pc[t] \in {"candidate", "judge", "finish", "abortState"}
    BY <1>4 DEF StartCandidate, StartJudge, StartFinish, StartAbortState, camera, session
  <2>2. PICK x \in {"finish", "begin", "candidate", "abort", "send", "abortFree"} :
          /\ pc' = [pc EXCEPT ![t] = x]
          /\ x = "abortFree" <=> pc[t] = "abortState"
          /\ x = "abort" => Unwanted(n) \/ got[t] = "err"
    BY <1>4 DEF StartCandidate, StartJudge, StartFinish, StartAbortState, Goto
  <2>3. /\ pc[t] # "idle" /\ x \in Points /\ pc[t] \in Working /\ pc[t] \in Holding /\ x # "lock"
        /\ x \notin Asked /\ (x \in Working => (x \in Closing <=> pc[t] \in Closing))
    BY <2>1, <2>2 DEF Working, Holding, Closing, Asked, Points
  <2>4. got'[t] \in {"ok", "err"}
    BY <1>1, <2>1, <2>3 DEF Control, Startup
  <2>5. ASSUME pc[Opener] = "await", n = opened PROVE Awaited'
    <3>1. pc'[t] = x /\ tx[n] = "pending" /\ (stopping[n] => pc[t] = "abortState" /\ got[t] = "err")
      BY <1>1, <1>2, <2>1, <2>2, <2>5 DEF Awaited, Types
    <3>2. x = "abort" => got[t] = "err"
      BY <2>2, <3>1 DEF Unwanted
    <3>3. QED
      BY <2>1, <2>2, <2>5, <3>1, <3>2 DEF Awaited
  <2>6. QED
    BY <1>1, <2>1, <2>2, <2>3, <2>4, <2>5, ControlGoes
<1>5. CASE StartAbort(n)
  <2>1. /\ pc[t] = "abort" /\ pc' = [pc EXCEPT ![t] = "abortState"]
        /\ stopping' = [stopping EXCEPT ![n] = TRUE] /\ closed' = [closed EXCEPT ![n] = TRUE]
        /\ UNCHANGED <<busy, opened, handed, lock, tx, at, got>>
    BY <1>5 DEF StartAbort, Goto, camera
  <2>2. pc[t] \in Working /\ "abortState" \in Working \cap Closing
    BY <2>1 DEF Working, Closing
  <2>3. pc[Opener] = "await" /\ n = opened => Awaited'
    BY <1>1, <1>2, <2>1 DEF Awaited, Types
  <2>4. QED
    BY <2>1, <2>2, <2>3, ControlCloses
<1>6. CASE StartAbortFree(n)
  <2>1. /\ pc[t] = "abortFree" /\ pc' = [pc EXCEPT ![t] = "send"] /\ ~busy'
        /\ UNCHANGED <<opened, handed, stopping, closed, lock, tx, at, got>>
    BY <1>6 DEF StartAbortFree, Goto, session
  <2>2. /\ pc[t] # "idle" /\ "send" \in Points /\ "send" \notin Working /\ pc[t] \in Closing
        /\ pc[t] \in Holding
    BY <2>1 DEF Points, Working, Closing, Holding
  <2>3. at[t] \in 1..opened /\ lock'[at[t]] = t /\ got'[t] \in {"ok", "err"}
    BY <1>1, <2>1, <2>2 DEF Control, Held, Startup
  <2>4. pc[Opener] = "await" /\ n = opened => Awaited'
    BY <1>1, <1>2, <2>1 DEF Awaited, Types
  <2>5. \A m \in Sessions : stopping[m] \/ closed'[m] => stopping'[m]
    BY <2>1 DEF Control, Turns
  <2>6. QED
    BY <1>1, <2>1, <2>2, <2>3, <2>4, <2>5, ControlMoves
<1>7. CASE StartSend(n)
  <2>1. /\ pc[t] = "send" /\ pc' = [pc EXCEPT ![t] = "idle"] /\ Leave(t)
        /\ tx' = [tx EXCEPT ![n] = IF tx[n] = "dropped" THEN tx[n] ELSE got[t]]
        /\ UNCHANGED <<busy, opened, handed, stopping, closed, at, got>>
    BY <1>7 DEF StartSend, Goto, camera
  <2>2. pc[t] \in Holding /\ \A m \in Sessions : m # n => tx'[m] = tx[m]
    BY <2>1 DEF Holding, Types
  <2>3. got[t] \in {"ok", "err"} /\ pc'[t] = "idle"
    BY <1>1, <2>1, <2>2 DEF Control, Startup, Types
  <2>4. ASSUME pc[Opener] = "await", n = opened PROVE Awaited'
    <3>1. tx[n] # "dropped" /\ (stopping[n] => got[t] = "err")
      BY <1>2, <2>1, <2>4 DEF Awaited
    <3>2. tx'[n] = got[t]
      BY <2>1, <3>1 DEF Types
    <3>3. QED
      BY <2>1, <2>3, <2>4, <3>1, <3>2 DEF Awaited
  <2>5. t # Recoverer(n)
    BY TaskFacts
  <2>6. QED
    BY <2>1, <2>2, <2>4, <2>5, ControlLeaves
<1>8. CASE AttemptStep(Starter(n))
  BY <1>8, AttemptControl
<1>9. QED
  BY <1>3, <1>4, <1>5, <1>6, <1>7, <1>8 DEF StartStep

\* The recovery task.
LEMMA RecoverControl ==
  ASSUME Types, Control, NEW n \in Sessions, RecoverWake(n) \/ RecoverLock(n) \/ RecoverStep(n)
  PROVE  Control'
<1> DEFINE t == Recoverer(n)
<1>1. /\ t \in Tasks /\ t # Opener /\ at[t] = n /\ \A m \in Sessions : t # Starter(m)
  BY TaskFacts DEF Control, Places
<1>2. \A m \in Sessions : stopping[m] \/ closed[m] => stopping[m]
  BY DEF Control, Turns
<1>3. CASE RecoverWake(n)
  <2>1. /\ UNCHANGED <<busy, opened, handed, stopping, closed, lock, tx, at>> /\ pc[t] = "watch"
        /\ \E g \in {"fresh", "retry"} : got' = [got EXCEPT ![t] = g]
    BY <1>3 DEF RecoverWake, camera, session
  <2>2. PICK x \in {"idle", "lock"} : pc' = [pc EXCEPT ![t] = x]
    BY <1>3 DEF RecoverWake, Goto
  <2>3. x \in Points /\ x \notin Holding /\ x \notin Working /\ x \notin Asked
    BY DEF Points, Holding, Working, Asked
  <2>4. \A u \in Tasks : u # t => got'[u] = got[u]
    BY <1>1, <2>1 DEF Types
  <2>5. QED
    BY <1>1, <2>1, <2>2, <2>3, <2>4, ControlGoes
<1>4. CASE RecoverLock(n)
  <2>1. /\ UNCHANGED <<busy, opened, handed, stopping, closed, tx, at, got>> /\ pc[t] = "lock" /\ Free(n)
    BY <1>4 DEF RecoverLock, camera
  <2>2. CASE \E x \in {"idle", "watch"} : pc' = [pc EXCEPT ![t] = x] /\ lock' = lock
    <3>1. PICK x \in {"idle", "watch"} : pc' = [pc EXCEPT ![t] = x] /\ lock' = lock
      BY <2>2
    <3>2. x \in Points /\ x \notin Holding /\ x \notin Working /\ x \notin Asked
      BY DEF Points, Holding, Working, Asked
    <3>3. QED
      BY <1>1, <2>1, <3>1, <3>2, ControlGoes
  <2>3. CASE ~stopping[n] /\ Take(t) /\ pc' = [pc EXCEPT ![t] = "recovering"]
    <3>1. "recovering" \in Working \ (Closing \cup Asked)
      BY DEF Working, Closing, Asked
    <3>2. QED
      BY <1>1, <2>1, <2>3, <3>1, ControlTakes
  <2>4. QED
    BY <1>4, <2>2, <2>3 DEF RecoverLock, Goto
<1>5. ASSUME NEW x \in Points, pc' = [pc EXCEPT ![t] = x],
             UNCHANGED <<busy, opened, handed, stopping, closed, lock, tx, at>>,
             got' = got \/ \E g \in GotSet : got' = [got EXCEPT ![t] = g],
             x \in Working \ Closing, pc[t] \in Working \ Closing, x \in Asked => pc[t] \in Asked
      PROVE  Control'
  <2>1. \A u \in Tasks : u # t => got'[u] = got[u]
    BY <1>1, <1>5 DEF Types
  <2>2. pc[t] # "idle" /\ pc[t] \in Holding
    BY <1>5 DEF Working, Holding
  <2>3. QED
    BY <1>1, <1>5, <2>1, <2>2, ControlGoes
<1>6. CASE RecoverState(n) \/ RecoverBegin(n) \/ RecoverRestart(n) \/ RecoverEnd(n)
           \/ RecoverExhausted(n) \/ RecoverGiveUpHub(n) \/ RecoverGiveUpSource(n)
           \/ (\E ok \in BOOLEAN : RecoverStop(n, ok))
           \/ (\E found, ok \in BOOLEAN : RecoverReopen(n, found, ok))
  <2>1. UNCHANGED <<busy, opened, handed, stopping, closed, lock, tx, at>>
    BY <1>6 DEF RecoverState, RecoverBegin, RecoverRestart, RecoverEnd, RecoverExhausted,
                RecoverGiveUpHub, RecoverGiveUpSource, RecoverStop, RecoverReopen, camera, session
  <2>2. got' \in {got, [got EXCEPT ![t] = "err"]}
    BY <1>6 DEF RecoverState, RecoverBegin, RecoverRestart, RecoverEnd, RecoverExhausted,
                RecoverGiveUpHub, RecoverGiveUpSource, RecoverStop, RecoverReopen, Types
  <2>3. \E x \in {"announce recovery", "stop old", "judge", "begin", "report", "give up",
                  "give up source", "give up closed", "reopen", "restart"} :
          /\ pc' = [pc EXCEPT ![t] = x]
          /\ pc[t] \in Working \ Closing
          /\ x \in Asked => pc[t] \in Asked
    BY <1>6 DEF RecoverState, RecoverBegin, RecoverRestart, RecoverEnd, RecoverExhausted,
                RecoverGiveUpHub, RecoverGiveUpSource, RecoverStop, RecoverReopen, Goto,
                Working, Closing, Asked
  <2>4. \A x \in {"announce recovery", "stop old", "judge", "begin", "report", "give up",
                  "give up source", "give up closed", "reopen", "restart"} :
          x \in Points /\ x \in Working \ Closing
    <3> DEFINE P == {"announce recovery", "stop old", "judge", "begin", "report", "give up",
                     "give up source", "give up closed", "reopen", "restart"}
    <3>1. P \subseteq Points
      BY DEF Points
    <3>2. P \subseteq Working
      BY DEF Working
    <3>3. \A x \in P : x \notin Closing
      BY DEF Closing
    <3>4. QED
      BY <3>1, <3>2, <3>3
  <2>5. QED
    BY <1>5, <2>1, <2>2, <2>3, <2>4 DEF GotSet
<1>7. CASE RecoverJudge(n) \/ RecoverStreaming(n) \/ RecoverFailed(n)
  <2>1. /\ UNCHANGED <<busy, opened, handed, stopping, closed, tx, at, got>>
        /\ pc[t] \in {"judge", "report", "failed"}
    BY <1>7 DEF RecoverJudge, RecoverStreaming, RecoverFailed, camera
  <2>2. pc[t] \in Holding /\ pc[t] \in Working \ Closing
    BY <2>1 DEF Holding, Working, Closing
  <2>3. CASE \E x \in {"idle", "watch"} : pc' = [pc EXCEPT ![t] = x] /\ Leave(t)
    BY <2>1, <2>2, <2>3, ControlLeaves, TaskFacts
  <2>4. CASE \E x \in {"recovered", "failed", "exhausted"} : pc' = [pc EXCEPT ![t] = x] /\ lock' = lock
    <3>1. \A x \in {"recovered", "failed", "exhausted"} :
            x \in Points /\ x \in Working \ Closing /\ x \notin Asked
      <4> DEFINE P == {"recovered", "failed", "exhausted"}
      <4>1. P \subseteq Points
        BY DEF Points
      <4>2. P \subseteq Working
        BY DEF Working
      <4>3. \A x \in P : x \notin Closing /\ x \notin Asked
        BY DEF Closing, Asked
      <4>4. QED
        BY <4>1, <4>2, <4>3
    <3>2. QED
      BY <1>5, <2>1, <2>2, <2>4, <3>1
  <2>5. QED
    BY <1>7, <2>3, <2>4 DEF RecoverJudge, RecoverStreaming, RecoverFailed, Goto
<1>8. CASE RecoverGiveUp(n)
  <2>1. /\ pc[t] = "give up" /\ pc' = [pc EXCEPT ![t] = "give up hub"]
        /\ stopping' = [stopping EXCEPT ![n] = TRUE]
        /\ UNCHANGED <<busy, opened, handed, closed, lock, tx, at, got>>
    BY <1>8 DEF RecoverGiveUp, Goto, camera
  <2>2. /\ pc[t] # "idle" /\ pc[t] \in Working /\ pc[t] \in Holding /\ pc[t] \notin Closing
        /\ "give up hub" \in Points /\ "give up hub" \notin Closing
    BY <2>1 DEF Working, Holding, Closing, Points
  <2>3. n = opened /\ n \in 1..opened /\ busy /\ pc[Opener] # "configure" /\ lock[n] = t /\ ~closed[n]
    BY <1>1, <2>2 DEF Control, Works, Held
  <2>4. stopping'[n] /\ \A m \in Sessions : m # n => stopping'[m] = stopping[m]
    BY <2>1 DEF Types
  <2>5. \A m \in Sessions : /\ stopping[m] \/ closed'[m] => stopping'[m]
                            /\ m > opened => (stopping'[m] <=> stopping[m])
    <3>1. \A m \in Sessions : m > opened => m # n
      BY <2>3, TaskFacts, TheirSessions
    <3>2. QED
      BY <1>2, <2>1, <2>4, <3>1
  <2>6. pc[Opener] \notin Opening
    BY <2>2, <2>3 DEF Control, Clients, Delivered, Opening
  <2>7. QED
    BY <1>1, <2>1, <2>2, <2>3, <2>4, <2>5, <2>6, ControlMoves
<1>9. CASE RecoverClosed(n)
  <2>1. /\ pc[t] = "give up closed" /\ pc' = [pc EXCEPT ![t] = "give up free"]
        /\ closed' = [closed EXCEPT ![n] = TRUE]
        /\ UNCHANGED <<busy, opened, handed, stopping, lock, tx, at, got>>
    BY <1>9 DEF RecoverClosed, Goto, camera
  <2>2. pc[t] \in Working /\ pc[t] \in Asked /\ "give up free" \in Working \cap Closing
    BY <2>1 DEF Working, Asked, Closing
  <2>3. stopping[n]
    BY <1>1, <2>2 DEF Control, Works
  <2>4. stopping' = [stopping EXCEPT ![n] = TRUE]
    BY <2>1, <2>3 DEF Types
  <2>5. QED
    BY <1>1, <2>1, <2>2, <2>4, ControlCloses
<1>10. CASE RecoverFree(n)
  <2>1. /\ pc[t] = "give up free" /\ pc' = [pc EXCEPT ![t] = "idle"] /\ Leave(t) /\ ~busy'
        /\ UNCHANGED <<opened, handed, stopping, closed, tx, at, got>>
    BY <1>10 DEF RecoverFree, Goto
  <2>2. pc[t] \in Holding /\ pc[t] \in Closing
    BY <2>1 DEF Holding, Working, Closing
  <2>3. QED
    BY <1>1, <2>1, <2>2, ControlLeaves
<1>11. CASE AttemptStep(Recoverer(n))
  BY <1>11, AttemptControl
<1>12. QED
  BY <1>3, <1>4, <1>6, <1>7, <1>8, <1>9, <1>10, <1>11 DEF RecoverStep

\* Every step keeps control.
LEMMA ControlStep ==
  ASSUME Types, Control, [Next]_vars, [Prompt]_vars
  PROVE  Control'
<1>1. CASE /\ Prompt
           /\ OpenClaim \/ OpenStep \/ OpenTimeout \/ (\E ok \in BOOLEAN : CloseCamera(ok))
  BY <1>1, OpenControl
<1>2. CASE \E t \in CloserTasks :
             (\E n \in Sessions : Close(t, n) \/ DropSession(t, n)) \/ CancelClose(t)
  BY <1>2, CallControl
<1>3. CASE \E t \in CloserTasks \cup {Opener} : RequestStep(t)
  BY <1>3, RequestControl
<1>4. CASE \E t \in CloserTasks \cup {Stopper(n) : n \in Sessions} : StopStep(t)
  BY <1>4, StopControl, TaskFacts
<1>5. CASE \E n \in Sessions : StartStep(n) \/ RecoverWake(n) \/ RecoverLock(n) \/ RecoverStep(n)
  BY <1>5, StartControl, RecoverControl
<1>6. CASE LateStop \/ SourceFrame \/ SourceLost \/ UNCHANGED vars
  BY <1>6, ControlKept DEF LateStop, SourceFrame, SourceLost, vars, camera, session, task
<1>7. QED
  BY <1>1, <1>2, <1>3, <1>4, <1>5, <1>6 DEF Next

-----------------------------------------------------------------------------
(* The hub and the source.                                                 *)

\* The step starts nothing: neither the hub, nor a recovery, nor a capture.
Calms ==
  /\ source'.open = source.open /\ (source'.owner # 0 => source.owner # 0)
  /\ hub'.active => hub.active
  /\ hub'.recovering => hub.recovering
  /\ hub'.reconnect => hub.reconnect
  /\ Ended => Ended'

\* Stopping the hub, taking its recovery flags away and leaving it alone are
\* such steps.
LEMMA CalmFacts ==
  ASSUME Types
  PROVE  /\ UNCHANGED <<hub, source>> => Calms
         /\ hub' = HubStopped /\ UNCHANGED source => Calms /\ Inactive'
         /\ hub' = HubQuiet /\ UNCHANGED source => Calms /\ Unflagged'
         /\ Handles => \A ok \in BOOLEAN : SourceStop(ok) => Calms /\ Inactive' /\ Ended'
         /\ Calms /\ Inactive => Inactive'
         /\ Calms /\ Unflagged => Unflagged'
         /\ Calms /\ Handles => Handles'
<1>1. hub \in HubSet /\ source \in Source
  BY DEF Types
<1>2. UNCHANGED <<hub, source>> => Calms
  BY DEF Calms, Ended
<1>3. hub' = HubStopped => ~hub'.active /\ (hub'.recovering <=> hub.recovering)
                                        /\ (hub'.reconnect <=> hub.reconnect)
  BY <1>1 DEF HubSet, HubStopped
<1>4. hub' = HubStopped /\ UNCHANGED source => Calms /\ Inactive'
  BY <1>3 DEF Calms, Ended, Inactive
<1>5. hub' = HubQuiet => ~hub'.recovering /\ ~hub'.reconnect /\ (hub'.active <=> hub.active)
  BY <1>1 DEF HubSet, HubQuiet
<1>6. hub' = HubQuiet /\ UNCHANGED source => Calms /\ Unflagged'
  BY <1>5 DEF Calms, Ended, Unflagged
<1>7. ASSUME Handles, NEW ok \in BOOLEAN, SourceStop(ok) PROVE Calms /\ Inactive' /\ Ended'
  <2>1. CASE ~source.open
    <3>1. UNCHANGED <<hub, source>>
      BY <1>7, <2>1 DEF SourceStop
    <3>2. QED
      BY <1>2, <1>7, <2>1, <3>1 DEF Handles, Inactive, Ended
  <2>2. CASE source.open
    <3>1. hub' = HubStopped
      BY <1>7, <2>2 DEF SourceStop
    <3>2. \/ source'.owner = 0 /\ source'.open = source.open
          \/ source'.stuck /\ source'.open = source.open /\ source.owner # 0
      BY <1>1, <1>7, <2>2 DEF SourceStop, Source
    <3>3. QED
      BY <1>3, <3>1, <3>2 DEF Calms, Inactive, Ended
  <2>3. QED
    BY <2>1, <2>2
<1>8. /\ Calms /\ Inactive => Inactive'
      /\ Calms /\ Unflagged => Unflagged'
      /\ Calms /\ Handles => Handles'
  BY DEF Calms, Inactive, Unflagged, Handles
<1>9. QED
  BY <1>2, <1>4, <1>6, <1>7, <1>8

\* Stages are stages of somebody's work.
LEMMA StageFacts ==
  /\ AfterSource \subseteq AfterHub /\ AfterHub \subseteq AfterFlags /\ AfterFlags \subseteq Working
  /\ "started" \in Working
  /\ Closing \subseteq AfterSource
BY DEF AfterSource, AfterHub, AfterFlags, Working, Closing

\* A calm step of tasks that are not at work, or go on to a sound stage.
LEMMA QuietCalm ==
  ASSUME Types, Quiet, Calms,
         \A t \in Tasks : \/ pc'[t] = pc[t] /\ flags'[t] = flags[t]
                          \/ Stage(t)'
                          \/ pc'[t] \notin Working \cup Opening,
         ~busy' \/ pc'[Opener] = "configure" => ~busy \/ pc[Opener] = "configure"
  PROVE  Quiet'
<1>1. Handles'
  BY CalmFacts DEF Quiet
<1>2. ASSUME NEW t \in Tasks PROVE Stage(t)'
  <2>1. CASE pc'[t] = pc[t] /\ flags'[t] = flags[t]
    <3>1. Stage(t)
      BY <1>2 DEF Quiet
    <3>2. /\ source'.open = source.open /\ (Ended => Ended')
          /\ Unflagged => Unflagged'
          /\ Inactive => Inactive'
      BY CalmFacts DEF Calms
    <3>3. QED
      BY <2>1, <3>1, <3>2 DEF Stage
  <2>2. CASE pc'[t] \notin Working \cup Opening
    BY <2>2, StageFacts DEF Stage
  <2>3. QED
    BY <2>1, <2>2
<1>3. Rest'
  BY CalmFacts DEF Quiet, Rest, Calms
<1>4. QED
  BY <1>1, <1>2, <1>3 DEF Quiet

\* A step of the task that works.
LEMMA QuietWorks ==
  ASSUME Types, Control, Quiet, NEW t \in Tasks, pc[t] \in Working, t # Opener,
         \A u \in Tasks : u # t => pc'[u] = pc[u] /\ flags'[u] = flags[u],
         Handles', Stage(t)',
         t \notin Starters \/ Unflagged',
         busy' \/ (Unflagged' /\ Inactive' /\ Ended')
  PROVE  Quiet'
<1>1. pc[Opener] # "configure" /\ at[t] = opened /\ pc'[Opener] = pc[Opener]
  BY TaskFacts DEF Control, Works
<1>2. pc[Opener] \in Opening => t \in Starters
  <2>1. t \in CloserTasks => Delivered(opened)
    BY <1>1 DEF Control, Clients, Working
  <2>2. \A n \in Sessions : t = Recoverer(n) => n = opened /\ Delivered(opened)
    <3>1. "idle" \notin Working
      BY DEF Working
    <3>2. QED
      BY <1>1, <3>1 DEF Control, Clients, Places
  <2>3. \A n \in Sessions : t = Stopper(n) /\ pc[Opener] \in Opening => pc[t] = "idle"
    BY <1>1 DEF Control, Startup, Places
  <2>4. QED
    BY <2>1, <2>2, <2>3, TaskKinds DEF Delivered, Opening, Starters, Working
<1>3. ASSUME NEW u \in Tasks, u # t PROVE Stage(u)'
  <2>1. pc[u] \notin Working
    BY <1>3, OneWorks DEF Control
  <2>2. QED
    BY <1>1, <1>2, <1>3, <2>1, StageFacts DEF Stage, Quiet
<1>4. Rest'
  BY <1>1 DEF Rest
<1>5. QED
  BY <1>3, <1>4 DEF Quiet

\* The hub and the source when a session is asked to stop, and when the
\* application calls close(), drops a session or gives up on close().
LEMMA QuietCallStep ==
  ASSUME Types, Quiet,
         \/ \E t \in CloserTasks \cup {Opener} : RequestStep(t)
         \/ \E t \in CloserTasks :
              (\E n \in Sessions : Close(t, n) \/ DropSession(t, n)) \/ CancelClose(t)
  PROVE  Quiet'
<1>1. ASSUME NEW x, x \in {"idle", "stop", "announce", "quiet", "halt", "request"}
      PROVE  x \notin Working \cup Opening /\ x # "configure"
  BY <1>1 DEF Working, Opening
<1>2. ASSUME NEW t \in CloserTasks \cup {Opener}, RequestStep(t) PROVE Quiet'
  <2>1. Calms
    <3>1. CASE RequestStop(t) \/ RequestAnnounce(t)
      BY <3>1, CalmFacts DEF RequestStop, RequestAnnounce
    <3>2. CASE RequestQuiet(t) \/ RequestHalt(t)
      BY <3>2, CalmFacts DEF RequestQuiet, RequestHalt
    <3>3. QED
      BY <1>2, <3>1, <3>2 DEF RequestStep
  <2>2. /\ UNCHANGED <<busy, flags>>
        /\ \E x \in {"idle", "stop", "announce", "quiet", "halt"} :
             \/ pc' = [pc EXCEPT ![t] = x]
             \/ pc' = [pc EXCEPT ![t] = x, ![Stopper(at[t])] = "stop"]
    BY <1>2 DEF RequestStep, RequestStop, RequestAnnounce, RequestQuiet, RequestHalt, AfterRequest,
                Goto, camera
  <2>3. \A u \in Tasks : \/ pc'[u] = pc[u] /\ flags'[u] = flags[u]
                         \/ pc'[u] \in {"idle", "stop", "announce", "quiet", "halt", "request"}
    BY <2>2 DEF Types
  <2>4. QED
    BY <1>1, <2>1, <2>2, <2>3, QuietCalm, TaskFacts
<1>3. ASSUME NEW t \in CloserTasks,
             (\E n \in Sessions : Close(t, n) \/ DropSession(t, n)) \/ CancelClose(t)
      PROVE  Quiet'
  <2>1. /\ UNCHANGED <<busy, hub, source, flags>>
        /\ \E x \in {"idle", "request"} : pc' = [pc EXCEPT ![t] = x]
    BY <1>3 DEF Close, DropSession, CancelClose, Goto, camera
  <2>2. \A u \in Tasks : \/ pc'[u] = pc[u] /\ flags'[u] = flags[u]
                         \/ pc'[u] \in {"idle", "stop", "announce", "quiet", "halt", "request"}
    BY <2>1 DEF Types
  <2>3. QED
    BY <1>1, <2>1, <2>2, QuietCalm, CalmFacts, TaskFacts
<1>4. QED
  BY <1>2, <1>3

\* stop().
LEMMA QuietStopStep ==
  ASSUME Types, Control, Quiet, NEW t \in Tasks,
         t \in CloserTasks \/ \E n \in Sessions : t = Stopper(n), StopStep(t)
  PROVE  Quiet'
<1>1. t # Opener /\ t \notin Starters
  BY TaskFacts DEF Starters
<1>2. UNCHANGED flags /\ Handles /\ Stage(t)
  BY DEF StopStep, StopLock, StopQuiet, StopHalt, StopSource, StopClosed, StopState, StopFree, Quiet
<1>3. CASE StopLock(t)
  <2>1. UNCHANGED <<busy, hub, source>> /\ \E x \in {"idle", "stopQuiet"} : pc' = [pc EXCEPT ![t] = x]
    BY <1>3 DEF StopLock, Goto, camera
  <2>2. pc'[t] \in {"idle", "stopQuiet"} /\ \A u \in Tasks : u # t => pc'[u] = pc[u]
    BY <2>1 DEF Types
  <2>3. Stage(t)'
    BY <1>1, <2>2 DEF Stage, AfterFlags, AfterHub, AfterSource
  <2>4. QED
    BY <1>1, <1>2, <2>1, <2>2, <2>3, QuietCalm, CalmFacts, TaskFacts
<1>4. ASSUME NEW x \in Working \cup {"idle"}, pc' = [pc EXCEPT ![t] = x], pc[t] \in Working,
             Handles', x \in AfterFlags => Unflagged', x \in AfterHub => Inactive',
             x \in AfterSource => Ended', x # "started",
             busy' \/ (Unflagged' /\ Inactive' /\ Ended')
      PROVE  Quiet'
  <2>1. pc'[t] = x /\ \A u \in Tasks : u # t => pc'[u] = pc[u]
    BY <1>4 DEF Types
  <2>2. Stage(t)'
    BY <1>1, <1>4, <2>1 DEF Stage
  <2>3. QED
    BY <1>1, <1>2, <1>4, <2>1, <2>2, QuietWorks
<1>5. CASE StopQuiet(t)
  <2>1. /\ hub' = HubQuiet /\ UNCHANGED <<busy, source>>
        /\ pc[t] = "stopQuiet" /\ pc' = [pc EXCEPT ![t] = "stopHalt"]
    BY <1>5 DEF StopQuiet, Goto, camera
  <2>2. /\ "stopHalt" \in Working /\ pc[t] \in Working /\ "stopHalt" \notin AfterHub
        /\ "stopHalt" \notin AfterSource
    BY <2>1 DEF Working, AfterHub, AfterSource
  <2>3. busy'
    BY <2>1, <2>2 DEF Control, Works
  <2>4. QED
    BY <1>2, <1>4, <2>1, <2>2, <2>3, CalmFacts
<1>6. CASE StopHalt(t)
  <2>1. /\ hub' = HubStopped /\ UNCHANGED <<busy, source>>
        /\ pc[t] = "stopHalt" /\ pc' = [pc EXCEPT ![t] = "stopSource"]
    BY <1>6 DEF StopHalt, Goto, camera
  <2>2. /\ "stopSource" \in Working /\ pc[t] \in Working /\ pc[t] \in AfterFlags
        /\ "stopSource" \notin AfterSource
    BY <2>1 DEF Working, AfterFlags, AfterSource
  <2>3. busy' /\ Unflagged
    BY <1>2, <2>1, <2>2 DEF Control, Works, Stage
  <2>4. QED
    BY <1>2, <1>4, <2>1, <2>2, <2>3, CalmFacts
<1>7. CASE \E ok \in BOOLEAN : StopSource(t, ok)
  <2>1. /\ \E ok \in BOOLEAN : SourceStop(ok)
        /\ busy' = busy /\ pc[t] = "stopSource"
        /\ \E x \in {"stopClosed", "stopFailed"} : pc' = [pc EXCEPT ![t] = x]
    BY <1>7 DEF StopSource, Goto, camera
  <2>2. /\ "stopClosed" \in Working /\ "stopFailed" \in Working /\ pc[t] \in Working
        /\ pc[t] \in AfterFlags
    BY <2>1 DEF Working, AfterFlags, AfterHub
  <2>3. busy' /\ Unflagged
    BY <1>2, <2>1, <2>2 DEF Control, Works, Stage
  <2>4. Calms /\ Inactive' /\ Ended' /\ Unflagged' /\ Handles'
    BY <1>2, <2>1, <2>3, CalmFacts
  <2>5. QED
    BY <1>4, <2>1, <2>2, <2>3, <2>4
<1>8. CASE StopClosed(t) \/ StopState(t) \/ StopFree(t)
  <2>1. /\ UNCHANGED <<hub, source>> /\ pc[t] \in {"stopClosed", "stopFailed", "stopState", "failState", "stopFree"}
        /\ \E x \in {"stopState", "failState", "stopFree", "idle"} : pc' = [pc EXCEPT ![t] = x]
    BY <1>8 DEF StopClosed, StopState, StopFree, Goto
  <2>2. pc[t] \in AfterSource /\ {"stopState", "failState", "stopFree"} \subseteq Working
    BY <2>1 DEF AfterSource, Working
  <2>3. Unflagged /\ Inactive /\ Ended
    BY <1>2, <2>2, StageFacts DEF Stage
  <2>4. Unflagged' /\ Inactive' /\ Ended' /\ Handles'
    BY <1>2, <2>1, <2>3, CalmFacts DEF Calms
  <2>5. QED
    BY <1>4, <2>1, <2>2, <2>4, StageFacts
<1>9. QED
  BY <1>3, <1>5, <1>6, <1>7, <1>8 DEF StopStep

\* start() and Camera::close.
LEMMA QuietOpenStep ==
  ASSUME Types, Control, Quiet,
         OpenClaim \/ OpenStep \/ OpenTimeout \/ \E ok \in BOOLEAN : CloseCamera(ok)
  PROVE  Quiet'
<1>1. /\ Opener \in Tasks /\ Opener \notin Starters /\ Stage(Opener) /\ Handles
      /\ \A n \in Sessions : Starter(n) # Opener /\ Recoverer(n) # Opener
  BY TaskFacts DEF Quiet, Starters
<1>2. ASSUME NEW x \in {"configure", "idle", "options", "await", "streaming", "handover", "request"},
             x \in Opening => Unflagged,
             UNCHANGED <<hub, source, flags>>,
             pc'[Opener] = x, \A u \in Tasks : u # Opener => pc'[u] \in {pc[u], "lock"},
             ~busy' \/ x = "configure" => ~busy \/ pc[Opener] = "configure"
      PROVE  Quiet'
  <2>1. Calms /\ (Unflagged => Unflagged')
    BY <1>2, CalmFacts
  <2>2. x \notin Working /\ "lock" \notin Working \cup Opening
    BY DEF Working, Opening
  <2>3. Stage(Opener)'
    BY <1>1, <1>2, <2>1, <2>2, StageFacts DEF Stage
  <2>4. QED
    BY <1>2, <2>1, <2>2, <2>3, QuietCalm
<1>3. CASE OpenClaim
  <2>1. pc'[Opener] = "configure" /\ \A u \in Tasks : u # Opener => pc'[u] = pc[u]
    BY <1>1, <1>3 DEF OpenClaim, Goto, Types
  <2>2. "configure" \notin Opening
    BY DEF Opening
  <2>3. QED
    BY <1>2, <1>3, <2>1, <2>2 DEF OpenClaim
<1>4. CASE \E fits \in BOOLEAN : OpenConfigure(fits)
  <2>1. /\ pc[Opener] = "configure" /\ UNCHANGED <<hub, source, flags>>
        /\ \E x \in {"idle", "options"} : pc' = [pc EXCEPT ![Opener] = x]
    BY <1>4 DEF OpenConfigure, Goto
  <2>2. Unflagged
    BY <2>1 DEF Quiet, Rest
  <2>3. pc'[Opener] \in {"idle", "options"} /\ \A u \in Tasks : u # Opener => pc'[u] = pc[u]
    BY <1>1, <2>1 DEF Types
  <2>4. QED
    BY <1>2, <2>1, <2>2, <2>3
<1>5. CASE OpenTimeout \/ OpenStreaming \/ (\E reported \in BOOLEAN : OpenResult(reported))
           \/ (\E ok \in BOOLEAN : OpenOptions(ok))
  <2>1. /\ UNCHANGED <<busy, hub, source, flags>> /\ pc[Opener] \in Opening
        /\ \E x \in {"request", "await", "streaming", "handover"} :
             \/ pc' = [pc EXCEPT ![Opener] = x]
             \/ pc' = [pc EXCEPT ![Opener] = x, ![Starter(opened)] = "lock"]
    BY <1>5 DEF OpenTimeout, OpenStreaming, OpenResult, OpenOptions, Goto, camera, Opening
  <2>2. Unflagged /\ Starter(opened) \in Tasks /\ Starter(opened) # Opener
    BY <1>1, <2>1, TheirSessions, TaskFacts DEF Stage, Control, Places, Opening
  <2>3. /\ pc'[Opener] \in {"request", "await", "streaming", "handover"}
        /\ \A u \in Tasks : u # Opener => pc'[u] \in {pc[u], "lock"}
    BY <1>1, <2>1, <2>2 DEF Types
  <2>4. QED
    BY <1>2, <2>1, <2>2, <2>3
<1>6. CASE OpenHandover
  <2>1. /\ pc[Opener] = "handover" /\ UNCHANGED <<busy, source, flags>>
        /\ hub' = [hub EXCEPT !.reconnect = hub.reconnect \/ Reconnect]
        /\ \E x \in {"idle", "watch"} : pc' = [pc EXCEPT ![Opener] = "idle", ![Recoverer(opened)] = x]
    BY <1>6 DEF OpenHandover
  <2>2. /\ opened \in 1..opened /\ opened \in Sessions /\ Recoverer(opened) \in Tasks
        /\ Recoverer(opened) # Opener
    BY <2>1, TheirSessions, TaskFacts DEF Control, Places
  <2>3. ~stopping[opened] /\ pc[Starter(opened)] = "idle" /\ pc[Stopper(opened)] = "idle"
    BY <2>1 DEF Control, Startup, Opening
  <2>4. \A u \in Tasks : u # Opener => pc[u] \notin Working
    <3>1. ~Delivered(opened)
      BY <2>1 DEF Delivered
    <3>2. "idle" \notin Working
      BY DEF Working
    <3>3. \A u \in Tasks : pc[u] \in Working => at[u] = opened
      BY DEF Control, Works
    <3>4. \A u \in CloserTasks : pc[u] \notin Working
      BY <3>1, <3>2, <3>3, TaskFacts DEF Control, Clients
    <3>5. \A n \in Sessions : /\ pc[Starter(n)] \notin Working /\ pc[Recoverer(n)] \notin Working
                              /\ pc[Stopper(n)] \notin Working
      BY <2>3, <3>1, <3>2, <3>3, TaskFacts DEF Control, Clients, Places
    <3>6. QED
      BY <3>4, <3>5, TaskKinds
  <2>5. /\ pc'[Opener] = "idle" /\ pc'[Recoverer(opened)] \in {"idle", "watch"}
        /\ \A u \in Tasks : u # Opener /\ u # Recoverer(opened) => pc'[u] = pc[u]
    BY <1>1, <2>1, <2>2 DEF Types
  <2>6. \A u \in Tasks : pc'[u] \notin Working /\ (u = Opener => pc'[u] \notin Opening)
    BY <2>4, <2>5 DEF Working, Opening
  <2>7. \A u \in Tasks : Stage(u)'
    BY <2>6, StageFacts DEF Stage
  <2>8. busy'
    BY <2>1, <2>2, <2>3 DEF Control, Turns
  <2>9. hub'.active = hub.active
    BY <2>1 DEF Types, HubSet
  <2>10. Handles' /\ Rest'
    BY <1>1, <2>1, <2>5, <2>8, <2>9 DEF Handles, Inactive, Rest
  <2>11. QED
    BY <2>7, <2>10 DEF Quiet
<1>7. ASSUME NEW ok \in BOOLEAN, CloseCamera(ok) PROVE Quiet'
  <2>1. /\ pc[Opener] = "idle" /\ ~busy /\ UNCHANGED <<busy, pc, flags>>
    BY <1>7 DEF CloseCamera, task
  <2>2. Unflagged /\ Inactive /\ Ended
    BY <2>1 DEF Quiet, Rest
  <2>3. CASE SourceStop(ok)
    <3>1. Calms
      BY <1>1, <2>3, CalmFacts
    <3>2. QED
      BY <2>1, <3>1, QuietCalm
  <2>4. CASE hub' = HubStopped /\ source' = [Off EXCEPT !.open = FALSE]
    <3>1. Inactive' /\ Unflagged'
      BY <2>2, <2>4 DEF Types, HubSet, HubStopped, Inactive, Unflagged
    <3>2. source'.owner = 0 /\ Ended'
      BY <2>4 DEF Off, Ended
    <3>3. \A u \in Tasks : pc'[u] \notin Working
      BY <2>1 DEF Control, Works
    <3>4. \A u \in Tasks : Stage(u)'
      BY <2>1, <3>1, <3>3, StageFacts DEF Stage
    <3>5. Handles' /\ Rest'
      BY <3>1, <3>2 DEF Handles, Rest
    <3>6. QED
      BY <3>4, <3>5 DEF Quiet
  <2>5. QED
    BY <1>7, <2>3, <2>4 DEF CloseCamera
<1>8. QED
  BY <1>3, <1>4, <1>5, <1>6, <1>7 DEF OpenStep

\* Source::start, by startup and recovery.
LEMMA QuietAttemptStep ==
  ASSUME Types, Control, Quiet, NEW n \in Sessions, NEW t \in {Starter(n), Recoverer(n)},
         AttemptStep(t)
  PROVE  Quiet'
<1>1. t \in Tasks /\ t # Opener /\ Handles /\ Stage(t)
  BY TaskFacts DEF Quiet
<1>2. /\ UNCHANGED busy /\ pc[t] \in {"begin", "started", "first"}
      /\ \E x \in {"started", "first", "judge"} : pc' = [pc EXCEPT ![t] = x]
  BY DEF AttemptStep, SourceStartBegin, SourceStartEnd, SourceStartFails, FirstFrame, NoFirstFrame,
         Goto, camera
<1>3. pc[t] \in Working
  BY <1>2 DEF Working
<1>4. busy
  BY <1>1, <1>3 DEF Control, Works
<1>5. pc'[t] \in {"started", "first", "judge"} /\ \A u \in Tasks : u # t => pc'[u] = pc[u]
  BY <1>1, <1>2 DEF Types
<1>6. pc'[t] \notin AfterFlags /\ pc'[t] \notin AfterHub /\ pc'[t] \notin AfterSource
  BY <1>5 DEF AfterFlags, AfterHub, AfterSource
<1>7. t \in Starters => Unflagged /\ (pc[t] = "started" => flags[t] = NoFlags)
  BY <1>1, <1>3 DEF Stage
<1>8. ASSUME \A u \in Tasks : u # t => flags'[u] = flags[u], Handles', t \in Starters => Unflagged',
             pc'[t] = "started" => source'.open /\ (t \in Starters => flags'[t] = NoFlags)
      PROVE  Quiet'
  <2>1. Stage(t)'
    BY <1>1, <1>6, <1>8 DEF Stage
  <2>2. QED
    BY <1>1, <1>2, <1>3, <1>4, <1>5, <1>8, <2>1, QuietWorks
<1>9. CASE SourceStartBegin(t)
  <2>1. /\ UNCHANGED <<hub, source>> /\ source.open
        /\ flags' = [flags EXCEPT ![t] = [recovering |-> hub.recovering, reconnect |-> hub.reconnect]]
    BY <1>9 DEF SourceStartBegin
  <2>2. /\ flags'[t] = [recovering |-> hub.recovering, reconnect |-> hub.reconnect]
        /\ \A u \in Tasks : u # t => flags'[u] = flags[u]
    BY <1>1, <2>1 DEF Types
  <2>3. t \in Starters => flags'[t] = NoFlags
    <3>1. hub \in HubSet
      BY DEF Types
    <3>2. t \in Starters => hub.recovering = FALSE /\ hub.reconnect = FALSE
      BY <1>7, <3>1 DEF Unflagged, HubSet
    <3>3. QED
      BY <2>2, <3>2 DEF NoFlags
  <2>4. Calms
    BY <2>1, CalmFacts
  <2>5. Handles' /\ (Unflagged => Unflagged')
    BY <1>1, <2>4, CalmFacts
  <2>6. QED
    BY <1>7, <1>8, <2>1, <2>2, <2>3, <2>5
<1>10. CASE SourceStartEnd(t) \/ SourceStartFails(t)
  <2>1. /\ UNCHANGED flags /\ source'.open = source.open
        /\ \/ pc[t] = "begin" /\ UNCHANGED <<hub, source>>
           \/ /\ pc[t] = "started"
              /\ hub' \in {HubStarted(t), [HubStarted(t) EXCEPT !.active = FALSE]}
    <3>1. source \in Source
      BY DEF Types
    <3>2. QED
      BY <1>10, <3>1 DEF SourceStartEnd, SourceStartFails, Source
  <2>2. pc'[t] # "started"
    BY <1>1, <1>10 DEF SourceStartEnd, SourceStartFails, Goto, Types
  <2>3. CASE pc[t] = "begin" /\ UNCHANGED <<hub, source>>
    BY <1>1, <1>7, <1>8, <2>1, <2>2, <2>3, CalmFacts
  <2>4. CASE /\ pc[t] = "started"
             /\ hub' \in {HubStarted(t), [HubStarted(t) EXCEPT !.active = FALSE]}
    <3>1. Handles'
      BY <1>1, <2>1, <2>4 DEF Handles, Stage
    <3>2. hub'.recovering = flags[t].recovering /\ hub'.reconnect = flags[t].reconnect
      BY <2>4 DEF HubStarted
    <3>3. t \in Starters => Unflagged'
      BY <1>7, <2>4, <3>2 DEF NoFlags, Unflagged
    <3>4. QED
      BY <1>8, <2>1, <2>2, <3>1, <3>3
  <2>5. QED
    BY <2>1, <2>3, <2>4
<1>11. CASE (\E accepted \in BOOLEAN : FirstFrame(t, accepted)) \/ NoFirstFrame(t)
  <2>1. UNCHANGED <<hub, source, flags>>
    BY <1>11 DEF FirstFrame, NoFirstFrame
  <2>2. pc'[t] # "started"
    BY <1>1, <1>11 DEF FirstFrame, NoFirstFrame, Goto, Types
  <2>3. QED
    BY <1>1, <1>7, <1>8, <2>1, <2>2, CalmFacts
<1>12. QED
  BY <1>9, <1>10, <1>11 DEF AttemptStep

\* A calm step of a startup or recovery task at work.
LEMMA QuietGoes ==
  ASSUME Types, Control, Quiet, NEW n \in Sessions, NEW t \in {Starter(n), Recoverer(n)},
         pc[t] \in Working, NEW x, pc' = [pc EXCEPT ![t] = x], x # "started",
         UNCHANGED flags, Calms,
         x \in AfterFlags => Unflagged', x \in AfterHub => Inactive', x \in AfterSource => Ended',
         busy' \/ (Unflagged' /\ Inactive' /\ Ended')
  PROVE  Quiet'
<1>1. t \in Tasks /\ t # Opener /\ Handles /\ Stage(t)
  BY TaskFacts DEF Quiet
<1>2. pc'[t] = x /\ \A u \in Tasks : u # t => pc'[u] = pc[u]
  BY <1>1 DEF Types
<1>3. Handles' /\ (t \in Starters => Unflagged')
  BY <1>1, CalmFacts DEF Stage
<1>4. Stage(t)'
  BY <1>1, <1>2, <1>3 DEF Stage
<1>5. QED
  BY <1>1, <1>2, <1>3, <1>4, QuietWorks

\* The startup task.
LEMMA QuietStartStep ==
  ASSUME Types, Control, Quiet, NEW n \in Sessions, StartStep(n)
  PROVE  Quiet'
<1> DEFINE t == Starter(n)
<1>1. t \in Tasks /\ t # Opener /\ t \in Starters /\ Handles /\ Stage(t)
  BY TaskFacts DEF Quiet, Starters
<1>2. pc[t] \in Working => busy /\ Unflagged
  BY <1>1 DEF Control, Works, Stage
<1>3. CASE StartLock(n) \/ StartSend(n)
  <2>1. /\ UNCHANGED <<busy, hub, source, flags>> /\ pc[t] \in {"lock", "send"}
        /\ \E x \in {"candidate", "idle"} : pc' = [pc EXCEPT ![t] = x] /\ (x = "candidate" => pc[t] = "lock")
    BY <1>3 DEF StartLock, StartSend, Goto, camera
  <2>2. /\ pc'[t] \in {"candidate", "idle"} /\ (pc'[t] = "candidate" => pc[t] = "lock")
        /\ \A u \in Tasks : u # t => pc'[u] = pc[u]
    BY <1>1, <2>1 DEF Types
  <2>3. Calms
    BY <2>1, CalmFacts
  <2>4. pc'[t] = "candidate" => Unflagged'
    <3>1. pc'[t] = "candidate" => pc[Opener] = "await"
      BY <2>2 DEF Control, Startup
    <3>2. pc[Opener] = "await" => Unflagged
      BY TaskFacts DEF Quiet, Stage, Opening
    <3>3. QED
      BY <2>3, <3>1, <3>2, CalmFacts
  <2>5. CASE pc'[t] = "candidate"
    <3>1. Stage(t)'
      BY <1>1, <2>4, <2>5 DEF Stage, AfterFlags, AfterHub, AfterSource
    <3>2. QED
      BY <1>1, <2>1, <2>2, <2>3, <3>1, QuietCalm, TaskFacts
  <2>6. CASE pc'[t] = "idle"
    <3>1. pc'[t] \notin Working \cup Opening
      BY <2>6 DEF Working, Opening
    <3>2. QED
      BY <1>1, <2>1, <2>2, <2>3, <3>1, QuietCalm, TaskFacts
  <2>7. QED
    BY <2>2, <2>5, <2>6
<1>4. CASE StartCandidate(n) \/ StartJudge(n) \/ StartFinish(n)
  <2>1. /\ UNCHANGED <<busy, flags>> /\ pc[t] \in {"candidate", "judge", "finish"}
        /\ UNCHANGED <<hub, source>> \/ \E ok \in BOOLEAN : SourceStop(ok)
        /\ \E x \in {"finish", "begin", "candidate", "abort", "send"} :
             /\ pc' = [pc EXCEPT ![t] = x]
             /\ x = "abort" => \E ok \in BOOLEAN : SourceStop(ok)
    BY <1>4 DEF StartCandidate, StartJudge, StartFinish, Goto, camera
  <2>2. PICK x \in {"finish", "begin", "candidate", "abort", "send"} :
             /\ pc' = [pc EXCEPT ![t] = x]
             /\ x = "abort" => \E ok \in BOOLEAN : SourceStop(ok)
    BY <2>1
  <2>3. pc[t] \in Working
    BY <2>1 DEF Working
  <2>4. Calms /\ (x = "abort" => Inactive' /\ Ended') /\ Unflagged'
    BY <1>1, <1>2, <2>1, <2>2, <2>3, CalmFacts
  <2>5. /\ x # "abort" => x \notin AfterFlags /\ x \notin AfterHub /\ x \notin AfterSource
        /\ x # "started"
    BY DEF AfterFlags, AfterHub, AfterSource
  <2>6. QED
    BY <1>2, <2>1, <2>2, <2>3, <2>4, <2>5, QuietGoes
<1>5. CASE StartAbort(n) \/ StartAbortState(n) \/ StartAbortFree(n)
  <2>1. /\ UNCHANGED <<hub, source, flags>> /\ pc[t] \in {"abort", "abortState", "abortFree"}
        /\ \E x \in {"abortState", "abortFree", "send"} : pc' = [pc EXCEPT ![t] = x]
    BY <1>5 DEF StartAbort, StartAbortState, StartAbortFree, Goto
  <2>2. pc[t] \in AfterSource
    BY <2>1 DEF AfterSource
  <2>3. pc[t] \in Working /\ Unflagged /\ Inactive /\ Ended /\ Calms
    BY <1>1, <2>1, <2>2, StageFacts, CalmFacts DEF Stage
  <2>4. Unflagged' /\ Inactive' /\ Ended'
    BY <2>3, CalmFacts DEF Calms
  <2>5. QED
    BY <2>1, <2>3, <2>4, QuietGoes
<1>6. CASE AttemptStep(Starter(n))
  BY <1>6, QuietAttemptStep
<1>7. QED
  BY <1>3, <1>4, <1>5, <1>6 DEF StartStep

\* The recovery task.
LEMMA QuietRecoverStep ==
  ASSUME Types, Control, Quiet, NEW n \in Sessions, RecoverWake(n) \/ RecoverLock(n) \/ RecoverStep(n)
  PROVE  Quiet'
<1> DEFINE t == Recoverer(n)
<1>1. t \in Tasks /\ t # Opener /\ t \notin Starters /\ Handles /\ Stage(t)
  BY TaskFacts DEF Quiet, Starters
<1>2. pc[t] \in Working => busy
  BY <1>1 DEF Control, Works
<1>3. CASE RecoverWake(n) \/ RecoverLock(n)
  <2>1. /\ UNCHANGED <<busy, hub, source, flags>>
        /\ \E x \in {"idle", "lock", "watch", "recovering"} : pc' = [pc EXCEPT ![t] = x]
    BY <1>3 DEF RecoverWake, RecoverLock, Goto, camera
  <2>2. /\ pc'[t] \in {"idle", "lock", "watch", "recovering"}
        /\ \A u \in Tasks : u # t => pc'[u] = pc[u]
    BY <1>1, <2>1 DEF Types
  <2>3. Stage(t)'
    BY <1>1, <2>2 DEF Stage, AfterFlags, AfterHub, AfterSource
  <2>4. QED
    BY <1>1, <2>1, <2>2, <2>3, QuietCalm, CalmFacts, TaskFacts
<1>4. CASE RecoverState(n) \/ RecoverRestart(n) \/ RecoverJudge(n) \/ RecoverStreaming(n)
           \/ RecoverExhausted(n) \/ RecoverGiveUp(n) \/ RecoverFailed(n)
           \/ \E ok \in BOOLEAN : RecoverStop(n, ok)
  <2>1. /\ UNCHANGED <<busy, flags>>
        /\ pc[t] \in {"recovering", "restart", "judge", "report", "exhausted", "give up", "failed", "stop old"}
        /\ \/ UNCHANGED <<hub, source>> \/ (\E ok \in BOOLEAN : SourceStop(ok))
           \/ hub' = HubStopped /\ UNCHANGED source
        /\ \E x \in {"announce recovery", "judge", "begin", "idle", "recovered", "failed", "watch",
                     "give up", "give up hub", "exhausted", "reopen", "restart"} :
             pc' = [pc EXCEPT ![t] = x]
    BY <1>4 DEF RecoverState, RecoverRestart, RecoverJudge, RecoverStreaming, RecoverExhausted,
                RecoverGiveUp, RecoverFailed, RecoverStop, Goto, camera
  <2>2. pc[t] \in Working
    BY <2>1 DEF Working
  <2>3. Calms
    BY <1>1, <2>1, CalmFacts
  <2>4. \A x \in {"announce recovery", "judge", "begin", "idle", "recovered", "failed", "watch",
                  "give up", "give up hub", "exhausted", "reopen", "restart"} :
          x \notin AfterFlags /\ x # "started"
    BY DEF AfterFlags, AfterHub, AfterSource
  <2>5. QED
    BY <1>2, <2>1, <2>2, <2>3, <2>4, StageFacts, QuietGoes
<1>5. CASE RecoverBegin(n) \/ RecoverEnd(n)
  <2>1. /\ UNCHANGED <<busy, flags, source>> /\ pc[t] \in {"announce recovery", "recovered"}
        /\ \E b \in BOOLEAN : hub' = [hub EXCEPT !.recovering = b]
        /\ \E x \in {"stop old", "report"} : pc' = [pc EXCEPT ![t] = x]
    BY <1>5 DEF RecoverBegin, RecoverEnd, Goto, camera
  <2>2. pc[t] \in Working
    BY <2>1 DEF Working
  <2>3. pc'[t] \in {"stop old", "report"} /\ \A u \in Tasks : u # t => pc'[u] = pc[u]
    BY <1>1, <2>1 DEF Types
  <2>4. Stage(t)'
    BY <1>1, <2>3 DEF Stage, AfterFlags, AfterHub, AfterSource
  <2>5. Handles'
    BY <1>1, <2>1 DEF Handles, Inactive, Types, HubSet
  <2>6. QED
    BY <1>1, <1>2, <2>1, <2>2, <2>3, <2>4, <2>5, QuietWorks
<1>6. CASE \E found, ok \in BOOLEAN : RecoverReopen(n, found, ok)
  <2>1. /\ UNCHANGED <<busy, flags>> /\ pc[t] = "reopen"
        /\ hub' = IF source.open THEN HubStopped ELSE hub
        /\ source'.owner = 0
        /\ \E x \in {"restart", "judge"} : pc' = [pc EXCEPT ![t] = x]
    BY <1>6 DEF RecoverReopen, Goto, camera, Off
  <2>2. pc[t] \in Working
    BY <2>1 DEF Working
  <2>3. pc'[t] \in {"restart", "judge"} /\ \A u \in Tasks : u # t => pc'[u] = pc[u]
    BY <1>1, <2>1 DEF Types
  <2>4. Stage(t)'
    BY <1>1, <2>3 DEF Stage, AfterFlags, AfterHub, AfterSource
  <2>5. ~hub'.active
    BY <1>1, <2>1 DEF Handles, Inactive, HubStopped, Types, HubSet
  <2>6. Handles'
    BY <2>1, <2>5 DEF Handles, Inactive
  <2>7. QED
    BY <1>1, <1>2, <2>1, <2>2, <2>3, <2>4, <2>6, QuietWorks
<1>7. CASE RecoverGiveUpHub(n)
  <2>1. /\ UNCHANGED <<busy, flags, source>> /\ pc[t] = "give up hub" /\ hub' = HubQuiet
        /\ pc' = [pc EXCEPT ![t] = "give up source"]
    BY <1>7 DEF RecoverGiveUpHub, Goto, camera
  <2>2. pc[t] \in Working /\ "give up source" \notin AfterHub /\ "give up source" \notin AfterSource
    BY <2>1 DEF Working, AfterHub, AfterSource
  <2>3. QED
    BY <1>2, <2>1, <2>2, CalmFacts, QuietGoes
<1>8. CASE RecoverGiveUpSource(n)
  <2>1. /\ UNCHANGED <<busy, flags>> /\ pc[t] = "give up source"
        /\ pc' = [pc EXCEPT ![t] = "give up closed"]
    BY <1>8 DEF RecoverGiveUpSource, Goto, camera
  <2>2. pc[t] \in Working /\ pc[t] \in AfterFlags
    BY <2>1 DEF Working, AfterFlags
  <2>3. Calms /\ Inactive' /\ Ended'
    <3>1. CASE source.open
      BY <1>1, <1>8, <3>1, CalmFacts DEF RecoverGiveUpSource
    <3>2. CASE ~source.open
      <4>1. hub' = HubStopped /\ UNCHANGED source
        BY <1>8, <3>2 DEF RecoverGiveUpSource
      <4>2. Ended
        BY <1>1, <3>2 DEF Handles, Ended
      <4>3. QED
        BY <4>1, <4>2, CalmFacts DEF Calms
    <3>3. QED
      BY <3>1, <3>2
  <2>4. Unflagged'
    BY <1>1, <2>2, <2>3, CalmFacts DEF Stage
  <2>5. QED
    BY <1>2, <2>1, <2>2, <2>3, <2>4, QuietGoes
<1>9. CASE RecoverClosed(n) \/ RecoverFree(n)
  <2>1. /\ UNCHANGED <<hub, source, flags>> /\ pc[t] \in {"give up closed", "give up free"}
        /\ \E x \in {"give up free", "idle"} : pc' = [pc EXCEPT ![t] = x]
    BY <1>9 DEF RecoverClosed, RecoverFree, Goto
  <2>2. pc[t] \in AfterSource
    BY <2>1 DEF AfterSource
  <2>3. pc[t] \in Working /\ Unflagged /\ Inactive /\ Ended /\ Calms
    BY <1>1, <2>1, <2>2, StageFacts, CalmFacts DEF Stage
  <2>4. Unflagged' /\ Inactive' /\ Ended'
    BY <2>3, CalmFacts DEF Calms
  <2>5. QED
    BY <2>1, <2>3, <2>4, QuietGoes
<1>10. CASE AttemptStep(Recoverer(n))
  BY <1>10, QuietAttemptStep
<1>11. QED
  BY <1>3, <1>4, <1>5, <1>6, <1>7, <1>8, <1>9, <1>10 DEF RecoverStep

\* Every step keeps the hub and the source quiet where they have to be.
LEMMA QuietStep ==
  ASSUME Types, Control, Quiet, [Next]_vars
  PROVE  Quiet'
<1>1. CASE OpenClaim \/ OpenStep \/ OpenTimeout \/ (\E ok \in BOOLEAN : CloseCamera(ok))
  BY <1>1, QuietOpenStep
<1>2. CASE \/ \E t \in CloserTasks \cup {Opener} : RequestStep(t)
           \/ \E t \in CloserTasks :
                (\E n \in Sessions : Close(t, n) \/ DropSession(t, n)) \/ CancelClose(t)
  BY <1>2, QuietCallStep
<1>3. CASE \E t \in CloserTasks \cup {Stopper(n) : n \in Sessions} : StopStep(t)
  BY <1>3, QuietStopStep, TaskFacts
<1>4. CASE \E n \in Sessions : StartStep(n) \/ RecoverWake(n) \/ RecoverLock(n) \/ RecoverStep(n)
  BY <1>4, QuietStartStep, QuietRecoverStep
<1>5. CASE LateStop \/ SourceFrame \/ SourceLost \/ UNCHANGED vars
  <2>1. UNCHANGED <<busy, pc, flags>>
    BY <1>5 DEF LateStop, SourceFrame, SourceLost, vars, camera, session, task
  <2>2. Calms
    <3>1. CASE LateStop \/ UNCHANGED vars
      BY <3>1, CalmFacts DEF LateStop, vars, Quiet
    <3>2. CASE SourceFrame
      BY <3>2 DEF SourceFrame, Calms, Ended, Types, HubSet
    <3>3. CASE SourceLost
      BY <3>3 DEF SourceLost, Calms, Ended, Types, HubSet, HubStopped, Source
    <3>4. QED
      BY <1>5, <3>1, <3>2, <3>3
  <2>3. QED
    BY <2>1, <2>2, QuietCalm
<1>6. QED
  BY <1>1, <1>2, <1>3, <1>4, <1>5 DEF Next

-----------------------------------------------------------------------------
(* The theorems.                                                           *)

\* The two forms of the type invariant say the same of a source whose handle
\* is not given up before its capture.
LEMMA TypesSame == Types /\ Handles <=> TypeOK /\ Handles
BY DEF TypeOK, Types, HubSet, FlagSet, GotSet, CauseSet, TxSet, Handles

\* The camera as it was opened.
LEMMA SessionInvInit ==
  ASSUME Init
  PROVE  Types /\ Control /\ Quiet
<1>1. MaxSession \in Nat /\ MaxSession >= 1 /\ 0 \in 0..MaxSession /\ 0 \in Nat
  BY TaskFacts
<1>2. at \in [Tasks -> 0..MaxSession] /\ \A n \in Sessions : at[Starter(n)] = n /\ at[Recoverer(n)] = n /\ at[Stopper(n)] = n
  <2>1. \A n \in Sessions : /\ Starter(n)[1] = "start" /\ Starter(n)[2] = n
                            /\ Recoverer(n)[1] = "recover" /\ Recoverer(n)[2] = n
                            /\ Stopper(n)[1] = "stop" /\ Stopper(n)[2] = n
    BY DEF Starter, Recoverer, Stopper
  <2>2. \A n \in Sessions : n \in 0..MaxSession
    BY <1>1 DEF Sessions
  <2>3. Opener[1] = "open" /\ \A t \in CloserTasks : t[1] = "close"
    BY DEF Opener, CloserTasks
  <2>4. at = [t \in Tasks |-> IF t[1] \in {"start", "recover", "stop"} THEN t[2] ELSE 0]
    BY DEF Init
  <2>5. \A n \in Sessions : at[Starter(n)] = n /\ at[Recoverer(n)] = n /\ at[Stopper(n)] = n
    BY <2>1, <2>4, TaskFacts
  <2>6. at[Opener] = 0 /\ \A t \in CloserTasks : at[t] = 0
    BY <2>3, <2>4, TaskFacts
  <2>7. \A t \in Tasks : at[t] \in 0..MaxSession
    <3>1. ASSUME NEW t \in Tasks PROVE at[t] \in 0..MaxSession
      <4>1. CASE t = Opener \/ t \in CloserTasks
        BY <1>1, <2>6, <4>1
      <4>2. CASE t # Opener /\ t \notin CloserTasks
        BY <2>2, <2>5, <4>2, TaskKinds
      <4>3. QED
        BY <4>1, <4>2
    <3>2. QED
      BY <3>1
  <2>8. at = [t \in Tasks |-> at[t]]
    BY <2>4
  <2>9. QED
    BY <2>5, <2>7, <2>8
<1>3. Types
  <2>1. hub \in HubSet /\ source \in Source
    BY <1>1 DEF Init, HubSet, Source, Off
  <2>2. pc \in [Tasks -> Points] /\ state \in [Sessions -> States]
    BY DEF Init, Points, States
  <2>3. got \in [Tasks -> GotSet] /\ cause \in [Tasks -> CauseSet] /\ tx \in [Sessions -> TxSet]
    BY DEF Init, GotSet, CauseSet, TxSet
  <2>4. flags \in [Tasks -> FlagSet] /\ tries \in [Tasks -> Nat] /\ late \in Nat
    BY <1>1 DEF Init, FlagSet, NoFlags
  <2>5. /\ stopping \in [Sessions -> BOOLEAN] /\ closed \in [Sessions -> BOOLEAN]
        /\ lock \in [Sessions -> Tasks \cup {NoTask}]
    BY DEF Init
  <2>6. busy \in BOOLEAN /\ gone \in BOOLEAN /\ opened \in 0..MaxSession /\ handed \subseteq 1..opened
    BY <1>1 DEF Init
  <2>7. QED
    BY <1>2, <2>1, <2>2, <2>3, <2>4, <2>5, <2>6 DEF Types
<1>4. \A t \in Tasks : pc[t] = "idle"
  BY DEF Init
<1>5. Opener \in Tasks /\ \A n \in Sessions : Starter(n) \in Tasks /\ Recoverer(n) \in Tasks /\ Stopper(n) \in Tasks
  BY TaskFacts
<1>6. /\ "idle" \notin Working /\ "idle" \notin Holding /\ "idle" \notin Opening
  BY DEF Working, Holding, Opening
<1>7. Places /\ Held /\ Works
  BY <1>2, <1>4, <1>5, <1>6 DEF Places, Held, Works
<1>8. 1..opened = {} /\ opened = 0 /\ handed = {} /\ \A n \in Sessions : ~closed[n] /\ ~stopping[n] /\ tx[n] = "pending"
  BY DEF Init
<1>9. Turns /\ Fresh
  BY <1>4, <1>5, <1>8 DEF Turns, Fresh
<1>10. Clients
  <2>1. \A t \in CloserTasks : at[t] = 0
    <3>1. \A t \in CloserTasks : t[1] = "close"
      BY DEF CloserTasks
    <3>2. QED
      BY <3>1, TaskFacts DEF Init
  <2>2. QED
    BY <1>4, <1>5, <1>8, <2>1, TaskFacts DEF Clients
<1>11. Startup
  BY <1>4, <1>5, <1>6 DEF Startup
<1>12. Unflagged /\ Inactive /\ Ended /\ source.open
  BY DEF Init, Unflagged, Inactive, Ended, Off
<1>13. Quiet
  BY <1>4, <1>6, <1>12, StageFacts DEF Quiet, Handles, Stage, Rest
<1>14. QED
  BY <1>3, <1>7, <1>9, <1>10, <1>11, <1>13 DEF Control

\* Every step keeps the types.
LEMMA TypesStep ==
  ASSUME Types, Control, [Next]_vars
  PROVE  Types'
<1>1. Turns /\ Places /\ Startup
  BY DEF Control
<1>2. CASE \/ OpenClaim \/ OpenStep \/ OpenTimeout \/ (\E ok \in BOOLEAN : CloseCamera(ok))
           \/ \E t \in CloserTasks :
                (\E n \in Sessions : Close(t, n) \/ DropSession(t, n)) \/ CancelClose(t)
  BY <1>1, <1>2, TypesCallStep
<1>3. CASE \/ \E t \in CloserTasks \cup {Opener} : RequestStep(t)
           \/ \E t \in CloserTasks \cup {Stopper(n) : n \in Sessions} : StopStep(t)
  BY <1>3, TypesCloseStep, TaskFacts
<1>4. CASE \E n \in Sessions : StartStep(n) \/ RecoverWake(n) \/ RecoverLock(n) \/ RecoverStep(n)
  BY <1>1, <1>4, TypesStartStep, TypesRecoverStep, TaskFacts
<1>5. CASE LateStop \/ SourceFrame \/ SourceLost
  <2>1. 1 \in Sessions
    BY TaskFacts DEF Sessions
  <2>2. QED
    BY <1>1, <1>5, <2>1, TypesStartStep, TaskFacts
<1>6. CASE UNCHANGED vars
  BY <1>6 DEF vars, camera, session, task, Types
<1>7. QED
  BY <1>2, <1>3, <1>4, <1>5, <1>6 DEF Next

\* The inductive invariant holds in every state.
THEOREM SessionInvariant == Spec /\ [][Prompt]_vars => []SessionInv
<1>1. Init => SessionInv
  BY SessionInvInit, TypesSame DEF SessionInv, Quiet
<1>2. SessionInv /\ [Next]_vars /\ [Prompt]_vars => SessionInv'
  <2> SUFFICES ASSUME SessionInv, [Next]_vars, [Prompt]_vars PROVE SessionInv'
    OBVIOUS
  <2>1. Types /\ Control /\ Quiet
    BY TypesSame DEF SessionInv, Quiet
  <2>2. Types' /\ Control' /\ Quiet'
    BY <2>1, TypesStep, ControlStep, QuietStep
  <2>3. TypeOK'
    BY <2>2 DEF Quiet, Handles, TypeOK, Types, HubSet, FlagSet, GotSet, CauseSet, TxSet
  <2>4. QED
    BY <2>2, <2>3 DEF SessionInv
<1>3. QED
  BY <1>1, <1>2, PTL DEF Spec

\* Type correctness of start(), close() and the spawned tasks, and that
\* Source::release gives no handle up under a capture, unless a start() is
\* given up before its task has the mutex.
THEOREM SessionTypes == Spec /\ [][Prompt]_vars => []TypeOK
<1>1. SessionInv => TypeOK
  BY DEF SessionInv
<1>2. QED
  BY <1>1, SessionInvariant, PTL

\* Camera.busy and SessionInner.closed agree: a session is created only once
\* the one before it is closed, and a free camera has no open session.  This
\* is of the behaviours in which no start() is given up before its task has
\* the mutex (api.rs: start_inner, the task it spawns).
THEOREM SessionsFollow == Spec /\ [][Prompt]_vars => []OneSession
<1>1. SessionInv => OneSession
  <2> SUFFICES ASSUME SessionInv PROVE OneSession
    OBVIOUS
  <2>1. Turns
    BY DEF SessionInv, Control
  <2>2. QED
    BY <2>1 DEF Turns, OneSession
<1>2. QED
  BY <1>1, SessionInvariant, PTL

\* stop(), an aborted startup and an exhausted recovery free the camera only
\* once nothing publishes, announces a recovery or captures.  Excepted is a
\* session whose start() was given up before its task had the mutex: that task
\* still frees the camera when it runs, which a newer session may have by then.
THEOREM FreeIsQuiet == Spec /\ [][Prompt]_vars => []FreeMeansQuiet
<1>1. SessionInv => FreeMeansQuiet
  BY DEF SessionInv, Quiet, Rest, FreeMeansQuiet, Unflagged, Inactive, Ended
<1>2. QED
  BY <1>1, SessionInvariant, PTL

-----------------------------------------------------------------------------
(* Recovery keeps the receivers.                                           *)

\* A session that was asked to stop stays so.
LEMMA StoppingStays ==
  ASSUME Types, [Next]_vars
  PROVE  \A n \in Sessions : stopping[n] => stopping'[n]
<1>1. ASSUME NEW t, RequestStep(t) \/ StopStep(t)
      PROVE  stopping' = stopping \/ stopping' = [stopping EXCEPT ![at[t]] = TRUE]
  BY <1>1 DEF RequestStep, RequestStop, RequestAnnounce, RequestQuiet, RequestHalt, StopStep,
              StopLock, StopQuiet, StopHalt, StopSource, StopClosed, StopState, StopFree, session
<1>2. ASSUME OpenClaim \/ OpenStep \/ OpenTimeout \/ (\E ok \in BOOLEAN : CloseCamera(ok))
      PROVE  stopping' = stopping
  BY <1>2 DEF OpenClaim, OpenStep, OpenConfigure, OpenOptions, OpenResult, OpenTimeout,
              OpenStreaming, OpenHandover, CloseCamera, session
<1>3. ASSUME \/ \E t \in CloserTasks :
                  (\E n \in Sessions : Close(t, n) \/ DropSession(t, n)) \/ CancelClose(t)
             \/ LateStop \/ SourceFrame \/ SourceLost \/ UNCHANGED vars
      PROVE  stopping' = stopping
  BY <1>3 DEF Close, DropSession, CancelClose, LateStop, SourceFrame, SourceLost, vars, session
<1>4. ASSUME NEW t, AttemptStep(t) PROVE stopping' = stopping
  BY <1>4 DEF AttemptStep, SourceStartBegin, SourceStartEnd, SourceStartFails, FirstFrame,
              NoFirstFrame, session
<1>5. ASSUME NEW n \in Sessions, StartStep(n)
      PROVE  stopping' = stopping \/ stopping' = [stopping EXCEPT ![n] = TRUE]
  BY <1>4, <1>5 DEF StartStep, StartLock, StartCandidate, StartJudge, StartFinish, StartAbort,
                    StartAbortState, StartAbortFree, StartSend, session
<1>6. ASSUME NEW n \in Sessions, RecoverWake(n) \/ RecoverLock(n) \/ RecoverStep(n)
      PROVE  stopping' = stopping \/ stopping' = [stopping EXCEPT ![n] = TRUE]
  <2>1. CASE RecoverWake(n) \/ RecoverLock(n)
    BY <2>1 DEF RecoverWake, RecoverLock, session
  <2>2. CASE RecoverStep(n)
    BY <1>4, <2>2 DEF RecoverStep, RecoverState, RecoverBegin, RecoverRestart, RecoverStop,
                      RecoverReopen, RecoverJudge, RecoverEnd, RecoverStreaming, RecoverFailed,
                      RecoverExhausted, RecoverGiveUp, RecoverGiveUpHub, RecoverGiveUpSource,
                      RecoverClosed, RecoverFree, session
  <2>3. QED
    BY <1>6, <2>1, <2>2
<1>7. \E x : stopping' = stopping \/ stopping' = [stopping EXCEPT ![x] = TRUE]
  BY <1>1, <1>2, <1>3, <1>5, <1>6 DEF Next
<1>8. QED
  BY <1>7 DEF Types

\* Stops, startups and recoveries leave the requests of others alone.
LEMMA OthersMoves ==
  ASSUME Types,
         \/ \E t \in Tasks : StopStep(t)
         \/ \E n \in Sessions : StartStep(n) \/ RecoverWake(n) \/ RecoverLock(n) \/ RecoverStep(n)
  PROVE  UNCHANGED at /\ \A t \in Tasks : pc'[t] = pc[t] \/ pc'[t] \notin Marks
<1> USE DEF task, Goto
<1>1. UNCHANGED at /\ \E t \in Tasks : \E x : x \notin Marks /\ pc' = [pc EXCEPT ![t] = x]
  <2>1. ASSUME NEW t \in Tasks, StopStep(t)
        PROVE  UNCHANGED at /\ \E x : x \notin Marks /\ pc' = [pc EXCEPT ![t] = x]
    <3>1. CASE StopLock(t) \/ StopQuiet(t) \/ StopHalt(t) \/ \E ok \in BOOLEAN : StopSource(t, ok)
      BY <3>1 DEF StopLock, StopQuiet, StopHalt, StopSource, Marks
    <3>2. CASE StopClosed(t) \/ StopState(t) \/ StopFree(t)
      BY <3>2 DEF StopClosed, StopState, StopFree, Marks
    <3>3. QED
      BY <2>1, <3>1, <3>2 DEF StopStep
  <2>2. ASSUME NEW t \in Tasks, AttemptStep(t)
        PROVE  UNCHANGED at /\ \E x : x \notin Marks /\ pc' = [pc EXCEPT ![t] = x]
    BY <2>2 DEF AttemptStep, SourceStartBegin, SourceStartEnd, SourceStartFails, FirstFrame,
                NoFirstFrame, Marks
  <2>3. ASSUME NEW n \in Sessions, StartStep(n)
        PROVE  UNCHANGED at /\ \E x : x \notin Marks /\ pc' = [pc EXCEPT ![Starter(n)] = x]
    <3>1. CASE StartLock(n) \/ StartCandidate(n) \/ StartJudge(n) \/ StartFinish(n)
      BY <3>1 DEF StartLock, StartCandidate, StartJudge, StartFinish, Marks
    <3>2. CASE StartAbort(n) \/ StartAbortState(n) \/ StartAbortFree(n) \/ StartSend(n)
      BY <3>2 DEF StartAbort, StartAbortState, StartAbortFree, StartSend, Marks
    <3>3. QED
      BY <2>2, <2>3, <3>1, <3>2, TaskFacts DEF StartStep
  <2>4. ASSUME NEW n \in Sessions, RecoverWake(n) \/ RecoverLock(n) \/ RecoverStep(n)
        PROVE  UNCHANGED at /\ \E x : x \notin Marks /\ pc' = [pc EXCEPT ![Recoverer(n)] = x]
    <3>1. CASE RecoverWake(n) \/ RecoverLock(n) \/ RecoverState(n) \/ RecoverBegin(n) \/ RecoverRestart(n)
      BY <3>1 DEF RecoverWake, RecoverLock, RecoverState, RecoverBegin, RecoverRestart, Marks
    <3>2. CASE (\E ok \in BOOLEAN : RecoverStop(n, ok))
               \/ (\E found, ok \in BOOLEAN : RecoverReopen(n, found, ok))
      BY <3>2 DEF RecoverStop, RecoverReopen, Marks
    <3>3. CASE RecoverJudge(n) \/ RecoverEnd(n) \/ RecoverStreaming(n) \/ RecoverFailed(n)
      BY <3>3 DEF RecoverJudge, RecoverEnd, RecoverStreaming, RecoverFailed, Marks
    <3>4. CASE \/ RecoverExhausted(n) \/ RecoverGiveUp(n) \/ RecoverGiveUpHub(n)
               \/ RecoverGiveUpSource(n) \/ RecoverClosed(n) \/ RecoverFree(n)
      BY <3>4 DEF RecoverExhausted, RecoverGiveUp, RecoverGiveUpHub, RecoverGiveUpSource,
                  RecoverClosed, RecoverFree, Marks
    <3>5. QED
      BY <2>2, <2>4, <3>1, <3>2, <3>3, <3>4, TaskFacts DEF RecoverStep
  <2>5. QED
    BY <2>1, <2>3, <2>4, TaskFacts
<1>2. QED
  BY <1>1 DEF Types

\* Whoever asks a session to stop has marked it.
LEMMA MarksStep ==
  ASSUME Types, Control, Kept, [Next]_vars, NEW t \in CloserTasks \cup {Opener}, pc'[t] \in Marks
  PROVE  stopping'[at'[t]]
<1>1. t \in Tasks /\ \A n \in Sessions : t # Stopper(n) /\ t # Starter(n) /\ t # Recoverer(n)
  BY TaskFacts
<1>2. pc[t] # "idle" /\ pc[t] # "configure" => at[t] \in Sessions
  BY TheirSessions DEF Control, Places, Delivered
<1>3. pc[t] \in Marks => stopping[at[t]] /\ at[t] \in Sessions
  BY <1>2 DEF Kept, Marks
<1>4. CASE pc'[t] = pc[t] /\ at'[t] = at[t]
  BY <1>3, <1>4, StoppingStays
<1>5. ASSUME NEW u \in CloserTasks \cup {Opener}, RequestStep(u) PROVE stopping'[at'[t]]
  <2>1. UNCHANGED at
    BY <1>5 DEF RequestStep, RequestStop, RequestAnnounce, RequestQuiet, RequestHalt, task
  <2>2. CASE u # t
    <3>1. at[u] \in Sessions
      <4>1. pc[u] # "idle" /\ pc[u] # "configure"
        BY <1>5 DEF RequestStep, RequestStop, RequestAnnounce, RequestQuiet, RequestHalt
      <4>2. QED
        BY <4>1, TheirSessions DEF Control, Places, Delivered
    <3>2. pc'[t] = pc[t]
      BY <1>1, <1>5, <2>2, <3>1 DEF RequestStep, RequestStop, RequestAnnounce, RequestQuiet,
                                    RequestHalt, Goto, Types
    <3>3. QED
      BY <1>4, <2>1, <3>2
  <2>3. CASE u = t /\ RequestStop(u)
    BY <1>2, <2>1, <2>3 DEF RequestStop, Types
  <2>4. CASE u = t /\ (RequestAnnounce(u) \/ RequestQuiet(u))
    <3>1. pc[t] \in Marks
      BY <2>4 DEF RequestAnnounce, RequestQuiet, Marks
    <3>2. QED
      BY <1>3, <2>1, <3>1, StoppingStays
  <2>5. CASE u = t /\ RequestHalt(u)
    <3>1. pc[t] \in Marks
      BY <2>5 DEF RequestHalt, Marks
    <3>2. QED
      BY <1>3, <2>1, <3>1, StoppingStays
  <2>6. QED
    BY <1>5, <2>2, <2>3, <2>4, <2>5 DEF RequestStep
<1>6. CASE OpenClaim \/ OpenStep \/ OpenTimeout \/ (\E ok \in BOOLEAN : CloseCamera(ok))
  <2>1. CASE t = Opener
    <3>1. \/ UNCHANGED <<pc, at>>
          \/ \E x \in {"configure", "idle", "options", "request", "await", "streaming", "handover"} :
               \/ pc' = [pc EXCEPT ![Opener] = x]
               \/ pc' = [pc EXCEPT ![Opener] = x, ![Starter(opened)] = "lock"]
               \/ \E y \in {"watch", "idle"} : pc' = [pc EXCEPT ![Opener] = x, ![Recoverer(opened)] = y]
      BY <1>6 DEF OpenClaim, OpenStep, OpenConfigure, OpenOptions, OpenResult, OpenTimeout,
                  OpenStreaming, OpenHandover, CloseCamera, Goto, task
    <3>2. Starter(opened) # Opener /\ Recoverer(opened) # Opener
      BY DEF Starter, Recoverer, Opener
    <3>3. UNCHANGED <<pc, at>> \/ pc'[Opener] \notin Marks
      BY <1>1, <2>1, <3>1, <3>2 DEF Types, Marks
    <3>4. QED
      BY <1>4, <2>1, <3>3
  <2>2. CASE t # Opener
    <3>1. t # Starter(opened) /\ t # Recoverer(opened)
      BY <2>2 DEF CloserTasks, Starter, Recoverer
    <3>2. pc'[t] = pc[t] /\ at'[t] = at[t]
      BY <1>1, <1>6, <2>2, <3>1 DEF OpenClaim, OpenStep, OpenConfigure, OpenOptions, OpenResult,
             OpenTimeout, OpenStreaming, OpenHandover, CloseCamera, Goto, task, Types
    <3>3. QED
      BY <1>4, <3>2
  <2>3. QED
    BY <2>1, <2>2
<1>7. ASSUME NEW u \in CloserTasks,
             (\E n \in Sessions : Close(u, n) \/ DropSession(u, n)) \/ CancelClose(u)
      PROVE  stopping'[at'[t]]
  <2>1. \/ pc'[t] = pc[t] /\ at'[t] = at[t]
        \/ pc'[t] \in {"idle", "request"}
    BY <1>1, <1>7, TaskFacts DEF Close, DropSession, CancelClose, Goto, Types
  <2>2. QED
    BY <1>4, <2>1 DEF Marks
<1>8. CASE LateStop \/ SourceFrame \/ SourceLost \/ UNCHANGED vars
  BY <1>4, <1>8 DEF LateStop, SourceFrame, SourceLost, vars, task
<1>9. CASE \/ \E u \in Tasks : StopStep(u)
           \/ \E n \in Sessions : StartStep(n) \/ RecoverWake(n) \/ RecoverLock(n) \/ RecoverStep(n)
  BY <1>1, <1>4, <1>9, OthersMoves
<1>10. QED
  BY <1>5, <1>6, <1>7, <1>8, <1>9, TaskFacts DEF Next

\* The steps that leave the hub's reconnect flag as it is.
LEMMA ReconnectFacts ==
  ASSUME Types
  PROVE  /\ hub' = HubStopped => (hub'.reconnect <=> hub.reconnect)
         /\ \A ok \in BOOLEAN : SourceStop(ok) => (hub'.reconnect <=> hub.reconnect)
         /\ hub' = [hub EXCEPT !.frame = TRUE] => (hub'.reconnect <=> hub.reconnect)
         /\ \A b \in BOOLEAN : hub' = [hub EXCEPT !.recovering = b] => (hub'.reconnect <=> hub.reconnect)
<1>1. hub \in HubSet
  BY DEF Types
<1>2. hub' = HubStopped => (hub'.reconnect <=> hub.reconnect)
  BY <1>1 DEF HubSet, HubStopped
<1>3. \A ok \in BOOLEAN : SourceStop(ok) => hub' \in {hub, HubStopped}
  BY DEF SourceStop
<1>4. /\ hub' = [hub EXCEPT !.frame = TRUE] => (hub'.reconnect <=> hub.reconnect)
      /\ \A b \in BOOLEAN : hub' = [hub EXCEPT !.recovering = b] => (hub'.reconnect <=> hub.reconnect)
  BY <1>1 DEF HubSet
<1>5. QED
  BY <1>2, <1>3, <1>4

\* The flag of the session that streams stays, and a new epoch carries it on.
LEMMA FlagsStep ==
  ASSUME Types, Control, Kept, Undisturbed, [Next]_vars,
         NEW n \in handed, ~stopping[n], Reconnect
  PROVE  /\ hub'.reconnect
         /\ pc'[Recoverer(n)] = "started" => flags'[Recoverer(n)].reconnect
<1> DEFINE r == Recoverer(n)
<1>1. Delivered(n) /\ n \in 1..opened /\ n \in Sessions
  BY TheirSessions DEF Control, Clients, Delivered
<1>2. n = opened /\ busy /\ pc[Opener] # "configure" /\ ~closed[n]
  BY <1>1, OpenSession DEF Control, Turns
<1>3. pc[Opener] = "idle" /\ pc[Starter(n)] = "idle"
  BY <1>1, <1>2 DEF Delivered
<1>4. hub.reconnect /\ (pc[r] = "started" => flags[r].reconnect)
  BY DEF Kept
<1>5. r \in Tasks /\ r # Opener /\ r \notin CloserTasks /\ \A m \in Sessions : r # Stopper(m) /\ r # Starter(m)
  BY <1>1, TaskFacts
<1>6. \A t \in Tasks : pc[t] \in Working =>
        /\ at[t] = n /\ pc[t] \notin Asked
        /\ \A m \in Sessions : t = Recoverer(m) => m = n
        /\ \A m \in Sessions : t # Starter(m)
  <2>1. "idle" \notin Working
    BY DEF Working
  <2>2. \A t \in Tasks : pc[t] \in Working => at[t] = n /\ pc[t] \notin Asked
    BY <1>2 DEF Control, Works
  <2>3. QED
    BY <1>3, <2>1, <2>2, TaskFacts DEF Control, Places
<1>7. ASSUME hub'.reconnect <=> hub.reconnect, UNCHANGED flags, pc'[r] = pc[r] \/ pc'[r] # "started"
      PROVE  hub'.reconnect /\ (pc'[r] = "started" => flags'[r].reconnect)
  BY <1>4, <1>7
<1>8. ASSUME NEW t \in CloserTasks \cup {Opener}, RequestStep(t)
      PROVE  hub'.reconnect /\ (pc'[r] = "started" => flags'[r].reconnect)
  <2>1. t # Opener /\ t \in CloserTasks
    BY <1>3, <1>8 DEF RequestStep, RequestStop, RequestAnnounce, RequestQuiet, RequestHalt
  <2>2. ~RequestQuiet(t)
    BY <1>2, <2>1 DEF RequestQuiet, Undisturbed, Kept, Marks
  <2>3. hub'.reconnect <=> hub.reconnect
    BY <1>8, <2>2, ReconnectFacts DEF RequestStep, RequestStop, RequestAnnounce, RequestHalt
  <2>4. t \in Tasks /\ r # t /\ at[t] \in Sessions
    <3>1. pc[t] # "idle"
      BY <1>8 DEF RequestStep, RequestStop, RequestAnnounce, RequestQuiet, RequestHalt
    <3>2. QED
      BY <1>5, <2>1, <3>1, TaskFacts, TheirSessions DEF Delivered
  <2>5. pc'[r] = pc[r] /\ UNCHANGED flags
    BY <1>5, <1>8, <2>4 DEF RequestStep, RequestStop, RequestAnnounce, RequestQuiet, RequestHalt, Goto, Types
  <2>6. QED
    BY <1>7, <2>3, <2>5
<1>9. ASSUME NEW t \in CloserTasks \cup {Stopper(m) : m \in Sessions}, StopStep(t)
      PROVE  hub'.reconnect /\ (pc'[r] = "started" => flags'[r].reconnect)
  <2>1. t \in Tasks /\ r # t
    BY <1>5, TaskFacts
  <2>2. ~StopQuiet(t)
    BY <1>6, <2>1 DEF StopQuiet, Working, Asked
  <2>3. hub'.reconnect <=> hub.reconnect
    BY <1>9, <2>2, ReconnectFacts DEF StopStep, StopLock, StopHalt, StopSource, StopClosed, StopState, StopFree
  <2>4. pc'[r] = pc[r] /\ UNCHANGED flags
    BY <1>5, <1>9, <2>1 DEF StopStep, StopLock, StopQuiet, StopHalt, StopSource, StopClosed, StopState,
                            StopFree, Goto, Types
  <2>5. QED
    BY <1>7, <2>3, <2>4
<1>10. CASE OpenClaim \/ OpenStep \/ OpenTimeout \/ \E ok \in BOOLEAN : CloseCamera(ok)
  BY <1>2, <1>3, <1>10 DEF OpenClaim, OpenStep, OpenConfigure, OpenOptions, OpenResult, OpenTimeout,
                           OpenStreaming, OpenHandover, CloseCamera
<1>11. ASSUME NEW t \in CloserTasks,
              (\E m \in Sessions : Close(t, m) \/ DropSession(t, m)) \/ CancelClose(t)
       PROVE  hub'.reconnect /\ (pc'[r] = "started" => flags'[r].reconnect)
  <2>1. pc'[r] = pc[r] /\ UNCHANGED <<hub, flags>>
    BY <1>5, <1>11, TaskFacts DEF Close, DropSession, CancelClose, Goto, Types
  <2>2. QED
    BY <1>7, <2>1
<1>12. ASSUME NEW m \in Sessions, StartStep(m)
       PROVE  hub'.reconnect /\ (pc'[r] = "started" => flags'[r].reconnect)
  <2>1. pc[Starter(m)] \in {"lock", "send"}
    <3>1. pc[Starter(m)] \notin Working
      BY <1>6, TaskFacts
    <3>2. pc[Starter(m)] \in Working \cup {"lock", "send"}
      BY <1>12 DEF StartStep, StartLock, StartCandidate, StartJudge, StartFinish, StartAbort,
                   StartAbortState, StartAbortFree, StartSend, AttemptStep, SourceStartBegin,
                   SourceStartEnd, SourceStartFails, FirstFrame, NoFirstFrame, Working
    <3>3. QED
      BY <3>1, <3>2
  <2>2. StartLock(m) \/ StartSend(m)
    BY <1>12, <2>1 DEF StartStep, StartCandidate, StartJudge, StartFinish, StartAbort,
                   StartAbortState, StartAbortFree, AttemptStep, SourceStartBegin,
                   SourceStartEnd, SourceStartFails, FirstFrame, NoFirstFrame
  <2>3. UNCHANGED <<hub, flags>> /\ pc'[r] = pc[r]
    BY <1>5, <2>2, TaskFacts DEF StartLock, StartSend, Goto, Types
  <2>4. QED
    BY <1>7, <2>3
<1>13. ASSUME NEW m \in Sessions, AttemptStep(Recoverer(m))
       PROVE  hub'.reconnect /\ (pc'[r] = "started" => flags'[r].reconnect)
  <2>1. m = n
    <3>1. pc[Recoverer(m)] \in Working
      BY <1>13 DEF AttemptStep, SourceStartBegin, SourceStartEnd, SourceStartFails, FirstFrame,
                   NoFirstFrame, Working
    <3>2. QED
      BY <1>6, <3>1, TaskFacts
  <2>2. CASE SourceStartBegin(r)
    <3>1. UNCHANGED hub /\ flags'[r] = [recovering |-> hub.recovering, reconnect |-> hub.reconnect]
      BY <1>5, <2>2 DEF SourceStartBegin, Types
    <3>2. QED
      BY <1>4, <3>1
  <2>3. CASE SourceStartEnd(r) \/ SourceStartFails(r)
    <3>1. pc'[r] # "started"
      BY <1>5, <2>3 DEF SourceStartEnd, SourceStartFails, Goto, Types
    <3>2. hub' = hub \/ (pc[r] = "started" /\ hub'.reconnect = flags[r].reconnect)
      BY <2>3 DEF SourceStartEnd, SourceStartFails, HubStarted
    <3>3. QED
      BY <1>4, <3>1, <3>2
  <2>4. CASE (\E accepted \in BOOLEAN : FirstFrame(r, accepted)) \/ NoFirstFrame(r)
    BY <1>4, <1>5, <2>4 DEF FirstFrame, NoFirstFrame, Goto, Types
  <2>5. QED
    BY <1>13, <2>1, <2>2, <2>3, <2>4 DEF AttemptStep
<1>14. ASSUME NEW m \in Sessions, RecoverWake(m) \/ RecoverLock(m) \/ RecoverStep(m)
       PROVE  hub'.reconnect /\ (pc'[r] = "started" => flags'[r].reconnect)
  <2> DEFINE u == Recoverer(m)
  <2>1. ~RecoverGiveUpHub(m)
    <3>1. "give up hub" \in Working /\ "give up hub" \in Asked
      BY DEF Working, Asked
    <3>2. QED
      <4>1. u \in Tasks
        BY TaskFacts
      <4>2. QED
        BY <1>6, <3>1, <4>1 DEF RecoverGiveUpHub
  <2>2. ASSUME hub'.reconnect <=> hub.reconnect, UNCHANGED flags,
               NEW x, x # "started", pc' = [pc EXCEPT ![u] = x]
        PROVE  hub'.reconnect /\ (pc'[r] = "started" => flags'[r].reconnect)
    <3>1. pc'[r] = pc[r] \/ pc'[r] # "started"
      BY <1>5, <2>2 DEF Types
    <3>2. QED
      BY <1>7, <2>2, <3>1
  <2>3. CASE RecoverWake(m) \/ RecoverLock(m) \/ RecoverState(m) \/ RecoverRestart(m) \/ RecoverStreaming(m)
    <3>1. UNCHANGED <<hub, flags>> /\ \E x : x # "started" /\ pc' = [pc EXCEPT ![u] = x]
      BY <2>3 DEF RecoverWake, RecoverLock, RecoverState, RecoverRestart, RecoverStreaming, Goto
    <3>2. QED
      BY <2>2, <3>1
  <2>4. CASE RecoverExhausted(m) \/ RecoverGiveUp(m) \/ RecoverClosed(m) \/ RecoverFree(m)
    <3>1. UNCHANGED <<hub, flags>> /\ \E x : x # "started" /\ pc' = [pc EXCEPT ![u] = x]
      BY <2>4 DEF RecoverExhausted, RecoverGiveUp, RecoverClosed, RecoverFree, Goto
    <3>2. QED
      BY <2>2, <3>1
  <2>5. CASE RecoverBegin(m) \/ RecoverEnd(m)
    <3>1. UNCHANGED flags /\ \E x : x # "started" /\ pc' = [pc EXCEPT ![u] = x]
      BY <2>5 DEF RecoverBegin, RecoverEnd, Goto
    <3>2. \E b \in BOOLEAN : hub' = [hub EXCEPT !.recovering = b]
      BY <2>5 DEF RecoverBegin, RecoverEnd
    <3>3. QED
      BY <2>2, <3>1, <3>2, ReconnectFacts
  <2>6. CASE \/ RecoverJudge(m) \/ RecoverFailed(m) \/ RecoverGiveUpSource(m)
             \/ \E ok \in BOOLEAN : RecoverStop(m, ok)
    <3>1. UNCHANGED flags /\ \E x : x # "started" /\ pc' = [pc EXCEPT ![u] = x]
      BY <2>6 DEF RecoverJudge, RecoverFailed, RecoverGiveUpSource, RecoverStop, Goto
    <3>2. UNCHANGED hub \/ hub' = HubStopped \/ \E ok \in BOOLEAN : SourceStop(ok)
      BY <2>6 DEF RecoverJudge, RecoverFailed, RecoverGiveUpSource, RecoverStop
    <3>3. QED
      BY <2>2, <3>1, <3>2, ReconnectFacts
  <2>7. CASE \E found, ok \in BOOLEAN : RecoverReopen(m, found, ok)
    <3>1. UNCHANGED flags /\ \E x : x # "started" /\ pc' = [pc EXCEPT ![u] = x]
      BY <2>7 DEF RecoverReopen, Goto
    <3>2. UNCHANGED hub \/ hub' = HubStopped
      BY <2>7 DEF RecoverReopen
    <3>3. QED
      BY <2>2, <3>1, <3>2, ReconnectFacts
  <2>8. CASE AttemptStep(Recoverer(m))
    BY <1>13, <2>8
  <2>9. QED
    BY <1>14, <2>1, <2>3, <2>4, <2>5, <2>6, <2>7, <2>8 DEF RecoverStep
<1>15. CASE LateStop \/ SourceFrame \/ SourceLost \/ UNCHANGED vars
  <2>1. UNCHANGED <<flags, pc>>
    BY <1>15 DEF LateStop, SourceFrame, SourceLost, vars, task
  <2>2. hub'.reconnect <=> hub.reconnect
    BY <1>15, ReconnectFacts DEF LateStop, SourceFrame, SourceLost, vars
  <2>3. QED
    BY <1>7, <2>1, <2>2
<1>16. QED
  BY <1>8, <1>9, <1>10, <1>11, <1>12, <1>14, <1>15 DEF Next


\* Only start() hands sessions over.
LEMMA HandedOver ==
  ASSUME [Next]_vars
  PROVE  handed' \subseteq handed \/ OpenHandover
<1> USE DEF camera
<1>1. CASE OpenClaim \/ OpenTimeout \/ (\E ok \in BOOLEAN : CloseCamera(ok))
  BY <1>1 DEF OpenClaim, OpenTimeout, CloseCamera
<1>2. CASE OpenStep
  BY <1>2 DEF OpenStep, OpenConfigure, OpenOptions, OpenResult, OpenStreaming
<1>3. ASSUME NEW t, RequestStep(t) \/ StopStep(t) PROVE UNCHANGED handed
  BY <1>3 DEF RequestStep, RequestStop, RequestAnnounce, RequestQuiet, RequestHalt, StopStep,
              StopLock, StopQuiet, StopHalt, StopSource, StopClosed, StopState, StopFree
<1>4. ASSUME NEW t, (\E n \in Sessions : Close(t, n) \/ DropSession(t, n)) \/ CancelClose(t)
      PROVE  handed' \subseteq handed
  BY <1>4 DEF Close, DropSession, CancelClose
<1>5. ASSUME NEW t, AttemptStep(t) PROVE UNCHANGED handed
  BY <1>5 DEF AttemptStep, SourceStartBegin, SourceStartEnd, SourceStartFails, FirstFrame, NoFirstFrame
<1>6. ASSUME NEW n \in Sessions, StartStep(n) PROVE UNCHANGED handed
  BY <1>5, <1>6 DEF StartStep, StartLock, StartCandidate, StartJudge, StartFinish, StartAbort,
                    StartAbortState, StartAbortFree, StartSend
<1>7. ASSUME NEW n \in Sessions, RecoverWake(n) \/ RecoverLock(n) \/ RecoverStep(n)
      PROVE  UNCHANGED handed
  BY <1>5, <1>7 DEF RecoverWake, RecoverLock, RecoverStep, RecoverState, RecoverBegin, RecoverRestart,
                    RecoverStop, RecoverReopen, RecoverJudge, RecoverEnd, RecoverStreaming,
                    RecoverFailed, RecoverExhausted, RecoverGiveUp, RecoverGiveUpHub,
                    RecoverGiveUpSource, RecoverClosed, RecoverFree
<1>8. CASE LateStop \/ SourceFrame \/ SourceLost \/ UNCHANGED vars
  BY <1>8 DEF LateStop, SourceFrame, SourceLost, vars
<1>9. QED
  BY <1>1, <1>2, <1>3, <1>4, <1>6, <1>7, <1>8 DEF Next

\* Every step keeps the marks and the flag.
LEMMA KeptStep ==
  ASSUME Types, Control, Kept, Undisturbed, [Next]_vars
  PROVE  Kept'
<1>1. \A t \in CloserTasks \cup {Opener} : pc'[t] \in Marks => stopping'[at'[t]]
  BY MarksStep
<1>2. ASSUME NEW n \in handed', ~stopping'[n], Reconnect
      PROVE  hub'.reconnect /\ (pc'[Recoverer(n)] = "started" => flags'[Recoverer(n)].reconnect)
  <2>1. CASE n \in handed
    <3>1. n \in Sessions
      BY <2>1, TheirSessions DEF Types
    <3>2. QED
      BY <1>2, <2>1, <3>1, StoppingStays, FlagsStep
  <2>2. CASE n \notin handed
    <3>1. OpenHandover
      BY <1>2, <2>2, HandedOver
    <3>2. n = opened
      BY <1>2, <2>2, <3>1 DEF OpenHandover
    <3>3. hub'.reconnect
      BY <1>2, <3>1 DEF OpenHandover, Types, HubSet
    <3>4. pc'[Recoverer(n)] = "watch"
      <4>1. opened \in Sessions
        BY <3>1, TheirSessions DEF OpenHandover, Control, Places
      <4>2. Recoverer(n) \in Tasks
        BY <3>2, <4>1, TaskFacts
      <4>3. QED
        BY <1>2, <3>1, <3>2, <4>2 DEF OpenHandover, Types
    <3>5. QED
      BY <3>3, <3>4
  <2>3. QED
    BY <2>1, <2>2
<1>3. QED
  BY <1>1, <1>2 DEF Kept

\* enable_recovery, begin_recovery and hub.start together keep the receivers of
\* a session that streams or recovers, as long as no close() of an earlier
\* session is about to clear the flags, and no start() is given up before its
\* task has the mutex.
THEOREM RecoveryKeeps ==
  Spec /\ [][Prompt]_vars /\ []Undisturbed => []RecoveryKeepsReceivers
<1>1. Init => Kept
  <2>1. ASSUME Init PROVE handed = {} /\ \A t \in CloserTasks \cup {Opener} : pc[t] \notin Marks
    BY <2>1, TaskFacts DEF Init, Marks
  <2>2. QED
    BY <2>1 DEF Kept
<1>2. SessionInv /\ Undisturbed /\ Kept /\ [Next]_vars => Kept'
  <2> SUFFICES ASSUME SessionInv, Undisturbed, Kept, [Next]_vars PROVE Kept'
    OBVIOUS
  <2>1. Types /\ Control
    BY TypesSame DEF SessionInv, Quiet
  <2>2. QED
    BY <2>1, KeptStep
<1>3. Kept => RecoveryKeepsReceivers
  BY DEF Kept, RecoveryKeepsReceivers
<1>4. QED
  BY <1>1, <1>2, <1>3, SessionInvariant, PTL DEF Spec

\* The only session of a camera has no earlier one to be disturbed by.
THEOREM RecoveryKeepsTheFirst ==
  ASSUME MaxSession = 1
  PROVE  Spec /\ [][Prompt]_vars => []RecoveryKeepsReceivers
<1>1. SessionInv => Undisturbed
  <2> SUFFICES ASSUME SessionInv, NEW t \in CloserTasks, pc[t] = "quiet"
               PROVE  at[t] = opened
    BY DEF Undisturbed
  <2>1. Types /\ Control
    BY TypesSame DEF SessionInv, Quiet
  <2>2. at[t] \in 1..opened /\ opened \in 0..1
    BY <2>1, TheirSessions DEF Delivered, Types
  <2>3. QED
    BY <2>2
<1>2. QED
  BY <1>1, SessionInvariant, RecoveryKeeps, PTL
=============================================================================
