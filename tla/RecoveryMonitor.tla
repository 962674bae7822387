-------------------------- MODULE RecoveryMonitor --------------------------
(***************************************************************************)
(* What triggers a recovery and when (src/src/frame.rs, the recovery part, *)
(* and the waiting half of Session::spawn_recovery in src/src/api.rs): the *)
(* wake channel, the count of consecutive conversion errors, the age of    *)
(* the last source activity and the timer of the monitor.  How a recovery  *)
(* proceeds is the subject of Session; here it succeeds or fails at once.  *)
(*                                                                         *)
(* Time is counted in ticks and passes only when the monitor has nothing   *)
(* to do: the runtime wakes a task within a tick.                          *)
(***************************************************************************)
EXTENDS CaptureHub, FiniteSets

CONSTANTS Threads,      \* source threads that deliver or damage a frame
          Threshold,    \* FRAME_ERROR_RECOVERY_THRESHOLD (8 in the code)
          Stall,        \* stall_timeout in ticks
          MaxSessions   \* bound on the streams started

VARIABLES hub,
          errors,     \* metrics.consecutive_conversion_errors
          own,        \* ghost: those charged by threads that saw the current session
          age,        \* ticks since last_source_activity, counted up to Stall
          wakes,      \* a wake the monitor's receiver has not seen
          monitor,    \* where the monitor is, its timer and the trigger it holds
          thread,     \* per source thread: where it is in record_conversion_error
          stopping    \* the session is being stopped

vars == <<hub, errors, own, age, wakes, monitor, thread, stopping>>

MaxErrors == Threshold + Cardinality(Threads)

TypeOK ==
    /\ hub \in Hub
    /\ errors \in 0..MaxErrors /\ own \in 0..errors
    /\ age \in 0..Stall
    /\ wakes \in BOOLEAN
    /\ monitor \in [at : {"unborn", "subscribe", "check", "sleep", "lock", "recover", "retry", "ended"},
                    timer : 0..Stall, held : {"none", "stopped", "errors", "stalled"}]
    /\ thread \in [Threads -> [at : {"idle", "charge", "notify"}, session : Nat]]
    /\ stopping \in BOOLEAN

Init ==
    /\ hub = HubIdle
    /\ errors = 0 /\ own = 0 /\ age = 0
    /\ wakes = FALSE
    /\ monitor = [at |-> "unborn", timer |-> 0, held |-> "none"]
    /\ thread = [t \in Threads |-> [at |-> "idle", session |-> 0]]
    /\ stopping = FALSE

\* recovery_trigger: stopped before errors before stalled.
Trigger ==
    IF ~hub.active THEN "stopped"
    ELSE IF errors >= Threshold THEN "errors"
    ELSE IF age >= Stall THEN "stalled" ELSE "none"

\* Broken: a tick more than remains.
RemainingPast == Stall + 1 - age

\* source_stall_remaining, of the age at the time it is asked.
Remaining == Stall - age

-----------------------------------------------------------------------------
(* The hub: start, stop and what its source threads report.                 *)

\* Broken: a new stream goes on with the burst of the old one.
StartedKeepsErrors ==
    /\ hub' = HubStart(hub)
    /\ own' = 0 /\ age' = 0 /\ UNCHANGED errors

\* FrameHub::start forgets the errors and takes the start for an activity.
Started ==
    /\ hub' = HubStart(hub)
    /\ errors' = 0 /\ own' = 0 /\ age' = 0

\* Session::open: the stream runs before the monitor is spawned.
Open ==
    /\ monitor.at = "unborn"
    /\ Started
    /\ monitor' = [monitor EXCEPT !.at = "subscribe"]
    /\ UNCHANGED <<wakes, thread, stopping>>

\* Broken: a stop does not wake the monitor.
SourceStopsSilently ==
    /\ hub.active
    /\ hub' = HubStop(hub)
    /\ UNCHANGED <<errors, own, age, wakes, monitor, thread, stopping>>

\* FrameHub::stop, by a backend that lost its device.
SourceStops ==
    /\ hub.active
    /\ hub' = HubStop(hub)
    /\ wakes' = TRUE
    /\ UNCHANGED <<errors, own, age, monitor, thread, stopping>>

\* The session is closed, whatever its stream does: the flag, then the hub.
RequestStop ==
    /\ ~stopping /\ monitor.at # "unborn"
    /\ stopping' = TRUE
    /\ hub' = HubStop(hub)
    /\ wakes' = TRUE
    /\ UNCHANGED <<errors, own, age, monitor, thread>>

\* A published frame is an activity and ends the burst of errors.
Publish(t) ==
    /\ hub.active /\ thread[t].at = "idle"
    /\ errors' = 0 /\ own' = 0 /\ age' = 0
    /\ UNCHANGED <<hub, wakes, monitor, thread, stopping>>

\* reserve: a frame that begins is an activity, whatever becomes of it.
Activity(t) ==
    /\ hub.active /\ thread[t].at = "idle" /\ age # 0
    /\ age' = 0
    /\ UNCHANGED <<hub, errors, own, wakes, monitor, thread, stopping>>

\* record_conversion_error, first half: the session is compared under the
\* state lock, which is released before the pool is locked.  The bound on the
\* count leaves room for every thread to pass the threshold.
ErrorChecked(t) ==
    /\ hub.active /\ thread[t].at = "idle" /\ errors < Threshold
    /\ thread' = [thread EXCEPT ![t] = [at |-> "charge", session |-> hub.session]]
    /\ UNCHANGED <<hub, errors, own, age, wakes, monitor, stopping>>

\* Broken: the wake is due one error after the threshold.
NotifyLate(count) == count = Threshold + 1

\* The wake is due when the count reaches the threshold, and only then.
Notify(count) == count = Threshold

\* Second half, under the pool mutex: the frame counts as an activity when it
\* came from the source.
ErrorCharged(t) ==
    /\ thread[t].at = "charge"
    /\ errors' = errors + 1
    /\ own' = IF thread[t].session = hub.session THEN own + 1 ELSE own
    /\ \E sourceActivity \in BOOLEAN : age' = IF sourceActivity THEN 0 ELSE age
    /\ thread' = [thread EXCEPT ![t] = [at |-> IF Notify(errors + 1) THEN "notify" ELSE "idle",
                                        session |-> 0]]
    /\ UNCHANGED <<hub, wakes, monitor, stopping>>

ErrorNotifies(t) ==
    /\ thread[t].at = "notify"
    /\ wakes' = TRUE
    /\ thread' = [thread EXCEPT ![t].at = "idle"]
    /\ UNCHANGED <<hub, errors, own, age, monitor, stopping>>

-----------------------------------------------------------------------------
(* The monitor: wait_for_recovery_trigger and the loop around it.           *)

MonitorAt(at) == monitor' = [monitor EXCEPT !.at = at]

\* A new receiver has seen every wake so far.
Subscribe ==
    /\ monitor.at = "subscribe"
    /\ wakes' = FALSE
    /\ MonitorAt("check")
    /\ UNCHANGED <<hub, errors, own, age, thread, stopping>>

\* A trigger ends the wait.
CheckTriggered ==
    /\ monitor.at = "check" /\ Trigger # "none"
    /\ monitor' = [monitor EXCEPT !.at = "lock", !.held = Trigger]
    /\ UNCHANGED <<hub, errors, own, age, wakes, thread, stopping>>

\* No trigger: the timer is set to what remains of the stall timeout.
CheckQuiet ==
    /\ monitor.at = "check" /\ Trigger = "none"
    /\ monitor' = [monitor EXCEPT !.at = "sleep", !.timer = Remaining]
    /\ UNCHANGED <<hub, errors, own, age, wakes, thread, stopping>>

Woken ==
    /\ monitor.at = "sleep" /\ (wakes \/ monitor.timer = 0)
    /\ wakes' = IF wakes THEN FALSE ELSE wakes
    /\ MonitorAt("check")
    /\ UNCHANGED <<hub, errors, own, age, thread, stopping>>

\* Broken: the flag is read only between two attempts.
LeaveBetween ==
    /\ monitor.at = "retry" /\ stopping
    /\ MonitorAt("ended")
    /\ UNCHANGED <<hub, errors, own, age, wakes, thread, stopping>>

\* The flag is read before and after the lifecycle lock is taken.
Leave ==
    /\ monitor.at \in {"lock", "retry"} /\ stopping
    /\ MonitorAt("ended")
    /\ UNCHANGED <<hub, errors, own, age, wakes, thread, stopping>>

\* Under the lifecycle lock the trigger is looked at again.
Lock ==
    /\ monitor.at = "lock" /\ ~stopping
    /\ MonitorAt(IF Trigger = "none" THEN "subscribe" ELSE "recover")
    /\ UNCHANGED <<hub, errors, own, age, wakes, thread, stopping>>

\* The source was stopped and started again, and its first frame is good.
Recovered ==
    /\ monitor.at = "recover" /\ ~stopping /\ hub.session < MaxSessions
    /\ Started
    /\ monitor' = [monitor EXCEPT !.at = "subscribe", !.held = "none"]
    /\ UNCHANGED <<wakes, thread, stopping>>

\* The attempt failed: source and hub are stopped and the trigger is kept.
AttemptFails ==
    /\ monitor.at = "recover"
    /\ hub' = HubStop(hub)
    /\ wakes' = TRUE
    /\ MonitorAt(IF stopping THEN "ended" ELSE "retry")
    /\ UNCHANGED <<errors, own, age, thread, stopping>>

\* After the retry delay the next attempt needs no trigger.
Retry ==
    /\ monitor.at = "retry" /\ ~stopping
    /\ MonitorAt("recover")
    /\ UNCHANGED <<hub, errors, own, age, wakes, thread, stopping>>

MonitorStep ==
    \/ Subscribe \/ CheckTriggered \/ CheckQuiet \/ Woken
    \/ Leave \/ Lock \/ Recovered \/ AttemptFails \/ Retry

\* The monitor sleeps with nothing to wake it.
Asleep == monitor.at = "sleep" /\ ~wakes /\ monitor.timer # 0

Tick ==
    /\ Asleep
    /\ \A t \in Threads : thread[t].at # "notify"
    /\ age' = IF age = Stall THEN Stall ELSE age + 1
    /\ monitor' = [monitor EXCEPT !.timer = @ - 1]
    /\ UNCHANGED <<hub, errors, own, wakes, thread, stopping>>

Next ==
    \/ Open
    \/ SourceStops \/ RequestStop
    \/ \E t \in Threads :
        Publish(t) \/ Activity(t) \/ ErrorChecked(t) \/ ErrorCharged(t) \/ ErrorNotifies(t)
    \/ MonitorStep
    \/ Tick

\* The monitor's task is run and time passes; a source need not do anything.
Fairness ==
    /\ WF_vars(MonitorStep) /\ WF_vars(Tick)
    /\ \A t \in Threads : WF_vars(ErrorCharged(t) \/ ErrorNotifies(t))

Spec == Init /\ [][Next]_vars /\ Fairness

-----------------------------------------------------------------------------
(* Properties.                                                              *)

\* No wake is lost: while the monitor sleeps on with no wake to come, there is
\* nothing to recover from, and its timer ends no later than the stall does.
\* Errors reach the threshold in the thread that then sends the wake.
NoLostWake ==
    Asleep /\ (\A t \in Threads : thread[t].at # "notify") =>
        /\ Trigger = "none"
        /\ monitor.timer <= Remaining

\* The charge is made after the epoch's check was given up, so a stream that
\* ended can charge the next one, by one error for each of its threads at most.
StrayChargesBounded == errors - own <= Cardinality(Threads)

\* A source that stays dead is recovered or the session is on its way out, and
\* a closed session loses its monitor.
DeadSourceRecovered ==
    /\ (monitor.at = "sleep" /\ ~hub.active) ~> (monitor.at \in {"recover", "ended"} \/ stopping)
    /\ (stopping /\ monitor.at # "unborn") ~> monitor.at = "ended"
============================================================================
