---------------------- MODULE RecoveryMonitor_proofs ----------------------
(***************************************************************************)
(* Theorems about RecoveryMonitor, for any source threads, threshold and   *)
(* stall timeout: the monitor never sleeps past a reason to recover.       *)
(***************************************************************************)
EXTENDS RecoveryMonitor, FiniteSetTheorems, TLAPS

-----------------------------------------------------------------------------
(* The inductive invariant.                                                 *)

\* What the arguments need of the types; that the count of errors is bounded
\* they do not.
Types ==
    /\ hub \in Hub
    /\ errors \in Nat /\ age \in 0..Stall /\ wakes \in BOOLEAN
    /\ monitor \in [at : {"unborn", "subscribe", "check", "sleep", "lock", "recover", "retry", "ended"},
                    timer : 0..Stall, held : {"none", "stopped", "errors", "stalled"}]
    /\ thread \in [Threads -> [at : {"idle", "charge", "notify"}, session : Nat]]

\* A wake is under way: the thread whose error reached the threshold has left
\* the pool mutex and not sent it yet.
Notifying == \E t \in Threads : thread[t].at = "notify"

\* While the monitor sleeps and its wake is not sent, the stream runs, a burst
\* of errors has a thread that will wake it, and its timer ends by the stall.
SleepsSafely ==
    monitor.at = "sleep" /\ ~wakes =>
        /\ hub.active
        /\ errors >= Threshold => Notifying
        /\ monitor.timer + age <= Stall

MonitorInv == Types /\ SleepsSafely

\* FrameHub::start and stop give a hub.
LEMMA HubSteps ==
  ASSUME NEW h \in Hub
  PROVE  HubStart(h) \in Hub /\ HubStop(h) \in Hub
<1>1. HubStart(h) \in Hub
  <2>1. h.session \in Nat
    BY DEF Hub
  <2>2. QED
    BY <2>1 DEF Hub, HubStart
<1>2. HubStop(h) \in Hub
  BY DEF Hub, HubStop
<1>3. QED
  BY <1>1, <1>2

\* FrameHub::new, before the monitor is spawned.
LEMMA MonitorInvInit ==
  ASSUME Stall \in Nat
  PROVE  Init => MonitorInv
<1> SUFFICES ASSUME Init
             PROVE  MonitorInv
  OBVIOUS
<1>1. Types
  <2>1. HubIdle \in Hub
    BY DEF Hub, HubIdle
  <2>2. 0 \in 0..Stall
    OBVIOUS
  <2>3. errors \in Nat /\ age \in 0..Stall /\ wakes \in BOOLEAN
    BY <2>2 DEF Init
  <2>4. monitor \in [at : {"unborn", "subscribe", "check", "sleep", "lock", "recover", "retry", "ended"},
                     timer : 0..Stall, held : {"none", "stopped", "errors", "stalled"}]
    BY <2>2 DEF Init
  <2>5. thread \in [Threads -> [at : {"idle", "charge", "notify"}, session : Nat]]
    BY DEF Init
  <2>6. QED
    BY <2>1, <2>3, <2>4, <2>5 DEF Init, Types
<1>2. SleepsSafely
  BY DEF Init, SleepsSafely
<1>3. QED
  BY <1>1, <1>2 DEF MonitorInv

\* The types are kept by every step.
LEMMA TypesStep ==
  ASSUME Stall \in Nat, Types, [Next]_vars
  PROVE  Types'
<1> USE DEF Types
<1>1. CASE Open
  BY <1>1, HubSteps DEF Open, Started
<1>2. CASE SourceStops
  BY <1>2, HubSteps DEF SourceStops
<1>3. CASE RequestStop
  BY <1>3, HubSteps DEF RequestStop
<1>4. ASSUME NEW t \in Threads, Publish(t) \/ Activity(t)
      PROVE  Types'
  BY <1>4 DEF Publish, Activity
<1>5. ASSUME NEW t \in Threads, ErrorChecked(t)
      PROVE  Types'
  <2>1. hub.session \in Nat
    BY DEF Hub
  <2>2. QED
    BY <1>5, <2>1 DEF ErrorChecked
<1>6. ASSUME NEW t \in Threads, ErrorCharged(t)
      PROVE  Types'
  <2>1. age' \in 0..Stall
    BY <1>6 DEF ErrorCharged
  <2>2. QED
    BY <1>6, <2>1 DEF ErrorCharged
<1>7. ASSUME NEW t \in Threads, ErrorNotifies(t)
      PROVE  Types'
  BY <1>7 DEF ErrorNotifies
<1>8. CASE MonitorStep
  <2>1. CASE Subscribe
    BY <2>1 DEF Subscribe, MonitorAt
  <2>2. CASE CheckTriggered
    <3>1. Trigger \in {"none", "stopped", "errors", "stalled"}
      BY DEF Trigger
    <3>2. QED
      BY <2>2, <3>1 DEF CheckTriggered
  <2>3. CASE CheckQuiet
    <3>1. Remaining \in 0..Stall
      BY DEF Remaining
    <3>2. QED
      BY <2>3, <3>1 DEF CheckQuiet
  <2>4. CASE Woken
    BY <2>4 DEF Woken, MonitorAt
  <2>5. CASE Leave
    BY <2>5 DEF Leave, MonitorAt
  <2>6. CASE Lock
    BY <2>6 DEF Lock, MonitorAt
  <2>7. CASE Recovered
    <3>1. 0 \in Nat /\ 0 \in 0..Stall
      OBVIOUS
    <3>2. hub' \in Hub /\ errors' \in Nat /\ age' \in 0..Stall
      BY <2>7, <3>1, HubSteps DEF Recovered, Started
    <3>3. QED
      BY <2>7, <3>2 DEF Recovered
  <2>8. CASE AttemptFails
    BY <2>8, HubSteps DEF AttemptFails, MonitorAt
  <2>9. CASE Retry
    BY <2>9 DEF Retry, MonitorAt
  <2>10. QED
    BY <1>8, <2>1, <2>2, <2>3, <2>4, <2>5, <2>6, <2>7, <2>8, <2>9 DEF MonitorStep
<1>9. CASE Tick
  <2>1. monitor.timer - 1 \in 0..Stall
    BY <1>9 DEF Tick, Asleep
  <2>2. age' \in 0..Stall
    BY <1>9 DEF Tick
  <2>3. QED
    BY <1>9, <2>1, <2>2 DEF Tick
<1>10. CASE UNCHANGED vars
  BY <1>10 DEF vars
<1>11. QED
  BY <1>1, <1>2, <1>3, <1>4, <1>5, <1>6, <1>7, <1>8, <1>9, <1>10 DEF Next

\* A stop or a charged error wakes the sleeper, and time brings stall and
\* timer closer alike.
LEMMA SleepStep ==
  ASSUME Stall \in Nat, Threshold \in Nat \ {0}, MonitorInv, [Next]_vars
  PROVE  SleepsSafely'
<1> SUFFICES ASSUME monitor'.at = "sleep", ~wakes'
             PROVE  /\ hub'.active
                    /\ errors' >= Threshold => Notifying'
                    /\ monitor'.timer + age' <= Stall
  BY DEF SleepsSafely
<1> USE DEF MonitorInv, Types, SleepsSafely
<1>1. CASE Open
  BY <1>1 DEF Open
<1>2. CASE SourceStops \/ RequestStop
  BY <1>2 DEF SourceStops, RequestStop
<1>3. ASSUME NEW t \in Threads, Publish(t) \/ Activity(t)
      PROVE  /\ hub'.active
             /\ errors' >= Threshold => Notifying'
             /\ monitor'.timer + age' <= Stall
  BY <1>3 DEF Publish, Activity, Notifying
<1>4. ASSUME NEW t \in Threads, ErrorChecked(t)
      PROVE  /\ hub'.active
             /\ errors' >= Threshold => Notifying'
             /\ monitor'.timer + age' <= Stall
  BY <1>4 DEF ErrorChecked, Notifying
<1>5. ASSUME NEW t \in Threads, ErrorCharged(t)
      PROVE  /\ hub'.active
             /\ errors' >= Threshold => Notifying'
             /\ monitor'.timer + age' <= Stall
  <2>1. hub' = hub /\ wakes' = wakes /\ monitor' = monitor
    BY <1>5 DEF ErrorCharged
  <2>2. age' \in {0, age}
    BY <1>5 DEF ErrorCharged
  <2>3. monitor'.timer + age' <= Stall
    BY <2>1, <2>2
  <2>4. CASE errors' = Threshold
    <3>1. thread'[t].at = "notify"
      BY <1>5, <2>4 DEF ErrorCharged, Notify
    <3>2. QED
      BY <2>1, <2>3, <3>1 DEF Notifying
  <2>5. CASE errors' # Threshold
    <3>1. errors' = errors + 1
      BY <1>5 DEF ErrorCharged
    <3>2. errors' >= Threshold => errors >= Threshold
      BY <2>5, <3>1
    <3>3. Notifying => Notifying'
      <4>1. ASSUME NEW u \in Threads, thread[u].at = "notify"
            PROVE  thread'[u].at = "notify"
        BY <1>5, <4>1 DEF ErrorCharged
      <4>2. QED
        BY <4>1 DEF Notifying
    <3>4. QED
      BY <2>1, <2>3, <3>2, <3>3
  <2>6. QED
    BY <2>4, <2>5
<1>6. ASSUME NEW t \in Threads, ErrorNotifies(t)
      PROVE  FALSE
  BY <1>6 DEF ErrorNotifies
<1>7. CASE MonitorStep
  <2>1. CASE CheckQuiet
    <3>1. hub.active /\ errors < Threshold
      BY <2>1 DEF CheckQuiet, Trigger
    <3>2. monitor'.timer = Stall - age
      BY <2>1 DEF CheckQuiet, Remaining
    <3>3. hub' = hub /\ errors' = errors /\ age' = age
      BY <2>1 DEF CheckQuiet
    <3>4. QED
      BY <3>1, <3>2, <3>3
  <2>2. CASE ~CheckQuiet
    BY <1>7, <2>2 DEF MonitorStep, Subscribe, CheckTriggered, Woken, Leave, Lock, Recovered,
                      AttemptFails, Retry, MonitorAt
  <2>3. QED
    BY <2>1, <2>2
<1>8. CASE Tick
  <2>1. monitor.at = "sleep" /\ ~wakes /\ ~Notifying
    BY <1>8 DEF Tick, Asleep, Notifying
  <2>2. hub' = hub /\ errors' = errors
    BY <1>8 DEF Tick
  <2>3. monitor'.timer = monitor.timer - 1 /\ age' <= age + 1 /\ age' \in 0..Stall
    BY <1>8 DEF Tick
  <2>4. QED
    BY <2>1, <2>2, <2>3
<1>9. CASE UNCHANGED vars
  BY <1>9 DEF vars, Notifying
<1>10. QED
  BY <1>1, <1>2, <1>3, <1>4, <1>5, <1>6, <1>7, <1>8, <1>9 DEF Next

-----------------------------------------------------------------------------
(* Counting errors.                                                         *)

\* Threads that have compared the session and not charged their error yet,
\* and those of them whose session has ended meanwhile.
Charging == {t \in Threads : thread[t].at = "charge"}

Strays == {t \in Charging : thread[t].session # hub.session}

\* A thread charges the present stream at most once for an earlier one: it
\* compares the session before every charge, and a new stream forgets errors.
ErrorsCounted ==
    /\ own \in Nat /\ own <= errors
    /\ errors + Cardinality(Charging) <= Threshold - 1 + Cardinality(Threads)
    /\ (errors - own) + Cardinality(Strays) <= Cardinality(Threads)

\* Sets of source threads have a size, no larger than their number.
LEMMA ThreadSets ==
  ASSUME IsFiniteSet(Threads), NEW S \in SUBSET Threads
  PROVE  IsFiniteSet(S) /\ Cardinality(S) \in Nat
         /\ Cardinality(Threads) \in Nat /\ Cardinality(S) <= Cardinality(Threads)
BY FS_Subset, FS_CardinalityType

\* A step of no thread, in the same stream, changes no count.
LEMMA CountsKept ==
  ASSUME ErrorsCounted, UNCHANGED <<errors, own, thread>>, hub'.session = hub.session
  PROVE  ErrorsCounted'
<1>1. Charging' = Charging
  BY DEF Charging
<1>2. Strays' = Strays
  BY <1>1 DEF Strays
<1> QED BY <1>1, <1>2 DEF ErrorsCounted

\* Where the errors are forgotten, whatever the threads hold is within bounds.
LEMMA CountsForgotten ==
  ASSUME IsFiniteSet(Threads), Threshold \in Nat \ {0}, errors' = 0, own' = 0
  PROVE  ErrorsCounted'
<1>1. Charging' \in SUBSET Threads /\ Strays' \in SUBSET Threads
  BY DEF Charging, Strays
<1>2. /\ Cardinality(Charging') \in Nat /\ Cardinality(Charging') <= Cardinality(Threads)
      /\ Cardinality(Strays') \in Nat /\ Cardinality(Strays') <= Cardinality(Threads)
      /\ Cardinality(Threads) \in Nat
  BY <1>1, ThreadSets
<1> QED BY <1>2 DEF ErrorsCounted

\* The charge takes the thread out of those that owe one, whichever stream it
\* compared.
LEMMA CountsCharge ==
  ASSUME IsFiniteSet(Threads), Threshold \in Nat \ {0}, Types, ErrorsCounted,
         NEW t \in Threads, ErrorCharged(t)
  PROVE  ErrorsCounted'
<1>1. /\ t \in Charging /\ errors' = errors + 1 /\ hub' = hub
      /\ own' = IF thread[t].session = hub.session THEN own + 1 ELSE own
      /\ thread'[t].at # "charge" /\ \A u \in Threads : u # t => thread'[u] = thread[u]
  BY DEF ErrorCharged, Charging, Types
<1>2. Charging \in SUBSET Threads /\ Strays \in SUBSET Threads
  BY DEF Charging, Strays
<1>3. IsFiniteSet(Charging) /\ IsFiniteSet(Strays)
  BY <1>2, ThreadSets
<1>4. /\ Cardinality(Charging) \in Nat /\ Cardinality(Strays) \in Nat
      /\ Cardinality(Threads) \in Nat
  BY <1>2, ThreadSets
<1>5. Charging' = Charging \ {t}
  BY <1>1 DEF Charging
<1>12. \A u \in Charging \ {t} : thread'[u].session # hub'.session <=> thread[u].session # hub.session
  BY <1>1, <1>2
<1>13. Strays' = {u \in Charging \ {t} : thread[u].session # hub.session}
  BY <1>5, <1>12 DEF Strays
<1>6. Cardinality(Charging') = Cardinality(Charging) - 1
  BY <1>1, <1>3, <1>5, FS_RemoveElement
<1>7. /\ errors \in Nat /\ own \in Nat /\ own <= errors
      /\ errors + Cardinality(Charging) <= Threshold - 1 + Cardinality(Threads)
      /\ (errors - own) + Cardinality(Strays) <= Cardinality(Threads)
  BY DEF Types, ErrorsCounted
<1>8. errors' + Cardinality(Charging') <= Threshold - 1 + Cardinality(Threads)
  BY <1>1, <1>4, <1>6, <1>7
<1>9. own' \in Nat /\ own' <= errors'
  BY <1>1, <1>7
<1>10. CASE thread[t].session = hub.session
  <2>1. Strays' = Strays
    BY <1>10, <1>13 DEF Strays
  <2>2. own' = own + 1
    BY <1>1, <1>10
  <2>3. errors' - own' = errors - own
    BY <1>1, <1>7, <2>2
  <2> QED BY <1>7, <1>8, <1>9, <2>1, <2>3 DEF ErrorsCounted
<1>11. CASE thread[t].session # hub.session
  <2>1. t \in Strays /\ Strays' = Strays \ {t}
    BY <1>1, <1>11, <1>13 DEF Strays
  <2>2. Cardinality(Strays') = Cardinality(Strays) - 1
    BY <1>3, <2>1, FS_RemoveElement
  <2>3. own' = own
    BY <1>1, <1>11
  <2>4. (errors' - own') + Cardinality(Strays') <= Cardinality(Threads)
    BY <1>1, <1>4, <1>7, <2>2, <2>3
  <2> QED BY <1>8, <1>9, <2>4 DEF ErrorsCounted
<1> QED BY <1>10, <1>11

\* The session is compared for an error below the threshold.
LEMMA CountsCheck ==
  ASSUME IsFiniteSet(Threads), Threshold \in Nat \ {0}, Types, ErrorsCounted,
         NEW t \in Threads, ErrorChecked(t)
  PROVE  ErrorsCounted'
<1>1. /\ UNCHANGED <<hub, errors, own>> /\ errors < Threshold /\ t \notin Charging
      /\ thread'[t].session = hub.session
      /\ \A u \in Threads : u # t => thread'[u] = thread[u]
  BY DEF ErrorChecked, Charging, Types
<1>2. Strays' = Strays
  BY <1>1 DEF Strays, Charging
<1>3. Charging' \in SUBSET Threads
  BY DEF Charging
<1>4. /\ Cardinality(Charging') \in Nat /\ Cardinality(Charging') <= Cardinality(Threads)
      /\ Cardinality(Threads) \in Nat
  BY <1>3, ThreadSets
<1>5. errors \in Nat /\ errors' = errors /\ own' = own
  BY <1>1 DEF Types
<1>6. errors' + Cardinality(Charging') <= Threshold - 1 + Cardinality(Threads)
  BY <1>1, <1>4, <1>5
<1> QED BY <1>2, <1>5, <1>6 DEF ErrorsCounted

\* Every step keeps the counts.
LEMMA CountsStep ==
  ASSUME IsFiniteSet(Threads), Threshold \in Nat \ {0}, Types, ErrorsCounted, [Next]_vars
  PROVE  ErrorsCounted'
<1>0. \A h \in Hub : HubStop(h).session = h.session
  BY DEF Hub, HubStop
<1>1. CASE Open
  BY <1>1, CountsForgotten DEF Open, Started
<1>2. CASE SourceStops \/ RequestStop
  BY <1>0, <1>2, CountsKept DEF SourceStops, RequestStop, Types
<1>3. ASSUME NEW t \in Threads, Publish(t) PROVE ErrorsCounted'
  BY <1>3, CountsForgotten DEF Publish
<1>4. ASSUME NEW t \in Threads, Activity(t) PROVE ErrorsCounted'
  BY <1>4, CountsKept DEF Activity
<1>5. ASSUME NEW t \in Threads, ErrorChecked(t) \/ ErrorCharged(t) PROVE ErrorsCounted'
  BY <1>5, CountsCheck, CountsCharge
<1>6. ASSUME NEW t \in Threads, ErrorNotifies(t) PROVE ErrorsCounted'
  <2>1. /\ UNCHANGED <<hub, errors, own>>
        /\ \A u \in Threads : thread'[u].at = "charge" <=> thread[u].at = "charge"
        /\ \A u \in Threads : thread'[u].session = thread[u].session
    BY <1>6 DEF ErrorNotifies, Types
  <2>2. Charging' = Charging
    BY <2>1 DEF Charging
  <2>3. Strays' = Strays
    BY <2>1, <2>2 DEF Strays, Charging
  <2> QED BY <2>1, <2>2, <2>3 DEF ErrorsCounted
<1>7. CASE MonitorStep
  <2>1. CASE Recovered
    BY <2>1, CountsForgotten DEF Recovered, Started
  <2>2. CASE AttemptFails
    BY <1>0, <2>2, CountsKept DEF AttemptFails, Types
  <2>3. CASE ~Recovered /\ ~AttemptFails
    <3>1. UNCHANGED <<hub, errors, own, thread>>
      BY <1>7, <2>3 DEF MonitorStep, Subscribe, CheckTriggered, CheckQuiet, Woken, Leave, Lock, Retry
    <3> QED BY <3>1, CountsKept
  <2> QED BY <2>1, <2>2, <2>3
<1>8. CASE Tick
  BY <1>8, CountsKept DEF Tick
<1>9. CASE UNCHANGED vars
  BY <1>9, CountsKept DEF vars
<1> QED BY <1>1, <1>2, <1>3, <1>4, <1>5, <1>6, <1>7, <1>8, <1>9 DEF Next

\* No error and no thread under way.
LEMMA CountsInit ==
  ASSUME IsFiniteSet(Threads), Threshold \in Nat \ {0}, Init
  PROVE  ErrorsCounted
<1>1. Charging = {} /\ Strays = {}
  BY DEF Init, Charging, Strays
<1>2. Cardinality(Charging) = 0 /\ Cardinality(Strays) = 0
  BY <1>1, FS_EmptySet
<1>3. Cardinality(Threads) \in Nat
  BY FS_CardinalityType
<1> QED BY <1>2, <1>3 DEF Init, ErrorsCounted

\* What the counts say of the bound on the errors and on the stray ones.
LEMMA CountsBound ==
  ASSUME IsFiniteSet(Threads), Threshold \in Nat \ {0}, MonitorInv, ErrorsCounted, stopping \in BOOLEAN
  PROVE  TypeOK /\ StrayChargesBounded
<1>1. Charging \in SUBSET Threads /\ Strays \in SUBSET Threads
  BY DEF Charging, Strays
<1>2. /\ Cardinality(Charging) \in Nat /\ Cardinality(Strays) \in Nat
      /\ Cardinality(Threads) \in Nat
  BY <1>1, ThreadSets
<1>3. errors \in 0..MaxErrors /\ own \in 0..errors /\ StrayChargesBounded
  BY <1>2 DEF MonitorInv, Types, ErrorsCounted, MaxErrors, StrayChargesBounded
<1> QED BY <1>3 DEF MonitorInv, Types, TypeOK

\* The flag of the session is a flag.
LEMMA StoppingType == ASSUME stopping \in BOOLEAN, [Next]_vars PROVE stopping' \in BOOLEAN
BY DEF Next, vars, Open, SourceStops, RequestStop, Publish, Activity, ErrorChecked, ErrorCharged,
       ErrorNotifies, MonitorStep, Subscribe, CheckTriggered, CheckQuiet, Woken, Leave, Lock,
       Recovered, AttemptFails, Retry, Tick

\* What a sleep that loses no wake means for the reasons to recover.
LEMMA NoWakeInv == ASSUME Stall \in Nat, Threshold \in Nat \ {0} PROVE MonitorInv => NoLostWake
<1> SUFFICES ASSUME MonitorInv, Asleep, \A t \in Threads : thread[t].at # "notify"
             PROVE  Trigger = "none" /\ monitor.timer <= Remaining
  BY DEF NoLostWake
<1>1. hub.active /\ errors < Threshold /\ monitor.timer + age <= Stall
  BY DEF MonitorInv, Types, SleepsSafely, Notifying, Asleep
<1>2. errors \in Nat /\ age \in Nat /\ monitor.timer \in Nat /\ monitor.timer # 0
  BY DEF MonitorInv, Types, Asleep
<1> QED BY <1>1, <1>2 DEF Trigger, Remaining

-----------------------------------------------------------------------------
(* The invariant as one.                                                    *)

\* What the arguments ask of the constants: the counts are of finitely many threads.
Parameters == Stall \in Nat /\ Threshold \in Nat \ {0} /\ IsFiniteSet(Threads)

RecoveryInv == MonitorInv /\ ErrorsCounted /\ stopping \in BOOLEAN

\* No session is open.
LEMMA RecoveryInvInit == Parameters /\ Init => RecoveryInv
BY MonitorInvInit, CountsInit DEF Parameters, RecoveryInv, Init

\* Every step keeps what the monitor relies on and the counts of the errors.
LEMMA RecoveryInvStep == Parameters /\ RecoveryInv /\ [Next]_vars => RecoveryInv'
BY TypesStep, SleepStep, CountsStep, StoppingType DEF Parameters, RecoveryInv, MonitorInv

\* What the invariant says of the properties.
LEMMA RecoveryPromises == Parameters /\ RecoveryInv => TypeOK /\ NoLostWake /\ StrayChargesBounded
BY CountsBound, NoWakeInv DEF Parameters, RecoveryInv

-----------------------------------------------------------------------------
(* Theorems.                                                                *)

\* The invariant holds in every reachable state.
THEOREM MonitorInvariant ==
  ASSUME Stall \in Nat, Threshold \in Nat \ {0}
  PROVE  Spec => []MonitorInv
<1>1. Init => MonitorInv
  BY MonitorInvInit
<1>2. MonitorInv /\ [Next]_vars => MonitorInv'
  BY TypesStep, SleepStep DEF MonitorInv
<1>3. QED
  BY <1>1, <1>2, PTL DEF Spec

\* wait_for_recovery_trigger is woken by the one error that reaches the
\* threshold and by stops only, and computes its timer before it sleeps: still
\* it never sleeps past a reason to recover (frame.rs:504).
THEOREM NoWakeMissed ==
  ASSUME Stall \in Nat, Threshold \in Nat \ {0}
  PROVE  Spec => []NoLostWake
<1>1. MonitorInv => NoLostWake
  BY NoWakeInv
<1>2. QED
  BY <1>1, MonitorInvariant, PTL

\* consecutive_conversion_errors is charged outside of the lock under which the
\* session was compared: still a stream that ended charges the next one by at
\* most one error for each of its threads, and the count stays within bounds
\* (frame.rs:528).
THEOREM StraysAreFew == ASSUME Parameters PROVE Spec => [](TypeOK /\ StrayChargesBounded)
<1>1. Init => RecoveryInv
  BY RecoveryInvInit
<1>2. RecoveryInv /\ [Next]_vars => RecoveryInv'
  BY RecoveryInvStep
<1>3. RecoveryInv => TypeOK /\ StrayChargesBounded
  BY RecoveryPromises
<1> QED BY <1>1, <1>2, <1>3, PTL DEF Spec
============================================================================
