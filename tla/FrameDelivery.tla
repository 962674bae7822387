--------------------------- MODULE FrameDelivery ----------------------------
(***************************************************************************)
(* Delivery in the frame hub (src/src/frame.rs): the watched snapshot with *)
(* the capture epoch, one bounded queue per subscriber, and the readers    *)
(* asleep in FrameReceiver::next.                                          *)
(*                                                                         *)
(* Publishers are backend callbacks and custom FrameSinks, Controllers the *)
(* tasks that start and stop the hub and set its recovery flags (startup,  *)
(* recovery and closing), Receivers the applications' FrameReceivers.      *)
(* Frames are their keys: FramePool has the storage, and decides whether a *)
(* publisher gets any.                                                     *)
(*                                                                         *)
(* An action is what the code does under one acquisition of the watch      *)
(* lock.  start() and stop() take it after they emptied the queues, so     *)
(* each is two actions and publications may come between.                  *)
(***************************************************************************)
EXTENDS Integers, Sequences

CONSTANTS
  Publishers,   \* threads that hand frames to the hub
  Controllers,  \* threads that start and stop it
  Receivers,    \* FrameReceivers
  Options,      \* the SubscriptionOptions applications ask for
  MaxSession,   \* bound: capture epochs started
  MaxSequence   \* bound: frames published in one epoch

\* A DeliveryPolicy, Latest being of capacity 1, and whether max_rate is set.
SubscriptionOptions ==
  [capacity : Nat \ {0}, overflow : {"latest", "oldest", "newest"}, limited : BOOLEAN]

ASSUME OptionsAssumption == Options \subseteq SubscriptionOptions
ASSUME BoundsAssumption == MaxSession \in Nat /\ MaxSequence \in Nat

VARIABLES
  session,      \* Snapshot.session, 0 before the first start
  active,       \* Snapshot.active
  recovering,   \* Snapshot.recovering
  reconnect,    \* Snapshot.reconnect_enabled
  latest,       \* sequence of Snapshot.latest, 0 for None
  nextSession,  \* NEXT_SESSION
  options,      \* Subscriber.delivery and max_rate
  queues,       \* Subscriber.queue
  dropped,      \* Subscriber.dropped
  paced,        \* Subscriber.last_enqueued is set
  rpc,          \* where each receiver is in next()
  seen,         \* the receiver has observed the watch's current version
  last,         \* FrameReceiver.last
  owner,        \* the stop flag behind Subscriber.owner
  pub,          \* program counter and epoch of each publisher
  ctl,          \* program counter of each controller
  head,         \* history: frames published in the current epoch
  popped,       \* history: frames of the epoch before the subscription, and
                \* frames next() took from the queue
  since         \* history: the epoch the receiver subscribed in

snapshot == <<session, active, recovering, reconnect, latest, head>>
readers  == <<options, queues, dropped, paced, rpc, seen, last, owner, popped, since>>
vars     == <<snapshot, nextSession, readers, pub, ctl>>

-----------------------------------------------------------------------------
Key   == Nat \X Nat       \* FrameKey: session and sequence
NoKey == <<0, 0>>         \* Option<FrameKey>::None; both count from 1

\* SubscriptionOptions::latest(), and what a receiver that is none has.
LatestOnly == [capacity |-> 1, overflow |-> "latest", limited |-> FALSE]

KeyLess(a, b) == a[1] < b[1] \/ (a[1] = b[1] /\ a[2] < b[2])

IdlePub == [pc |-> "idle", session |-> 0]
IdleCtl == [pc |-> "idle", session |-> 0, recovering |-> FALSE, reconnect |-> FALSE]

PoolFree == \A c \in Controllers : ctl[c].pc # "replace"

\* The check every publication makes of its epoch.
Accepts(s) == active /\ session = s

\* The keys an application may hold of frames of the current epoch, or none.
Keys == {NoKey} \cup {<<session, n>> : n \in 1..head}

\* What next() takes for the end of the stream.
Stopped == ~active /\ ~recovering /\ ~reconnect

Init ==
  /\ session = 0 /\ active = FALSE /\ recovering = FALSE /\ reconnect = FALSE
  /\ latest = 0 /\ head = 0 /\ nextSession = 1
  /\ options = [r \in Receivers |-> LatestOnly]
  /\ queues  = [r \in Receivers |-> <<>>]
  /\ dropped = [r \in Receivers |-> 0]
  /\ paced   = [r \in Receivers |-> FALSE]
  /\ rpc     = [r \in Receivers |-> "none"]
  /\ seen    = [r \in Receivers |-> TRUE]
  /\ last    = [r \in Receivers |-> NoKey]
  /\ owner   = [r \in Receivers |-> "none"]
  /\ popped  = [r \in Receivers |-> 0]
  /\ since   = [r \in Receivers |-> 0]
  /\ pub     = [p \in Publishers |-> IdlePub]
  /\ ctl     = [c \in Controllers |-> IdleCtl]

\* Broken: nobody is woken.
NotifyNobody == UNCHANGED seen

\* Every send on the watch channel wakes every receiver.
NotifyAll == seen' = [r \in Receivers |-> FALSE]

ClearQueues == queues' = [r \in Receivers |-> <<>>]

-----------------------------------------------------------------------------
(* Control: start, stop and the recovery flags. *)

\* start(), up to send_replace: a new epoch number is taken, the queues are
\* emptied and the recovery flags are read, under the pool mutex.
StartBegin(c) ==
  /\ ctl[c].pc = "idle" /\ PoolFree
  /\ nextSession <= MaxSession
  /\ nextSession' = nextSession + 1
  /\ ClearQueues
  /\ ctl' = [ctl EXCEPT ![c] = [pc |-> "replace", session |-> nextSession,
                                recovering |-> recovering, reconnect |-> reconnect]]
  /\ UNCHANGED <<snapshot, options, dropped, paced, rpc, seen, last, owner, popped, since, pub>>

\* start(), the send_replace, with the flags read before.
StartReplace(c) ==
  /\ ctl[c].pc = "replace"
  /\ session' = ctl[c].session /\ active' = TRUE
  /\ recovering' = ctl[c].recovering /\ reconnect' = ctl[c].reconnect
  /\ latest' = 0 /\ head' = 0
  /\ NotifyAll
  /\ ctl' = [ctl EXCEPT ![c] = IdleCtl]
  /\ UNCHANGED <<nextSession, options, queues, dropped, paced, rpc, last, owner, popped, since, pub>>

\* stop() takes the pool mutex for a moment and empties the queues...
StopClear(c) ==
  /\ ctl[c].pc = "idle" /\ PoolFree
  /\ ClearQueues
  /\ ctl' = [ctl EXCEPT ![c].pc = "stop"]
  /\ UNCHANGED <<snapshot, nextSession, options, dropped, paced, rpc, seen, last, owner,
                 popped, since, pub>>

\* ...and then ends the epoch, whichever is current by then.
\* Broken: the receivers are not told.
EndEpochSilently ==
  /\ active' = FALSE /\ latest' = 0
  /\ UNCHANGED <<seen, session, recovering, reconnect, head>>

EndEpoch ==
  /\ active' = FALSE /\ latest' = 0
  /\ NotifyAll
  /\ UNCHANGED <<session, recovering, reconnect, head>>

StopModify(c) ==
  /\ ctl[c].pc = "stop"
  /\ EndEpoch
  /\ ctl' = [ctl EXCEPT ![c] = IdleCtl]
  /\ UNCHANGED <<nextSession, options, queues, dropped, paced, rpc, last, owner, popped, since, pub>>

\* begin_recovery, end_recovery, enable_recovery and disable_recovery.
SetRecovery(c, rec, enabled) ==
  /\ ctl[c].pc = "idle"
  /\ <<rec, enabled>> \in {<<TRUE, reconnect>>, <<FALSE, reconnect>>,
                           <<recovering, TRUE>>, <<FALSE, FALSE>>}
  /\ recovering' = rec /\ reconnect' = enabled
  /\ NotifyAll
  /\ UNCHANGED <<session, active, latest, head, nextSession, options, queues, dropped,
                 paced, rpc, last, owner, popped, since, pub, ctl>>

-----------------------------------------------------------------------------
(* Publication. *)

\* publish and writable_native get storage for the current epoch.
Reserve(p) ==
  /\ pub[p].pc = "idle" /\ active /\ PoolFree
  /\ pub' = [pub EXCEPT ![p] = [pc |-> "convert", session |-> session]]
  /\ UNCHANGED <<snapshot, nextSession, readers, ctl>>

\* The conversion fails, a writable lease is dropped, or finish_publish
\* finds that the epoch has ended meanwhile.
Discard(p) ==
  /\ pub[p].pc = "convert"
  /\ pub' = [pub EXCEPT ![p] = IdlePub]
  /\ UNCHANGED <<snapshot, nextSession, readers, ctl>>

\* Broken: lets one frame too many in.
EnqueuePastCapacity(d, q, k) ==
  IF d.overflow = "latest" THEN <<k>>
  ELSE IF Len(q) <= d.capacity THEN Append(q, k)
  ELSE IF d.overflow = "oldest" THEN Append(Tail(q), k)
  ELSE q

\* Broken: the frame is put in front of the older ones.
EnqueueInFront(d, q, k) ==
  IF d.overflow = "latest" THEN <<k>>
  ELSE IF Len(q) < d.capacity THEN <<k>> \o q
  ELSE IF d.overflow = "oldest" THEN <<k>> \o Tail(q)
  ELSE q

\* One subscriber's queue after frame key k is offered under policy d.
Enqueue(d, q, k) ==
  IF d.overflow = "latest" THEN <<k>>
  ELSE IF Len(q) < d.capacity THEN Append(q, k)
  ELSE IF d.overflow = "oldest" THEN Append(Tail(q), k)
  ELSE q

\* Broken: the excess over the capacity, below zero while there is room.
LostAsExcess(d, q) == Len(q) - d.capacity

\* Broken: only the frames refused are counted, not the ones replaced.
LostNewest(d, q) ==
  IF d.overflow = "newest" /\ Len(q) >= d.capacity THEN 1 ELSE 0

\* How many frames that offer loses for the subscriber.
Lost(d, q) ==
  IF d.overflow = "latest" THEN Len(q) ELSE IF Len(q) < d.capacity THEN 0 ELSE 1

\* Subscribers a publication reaches: alive, and their session not stopping.
Listening(r) == rpc[r] # "none" /\ owner[r] # "stopped"

\* finish_publish under the watch lock, the epoch being still the one the
\* storage was reserved for.  early are the rate limited subscribers whose
\* interval since the last frame they were given has not passed.
Publish(p, early) ==
  /\ pub[p].pc = "convert" /\ Accepts(pub[p].session)
  /\ head < MaxSequence
  /\ latest' = latest + 1 /\ head' = head + 1
  /\ queues' = [r \in Receivers |->
       IF ~Listening(r) THEN <<>>
       ELSE IF r \in early THEN queues[r]
       ELSE Enqueue(options[r], queues[r], <<pub[p].session, latest + 1>>)]
  /\ dropped' = [r \in Receivers |->
       IF ~Listening(r) THEN dropped[r]
       ELSE IF r \in early THEN dropped[r] + 1
       ELSE dropped[r] + Lost(options[r], queues[r])]
  /\ paced' = [r \in Receivers |-> paced[r] \/ (Listening(r) /\ options[r].limited)]
  /\ NotifyAll
  /\ pub' = [pub EXCEPT ![p] = IdlePub]
  /\ UNCHANGED <<session, active, recovering, reconnect, nextSession,
                 options, rpc, last, owner, popped, since, ctl>>

\* FrameSink::disconnect by a sink created for epoch s is hub.stop().
SinkDisconnect(p, s) ==
  /\ pub[p].pc = "idle" /\ PoolFree
  /\ ClearQueues
  /\ pub' = [pub EXCEPT ![p] = [pc |-> "disconnect", session |-> s]]
  /\ UNCHANGED <<snapshot, nextSession, options, dropped, paced, rpc, seen, last, owner,
                 popped, since, ctl>>

SinkDisconnectModify(p) ==
  /\ pub[p].pc = "disconnect"
  /\ EndEpoch
  /\ pub' = [pub EXCEPT ![p] = IdlePub]
  /\ UNCHANGED <<nextSession, options, queues, dropped, paced, rpc, last, owner, popped, since, ctl>>

-----------------------------------------------------------------------------
(* Reception. *)

\* subscribe_with, under the watch lock.  The receiver is "built": the caller
\* may still give it a stop flag or a cursor before it polls.
Subscribe(r, opt) ==
  /\ rpc[r] = "none"
  /\ options' = [options EXCEPT ![r] = opt]
  /\ rpc'    = [rpc EXCEPT ![r] = "built"]
  /\ seen'   = [seen EXCEPT ![r] = TRUE]
  /\ owner'  = [owner EXCEPT ![r] = "none"]
  /\ last'   = [last EXCEPT ![r] = NoKey]
  /\ queues' = [queues EXCEPT ![r] = IF latest = 0 THEN <<>> ELSE <<<<session, latest>>>>]
  /\ paced'  = [paced EXCEPT ![r] = latest # 0]
  /\ dropped' = [dropped EXCEPT ![r] = 0]
  /\ popped' = [popped EXCEPT ![r] = IF latest = 0 THEN head ELSE latest - 1]
  /\ since'  = [since EXCEPT ![r] = session]
  /\ UNCHANGED <<snapshot, nextSession, pub, ctl>>

\* with_stop_flag, for a receiver of a session: the session may be stopping
\* already.
WithStopFlag(r, flag) ==
  /\ rpc[r] = "built" /\ owner[r] = "none"
  /\ rpc'    = [rpc EXCEPT ![r] = "idle"]
  /\ owner'  = [owner EXCEPT ![r] = flag]
  /\ queues' = [queues EXCEPT ![r] = IF flag = "stopped" THEN <<>> ELSE @]
  /\ UNCHANGED <<snapshot, nextSession, options, dropped, paced, seen, last, popped, since, pub, ctl>>

\* wait_after, whose receiver is SubscriptionOptions::latest(), puts the key it
\* is given in place, or that of the latest frame as it looks again.  NoKey is
\* also a key of an epoch that has ended, which compares with no frame.
PlaceCursor(r, after) ==
  /\ rpc[r] = "built" /\ options[r] = LatestOnly
  /\ rpc'  = [rpc EXCEPT ![r] = "idle"]
  /\ last' = [last EXCEPT ![r] = after]
  /\ UNCHANGED <<snapshot, nextSession, options, queues, dropped, paced, seen, owner,
                 popped, since, pub, ctl>>

\* Dropping a FrameReceiver drops its queue.
Unsubscribe(r) ==
  /\ rpc[r] # "none"
  /\ options' = [options EXCEPT ![r] = LatestOnly]
  /\ rpc'     = [rpc EXCEPT ![r] = "none"]
  /\ seen'    = [seen EXCEPT ![r] = TRUE]
  /\ owner'   = [owner EXCEPT ![r] = "none"]
  /\ last'    = [last EXCEPT ![r] = NoKey]
  /\ queues'  = [queues EXCEPT ![r] = <<>>]
  /\ paced'   = [paced EXCEPT ![r] = FALSE]
  /\ dropped' = [dropped EXCEPT ![r] = 0]
  /\ popped'  = [popped EXCEPT ![r] = 0]
  /\ since'   = [since EXCEPT ![r] = 0]
  /\ UNCHANGED <<snapshot, nextSession, pub, ctl>>

\* Broken: frames of an epoch that has ended are delivered too.
DeliverableOfAnyEpoch(r) == {i \in DOMAIN queues[r] : queues[r][i] # last[r]}

\* Broken: the frame given last may be given again.
DeliverableAgain(r) == {i \in DOMAIN queues[r] : queues[r][i][1] = session}

\* The positions of the queue next() may deliver: not the frame it gave
\* last, and of the current epoch.
Deliverable(r) ==
  {i \in DOMAIN queues[r] : queues[r][i] # last[r] /\ queues[r][i][1] = session}

\* next() runs its loop body on the call and after every wake-up.
Polls(r) == rpc[r] \in {"built", "idle", "stopped"} \/ (rpc[r] = "waiting" /\ ~seen[r])

\* The stream is over for this receiver: StreamStopped.
Ended(r) == owner[r] = "stopped" \/ Stopped

NextStopped(r) ==
  /\ Polls(r) /\ Ended(r)
  /\ rpc'  = [rpc EXCEPT ![r] = "stopped"]
  /\ seen' = [seen EXCEPT ![r] = TRUE]
  /\ UNCHANGED <<snapshot, nextSession, options, queues, dropped, paced, last, owner,
                 popped, since, pub, ctl>>

NextDeliver(r) ==
  /\ Polls(r) /\ ~Ended(r)
  /\ \E i \in Deliverable(r) :
       /\ \A j \in Deliverable(r) : i <= j
       /\ queues' = [queues EXCEPT ![r] = SubSeq(@, i + 1, Len(@))]
       /\ last'   = [last EXCEPT ![r] = queues[r][i]]
       /\ popped' = [popped EXCEPT ![r] = @ + i]
  /\ rpc'  = [rpc EXCEPT ![r] = "idle"]
  /\ seen' = [seen EXCEPT ![r] = TRUE]
  /\ UNCHANGED <<snapshot, nextSession, options, dropped, paced, owner, since, pub, ctl>>

NextWait(r) ==
  /\ Polls(r) /\ ~Ended(r)
  /\ Deliverable(r) = {}
  /\ queues' = [queues EXCEPT ![r] = <<>>]
  /\ popped' = [popped EXCEPT ![r] = @ + Len(queues[r])]
  /\ rpc'    = [rpc EXCEPT ![r] = "waiting"]
  /\ seen'   = [seen EXCEPT ![r] = TRUE]
  /\ UNCHANGED <<snapshot, nextSession, options, dropped, paced, last, owner, since, pub, ctl>>

\* A timeout or a select! drops the future of next().
CancelNext(r) ==
  /\ rpc[r] = "waiting"
  /\ rpc' = [rpc EXCEPT ![r] = "idle"]
  /\ UNCHANGED <<snapshot, nextSession, options, queues, dropped, paced, seen, last, owner,
                 popped, since, pub, ctl>>

\* A session raises the stop flag its receivers share.
RaiseStopFlag(R) ==
  /\ R # {} /\ \A r \in R : owner[r] = "running"
  /\ owner' = [r \in Receivers |-> IF r \in R THEN "stopped" ELSE owner[r]]
  /\ UNCHANGED <<snapshot, nextSession, options, queues, dropped, paced, rpc, seen, last,
                 popped, since, pub, ctl>>

-----------------------------------------------------------------------------
ControlStep(c) ==
  \/ StartBegin(c) \/ StartReplace(c) \/ StopClear(c) \/ StopModify(c)
  \/ \E rec, enabled \in BOOLEAN : SetRecovery(c, rec, enabled)

PublisherStep(p) ==
  \/ Reserve(p) \/ Discard(p)
  \/ \E early \in SUBSET {r \in Receivers : options[r].limited /\ paced[r]} : Publish(p, early)
  \/ \E s \in 1..session : SinkDisconnect(p, s)
  \/ SinkDisconnectModify(p)

NextPoll(r) == NextStopped(r) \/ NextDeliver(r) \/ NextWait(r)

ReceiverStep(r) ==
  \/ \E opt \in Options : Subscribe(r, opt)
  \/ \E flag \in {"running", "stopped"} : WithStopFlag(r, flag)
  \/ \E after \in Keys : PlaceCursor(r, after)
  \/ Unsubscribe(r) \/ NextPoll(r) \/ CancelNext(r)

Next ==
  \/ \E c \in Controllers : ControlStep(c)
  \/ \E p \in Publishers : PublisherStep(p)
  \/ \E r \in Receivers : ReceiverStep(r)
  \/ \E R \in SUBSET Receivers : RaiseStopFlag(R)

Spec == Init /\ [][Next]_vars

\* Threads finish what they began and a woken task is polled again.  Nothing
\* obliges a source to deliver, a controller to call or an application to read.
Fairness ==
  /\ \A c \in Controllers : WF_vars(StartReplace(c) \/ StopModify(c))
  /\ \A p \in Publishers : WF_vars(SinkDisconnectModify(p))
  /\ \A r \in Receivers : WF_vars(rpc[r] = "waiting" /\ NextPoll(r))

FairSpec == Spec /\ Fairness

-----------------------------------------------------------------------------
\* Every variable ranges over what its declaration in frame.rs allows.
TypeOK ==
  /\ session \in Nat /\ active \in BOOLEAN
  /\ recovering \in BOOLEAN /\ reconnect \in BOOLEAN
  /\ latest \in Nat /\ head \in Nat /\ nextSession \in Nat
  /\ options \in [Receivers -> SubscriptionOptions]
  /\ queues \in [Receivers -> Seq(Key)]
  /\ dropped \in [Receivers -> Nat] /\ popped \in [Receivers -> Nat]
  /\ paced \in [Receivers -> BOOLEAN] /\ seen \in [Receivers -> BOOLEAN]
  /\ rpc \in [Receivers -> {"none", "built", "idle", "waiting", "stopped"}]
  /\ last \in [Receivers -> Key] /\ since \in [Receivers -> Nat]
  /\ owner \in [Receivers -> {"none", "running", "stopped"}]
  /\ pub \in [Publishers -> [pc : {"idle", "convert", "disconnect"}, session : Nat]]
  /\ ctl \in [Controllers -> [pc : {"idle", "replace", "stop"}, session : Nat,
                              recovering : BOOLEAN, reconnect : BOOLEAN]]

\* No wake-up is lost: a reader that sleeps having seen the current version
\* of the snapshot has nothing to report, neither the end of the stream nor
\* a frame next() would deliver.
NoLostWakeup ==
  \A r \in Receivers : rpc[r] = "waiting" /\ seen[r] =>
    ~Stopped /\ Deliverable(r) = {}

\* No stop or start is between emptying the queues and changing the epoch.
Quiescent ==
  /\ \A c \in Controllers : ctl[c].pc \notin {"replace", "stop"}
  /\ \A p \in Publishers : pub[p].pc # "disconnect"

\* Nothing is lost silently: within the epoch a receiver subscribed in,
\* every frame published since was taken, is queued, or was counted in the
\* receiver's dropped_frames, under every policy and rate limit.
DropsAccounted ==
  \A r \in Receivers :
    active /\ Quiescent /\ Listening(r) /\ since[r] = session =>
      head = popped[r] + dropped[r] + Len(queues[r])

\* Queues stay bounded whatever the readers do: a subscriber never pins more
\* frames than the capacity it was admitted with.
QueuesBounded ==
  \A r \in Receivers : Len(queues[r]) <= options[r].capacity

\* next() never returns a frame again, nor the one wait_after put in place,
\* though both may be in the queue: what it takes from the queue and returns
\* is newer than the key it stands at.
DeliversNewer ==
  [][\A r \in Receivers :
       popped'[r] # popped[r] /\ rpc[r] # "none" /\ rpc'[r] = "idle" =>
         KeyLess(last[r], last'[r])]_vars

\* The hub keeps what it promises to readers (FrameStream): each is given
\* strictly newer frames of the current epoch only, none invented.
Stream == INSTANCE FrameStream WITH
  epoch <- session, open <- active, cursor <- last

ImplementsFrameStream == Stream!Spec

\* ARCHITECTURE.md: epoch checks reject callbacks from an old capture.  A
\* sink that belongs to an older epoch does not end the current one.
StaleSinkHarmless ==
  [][\A p \in Publishers :
       pub[p].pc = "disconnect" /\ pub'[p].pc = "idle" /\ active =>
         pub[p].session = session]_vars

\* A reader asleep in next() while the hub is stopped wakes up, unless the
\* hub is started or a recovery is announced before.
StopWakesReaders ==
  \A r \in Receivers :
    (rpc[r] = "waiting" /\ Stopped) ~> (rpc[r] # "waiting" \/ ~Stopped)

\* A reader asleep in next() with a frame to deliver wakes up, unless a
\* stop or a restart takes the frame away.
FramesWakeReaders ==
  \A r \in Receivers :
    (rpc[r] = "waiting" /\ Deliverable(r) # {}) ~>
      (rpc[r] # "waiting" \/ Deliverable(r) = {})

=============================================================================
