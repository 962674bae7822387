------------------------ MODULE FrameDelivery_proofs ------------------------
(***************************************************************************)
(* What holds of FrameDelivery for every number of publishers, controllers *)
(* and receivers, every delivery policy and every bound.                   *)
(***************************************************************************)
EXTENDS FrameDelivery, SequenceTheorems, TLAPS

-----------------------------------------------------------------------------
(* The inductive invariant. *)

\* Epoch numbers only grow: the one a start() under way has taken is newer
\* than the current one, and the pool mutex lets one start() in at a time.
EpochsGrow ==
  /\ session < nextSession
  /\ \A c \in Controllers : ctl[c].pc = "replace" =>
       session < ctl[c].session /\ ctl[c].session < nextSession
  /\ \A c, d \in Controllers :
       ctl[c].pc = "replace" /\ ctl[d].pc = "replace" => c = d

\* The latest frame is the newest one of the epoch, or none once it ended.
LatestIsHead == latest = IF active THEN head ELSE 0

\* The key the next frame of the epoch will have is newer than k.
Past(k) == KeyLess(k, <<session, head + 1>>)

AtMost(a, b) == a = b \/ KeyLess(a, b)

\* A queue holds published frames only, oldest first, none older than the
\* receiver's cursor.
Ordered(r) ==
  /\ Past(last[r])
  /\ \A i \in DOMAIN queues[r] :
       /\ Past(queues[r][i]) /\ queues[r][i][2] > 0
       /\ AtMost(last[r], queues[r][i])
       /\ \A j \in DOMAIN queues[r] : i < j => KeyLess(queues[r][i], queues[r][j])

QueuesOrdered == \A r \in Receivers : Ordered(r)

\* Once the epoch has a frame, a subscriber of the latest has no other queued:
\* a cursor wait_after puts in place is not newer than what is queued.
OnlyNewest(r) ==
  options[r] = LatestOnly /\ head > 0 =>
    queues[r] = <<>> \/ queues[r] = <<<<session, head>>>>

NewestQueued == \A r \in Receivers : OnlyNewest(r)

DeliveryInv == TypeOK /\ EpochsGrow /\ LatestIsHead /\ QueuesOrdered /\ NewestQueued

-----------------------------------------------------------------------------
(* Queues. *)

\* Offering a frame to a queue of keys leaves a queue of keys.
LEMMA EnqueueType ==
  ASSUME NEW d \in SubscriptionOptions, NEW q \in Seq(Key), NEW k \in Key
  PROVE  Enqueue(d, q, k) \in Seq(Key)
<1>1. Len(q) >= d.capacity => q # <<>>
  BY DEF SubscriptionOptions
<1>2. <<k>> \in Seq(Key) /\ Append(q, k) \in Seq(Key)
  OBVIOUS
<1>3. q # <<>> => Append(Tail(q), k) \in Seq(Key)
  OBVIOUS
<1> QED BY <1>1, <1>2, <1>3 DEF Enqueue, SubscriptionOptions

\* The frames a publication loses are counted by a natural number.
LEMMA LostType ==
  ASSUME NEW d \in SubscriptionOptions, NEW q \in Seq(Key)
  PROVE  Lost(d, q) \in Nat
BY DEF Lost, SubscriptionOptions

-----------------------------------------------------------------------------
(* Types. *)

\* Emptied queues are queues of keys.
LEMMA EmptyType == [r \in Receivers |-> <<>>] \in [Receivers -> Seq(Key)]
<1>1. <<>> \in Seq(Key)
  OBVIOUS
<1> QED BY <1>1

\* The hub starts with well-typed state.
LEMMA InitType == Init => TypeOK
<1> SUFFICES ASSUME Init PROVE TypeOK
  OBVIOUS
<1>1. queues \in [Receivers -> Seq(Key)]
  BY EmptyType DEF Init
<1>2. NoKey \in Key
  BY DEF NoKey, Key
<1>3. last \in [Receivers -> Key] /\ options \in [Receivers -> SubscriptionOptions]
  BY <1>2 DEF Init, LatestOnly, SubscriptionOptions
<1>4. /\ pub \in [Publishers -> [pc : {"idle", "convert", "disconnect"}, session : Nat]]
      /\ ctl \in [Controllers -> [pc : {"idle", "replace", "stop"}, session : Nat,
                                  recovering : BOOLEAN, reconnect : BOOLEAN]]
  BY DEF Init, IdlePub, IdleCtl
<1> QED BY <1>1, <1>3, <1>4 DEF Init, TypeOK

\* Steps of the tasks that control the hub keep the types.
LEMMA ControlType ==
  ASSUME TypeOK, NEW c \in Controllers, ControlStep(c)
  PROVE  TypeOK'
<1> USE DEF TypeOK, snapshot, readers
<1>1. CASE StartBegin(c)
  BY <1>1 DEF StartBegin, ClearQueues
<1>2. CASE StartReplace(c)
  BY <1>2 DEF StartReplace, NotifyAll, IdleCtl
<1>3. CASE StopClear(c)
  <2>1. queues' \in [Receivers -> Seq(Key)]
    BY <1>3, EmptyType DEF StopClear, ClearQueues
  <2> QED BY <1>3, <2>1 DEF StopClear
<1>4. CASE StopModify(c)
  BY <1>4 DEF StopModify, EndEpoch, NotifyAll, IdleCtl
<1>5. ASSUME NEW rec \in BOOLEAN, NEW enabled \in BOOLEAN, SetRecovery(c, rec, enabled)
      PROVE  TypeOK'
  BY <1>5 DEF SetRecovery, NotifyAll
<1> QED BY <1>1, <1>2, <1>3, <1>4, <1>5 DEF ControlStep

\* A publication keeps the types.
LEMMA PublishType ==
  ASSUME TypeOK, NEW p \in Publishers, NEW early \in SUBSET Receivers, Publish(p, early)
  PROVE  TypeOK'
<1> DEFINE k == <<pub[p].session, latest + 1>>
<1>1. k \in Key
  BY DEF Publish, Key, TypeOK
<1>2. \A r \in Receivers : options[r] \in SubscriptionOptions /\ queues[r] \in Seq(Key)
  BY DEF TypeOK
<1>3. \A r \in Receivers : Enqueue(options[r], queues[r], k) \in Seq(Key)
  BY <1>1, <1>2, EnqueueType
<1>4. \A r \in Receivers : Lost(options[r], queues[r]) \in Nat
  BY <1>2, LostType
<1>5. queues' \in [Receivers -> Seq(Key)]
  <2> DEFINE q(r) == IF ~Listening(r) THEN <<>>
                     ELSE IF r \in early THEN queues[r]
                     ELSE Enqueue(options[r], queues[r], k)
  <2>1. <<>> \in Seq(Key)
    OBVIOUS
  <2>2. \A r \in Receivers : q(r) \in Seq(Key)
    BY <1>2, <1>3, <2>1
  <2>3. queues' = [r \in Receivers |-> q(r)]
    BY DEF Publish
  <2> HIDE DEF q
  <2> QED BY <2>2, <2>3
<1>6. dropped' \in [Receivers -> Nat]
  BY <1>4 DEF Publish, TypeOK
<1>7. paced' \in [Receivers -> BOOLEAN]
  BY DEF Publish, TypeOK
<1>8. latest' \in Nat /\ head' \in Nat /\ seen' \in [Receivers -> BOOLEAN]
  BY DEF Publish, TypeOK, NotifyAll
<1>9. pub' \in [Publishers -> [pc : {"idle", "convert", "disconnect"}, session : Nat]]
  BY DEF Publish, TypeOK, IdlePub
<1> QED BY <1>5, <1>6, <1>7, <1>8, <1>9 DEF Publish, TypeOK

\* Steps of publishers keep the types.
LEMMA PublisherType ==
  ASSUME TypeOK, NEW p \in Publishers, PublisherStep(p)
  PROVE  TypeOK'
<1>1. CASE Reserve(p)
  BY <1>1 DEF Reserve, TypeOK, snapshot, readers
<1>2. CASE Discard(p)
  BY <1>2 DEF Discard, TypeOK, snapshot, readers, IdlePub
<1>3. ASSUME NEW early \in SUBSET Receivers, Publish(p, early)
      PROVE  TypeOK'
  BY <1>3, PublishType
<1>4. ASSUME NEW s \in 1..session, SinkDisconnect(p, s)
      PROVE  TypeOK'
  BY <1>4 DEF SinkDisconnect, TypeOK, snapshot, ClearQueues
<1>5. CASE SinkDisconnectModify(p)
  BY <1>5 DEF SinkDisconnectModify, EndEpoch, NotifyAll, TypeOK, IdlePub
<1> QED BY <1>1, <1>2, <1>3, <1>4, <1>5 DEF PublisherStep

\* Steps of receivers keep the types.
LEMMA ReceiverType ==
  ASSUME TypeOK, NEW r \in Receivers, ReceiverStep(r)
  PROVE  TypeOK'
<1>1. ASSUME NEW opt \in Options, Subscribe(r, opt)
      PROVE  TypeOK'
  <2>1. NoKey \in Key /\ <<session, latest>> \in Key
    BY DEF TypeOK, Key, NoKey
  <2>2. queues' \in [Receivers -> Seq(Key)]
    BY <1>1, <2>1 DEF Subscribe, TypeOK
  <2>3. /\ popped' \in [Receivers -> Nat] /\ since' \in [Receivers -> Nat]
        /\ options' \in [Receivers -> SubscriptionOptions]
    <3>1. latest # 0 => latest - 1 \in Nat
      BY DEF TypeOK
    <3>2. popped' \in [Receivers -> Nat]
      BY <1>1 DEF Subscribe, TypeOK
    <3>3. since' \in [Receivers -> Nat]
      BY <1>1, <3>1 DEF Subscribe, TypeOK
    <3>4. options' = [options EXCEPT ![r] = opt] /\ options \in [Receivers -> SubscriptionOptions]
      BY <1>1 DEF Subscribe, TypeOK
    <3>5. opt \in SubscriptionOptions
      BY OptionsAssumption
    <3> QED BY <3>2, <3>3, <3>4, <3>5
  <2>4. paced' \in [Receivers -> BOOLEAN]
    <3>1. (latest # 0) \in BOOLEAN
      OBVIOUS
    <3> QED BY <1>1, <3>1 DEF Subscribe, TypeOK
  <2> QED BY <1>1, <2>1, <2>2, <2>3, <2>4 DEF Subscribe, TypeOK, snapshot
<1>2. CASE Unsubscribe(r)
  <2>1. LatestOnly \in SubscriptionOptions
    BY DEF LatestOnly, SubscriptionOptions
  <2>2. NoKey \in Key
    BY DEF NoKey, Key
  <2>3. options' \in [Receivers -> SubscriptionOptions] /\ last' \in [Receivers -> Key]
    BY <1>2, <2>1, <2>2 DEF Unsubscribe, TypeOK
  <2>4. queues' \in [Receivers -> Seq(Key)]
    BY <1>2 DEF Unsubscribe, TypeOK
  <2> QED BY <1>2, <2>3, <2>4 DEF Unsubscribe, TypeOK, snapshot
<1>3. CASE NextStopped(r)
  BY <1>3 DEF NextStopped, TypeOK, snapshot
<1>4. CASE NextDeliver(r)
  <2> PICK i \in Deliverable(r) :
        /\ queues' = [queues EXCEPT ![r] = SubSeq(@, i + 1, Len(@))]
        /\ last'   = [last EXCEPT ![r] = queues[r][i]]
        /\ popped' = [popped EXCEPT ![r] = @ + i]
    BY <1>4 DEF NextDeliver
  <2>1. queues[r] \in Seq(Key) /\ i \in 1..Len(queues[r]) /\ Len(queues[r]) \in Nat
    BY DEF Deliverable, TypeOK
  <2>2. SubSeq(queues[r], i + 1, Len(queues[r])) \in Seq(Key)
    BY <2>1, SubSeqProperties
  <2>3. queues[r][i] \in Key /\ popped[r] + i \in Nat
    BY <2>1 DEF TypeOK
  <2>4. queues' \in [Receivers -> Seq(Key)]
    BY <2>2 DEF TypeOK
  <2> QED BY <1>4, <2>3, <2>4 DEF NextDeliver, TypeOK, snapshot
<1>5. CASE NextWait(r)
  <2>1. queues[r] \in Seq(Key) /\ Len(queues[r]) \in Nat
    BY DEF TypeOK
  <2> QED BY <1>5, <2>1 DEF NextWait, TypeOK, snapshot
<1>6. CASE CancelNext(r)
  BY <1>6 DEF CancelNext, TypeOK, snapshot
<1>7. ASSUME NEW flag \in {"running", "stopped"}, WithStopFlag(r, flag)
      PROVE  TypeOK'
  <2>1. queues' \in [Receivers -> Seq(Key)]
    BY <1>7 DEF WithStopFlag, TypeOK
  <2> QED BY <1>7, <2>1 DEF WithStopFlag, TypeOK, snapshot
<1>8. ASSUME NEW after \in Keys, PlaceCursor(r, after)
      PROVE  TypeOK'
  <2>1. after \in Key
    BY DEF Keys, Key, NoKey, TypeOK
  <2> QED BY <1>8, <2>1 DEF PlaceCursor, TypeOK, snapshot
<1> QED BY <1>1, <1>2, <1>3, <1>4, <1>5, <1>6, <1>7, <1>8 DEF ReceiverStep, NextPoll

\* Raising the stop flag of some receivers keeps the types.
LEMMA StopFlagType ==
  ASSUME TypeOK, NEW R \in SUBSET Receivers, RaiseStopFlag(R)
  PROVE  TypeOK'
BY DEF RaiseStopFlag, TypeOK, snapshot

\* Every step keeps the types.
LEMMA TypeStep ==
  ASSUME TypeOK, [Next]_vars
  PROVE  TypeOK'
<1>1. CASE Next
  BY <1>1, ControlType, PublisherType, ReceiverType, StopFlagType DEF Next
<1>2. CASE UNCHANGED vars
  BY <1>2 DEF vars, snapshot, readers, TypeOK
<1> QED BY <1>1, <1>2

\* Every variable of the hub ranges over what its declaration allows.
THEOREM TypeCorrect == Spec => []TypeOK
<1>1. TypeOK /\ [Next]_vars => TypeOK'
  BY TypeStep
<1> QED BY <1>1, InitType, PTL DEF Spec

-----------------------------------------------------------------------------
(* Bounded queues. *)

\* The ways a step may change the queue of a receiver.
QueueChange(r) ==
  \/ queues'[r] = <<>>
  \/ queues'[r] = <<<<session, latest>>>>
  \/ /\ options'[r] = options[r]
     /\ \/ queues'[r] = queues[r]
        \/ \E k \in Key : queues'[r] = Enqueue(options[r], queues[r], k)
        \/ \E i \in 1..Len(queues[r]) : queues'[r] = SubSeq(queues[r], i + 1, Len(queues[r]))

\* Every step of the hub changes a queue in one of these ways.
LEMMA QueueSteps ==
  ASSUME TypeOK, [Next]_vars, NEW r \in Receivers
  PROVE  QueueChange(r)
<1>0. /\ queues \in [Receivers -> Seq(Key)]
      /\ options \in [Receivers -> SubscriptionOptions]
  BY DEF TypeOK
<1>1. ASSUME NEW c \in Controllers, ControlStep(c) PROVE QueueChange(r)
  BY <1>0, <1>1 DEF ControlStep, StartBegin, StartReplace, StopClear, StopModify, SetRecovery,
                    ClearQueues, QueueChange
<1>2. ASSUME NEW p \in Publishers, PublisherStep(p) PROVE QueueChange(r)
  <2>1. ASSUME NEW early \in SUBSET Receivers, Publish(p, early)
        PROVE  QueueChange(r)
    <3>1. <<pub[p].session, latest + 1>> \in Key
      BY DEF TypeOK, Key
    <3> QED BY <2>1, <3>1 DEF Publish, QueueChange
  <2>2. CASE Reserve(p) \/ Discard(p) \/ SinkDisconnectModify(p)
    BY <2>2 DEF Reserve, Discard, SinkDisconnectModify, readers, QueueChange
  <2>3. ASSUME NEW s \in 1..session, SinkDisconnect(p, s) PROVE QueueChange(r)
    BY <2>3 DEF SinkDisconnect, ClearQueues, QueueChange
  <2> QED BY <1>2, <2>1, <2>2, <2>3 DEF PublisherStep
<1>3. ASSUME NEW t \in Receivers, ReceiverStep(t) PROVE QueueChange(r)
  <2>1. ASSUME NEW opt \in Options, Subscribe(t, opt)
        PROVE  QueueChange(r)
    BY <1>0, <2>1 DEF Subscribe, QueueChange
  <2>5. ASSUME NEW flag, WithStopFlag(t, flag) PROVE QueueChange(r)
    BY <1>0, <2>5 DEF WithStopFlag, QueueChange
  <2>6. ASSUME NEW after, PlaceCursor(t, after) PROVE QueueChange(r)
    BY <2>6 DEF PlaceCursor, QueueChange
  <2>2. CASE Unsubscribe(t) \/ NextWait(t)
    BY <1>0, <2>2 DEF Unsubscribe, NextWait, QueueChange
  <2>3. CASE NextDeliver(t)
    <3>1. PICK i \in Deliverable(t) : queues' = [queues EXCEPT ![t] = SubSeq(@, i + 1, Len(@))]
      BY <2>3 DEF NextDeliver
    <3>2. i \in 1..Len(queues[t]) /\ options' = options
      BY <1>0, <2>3 DEF NextDeliver, Deliverable
    <3> QED BY <1>0, <3>1, <3>2 DEF QueueChange
  <2>4. CASE NextStopped(t) \/ CancelNext(t)
    BY <2>4 DEF NextStopped, CancelNext, QueueChange
  <2> QED BY <1>3, <2>1, <2>2, <2>3, <2>4, <2>5, <2>6 DEF ReceiverStep, NextPoll
<1>4. ASSUME NEW R \in SUBSET Receivers, RaiseStopFlag(R) PROVE QueueChange(r)
  BY <1>4 DEF RaiseStopFlag, QueueChange
<1>5. CASE UNCHANGED vars
  BY <1>5 DEF vars, readers, QueueChange
<1> QED BY <1>1, <1>2, <1>3, <1>4, <1>5 DEF Next

\* Offering a frame never grows a queue past the capacity of its receiver.
LEMMA EnqueueBounded ==
  ASSUME NEW d \in SubscriptionOptions, NEW q \in Seq(Key), NEW k \in Key, Len(q) <= d.capacity
  PROVE  Len(Enqueue(d, q, k)) <= d.capacity
<1>0. d.capacity \in Nat \ {0} /\ Len(q) \in Nat
  BY DEF SubscriptionOptions
<1>1. Len(<<k>>) = 1 /\ Len(Append(q, k)) = Len(q) + 1
  OBVIOUS
<1>2. q # <<>> => Len(Append(Tail(q), k)) = Len(q)
  OBVIOUS
<1>3. Len(q) >= d.capacity => q # <<>>
  BY <1>0
<1> QED BY <1>0, <1>1, <1>2, <1>3 DEF Enqueue

\* A subscriber never holds more frames than the capacity it was admitted
\* with, whatever finish_publish offers and however slowly next() is called.
THEOREM QueuesStayBounded == Spec => []QueuesBounded
<1>1. Init => QueuesBounded
  BY DEF Init, QueuesBounded, LatestOnly
<1>2. TypeOK /\ QueuesBounded /\ [Next]_vars => QueuesBounded'
  <2> SUFFICES ASSUME TypeOK, QueuesBounded, [Next]_vars, NEW r \in Receivers
               PROVE  Len(queues'[r]) <= options'[r].capacity
    BY DEF QueuesBounded
  <2>1. /\ options[r] \in SubscriptionOptions /\ queues[r] \in Seq(Key)
        /\ Len(queues[r]) <= options[r].capacity
    BY DEF TypeOK, QueuesBounded
  <2>2. options[r].capacity \in Nat \ {0} /\ Len(queues[r]) \in Nat
    BY <2>1 DEF SubscriptionOptions
  <2>3. QueueChange(r)
    BY QueueSteps
  <2>4. ASSUME NEW i \in 1..Len(queues[r]),
               queues'[r] = SubSeq(queues[r], i + 1, Len(queues[r]))
        PROVE  Len(queues'[r]) <= options[r].capacity
    BY <2>1, <2>2, <2>4, SubSeqProperties
  <2>5. ASSUME NEW k \in Key, queues'[r] = Enqueue(options[r], queues[r], k)
        PROVE  Len(queues'[r]) <= options[r].capacity
    BY <2>1, <2>5, EnqueueBounded
  <2>6. Len(<<>>) = 0 /\ Len(<<<<session, latest>>>>) = 1
    OBVIOUS
  <2>8. options'[r].capacity \in Nat \ {0}
    BY TypeStep DEF TypeOK, SubscriptionOptions
  <2>7. CASE queues'[r] = <<>> \/ queues'[r] = <<<<session, latest>>>>
    BY <2>6, <2>7, <2>8
  <2> QED BY <2>1, <2>3, <2>4, <2>5, <2>7 DEF QueueChange
<1> QED BY <1>1, <1>2, TypeCorrect, PTL DEF Spec

-----------------------------------------------------------------------------
(* Wake-ups. *)

\* What a step that leaves a receiver asleep, having seen the snapshot, did.
LEMMA SleepStep ==
  ASSUME TypeOK, NoLostWakeup, [Next]_vars, NEW r \in Receivers,
         rpc'[r] = "waiting", seen'[r]
  PROVE  ~Stopped' /\ Deliverable(r)' = {}
<1> DEFINE Fine == ~Stopped' /\ Deliverable(r)' = {}
<1>0. /\ seen \in [Receivers -> BOOLEAN]
      /\ rpc \in [Receivers -> {"none", "built", "idle", "waiting", "stopped"}]
      /\ queues \in [Receivers -> Seq(Key)] /\ last \in [Receivers -> Key]
  BY DEF TypeOK
<1>1. ASSUME rpc'[r] = rpc[r], seen'[r] = seen[r], last'[r] = last[r],
             UNCHANGED <<session, active, recovering, reconnect>>,
             queues'[r] = queues[r] \/ queues'[r] = <<>>
      PROVE  Fine
  <2>1. ~Stopped /\ Deliverable(r) = {}
    BY <1>1 DEF NoLostWakeup
  <2>2. ~Stopped'
    BY <1>1, <2>1 DEF Stopped
  <2>3. CASE queues'[r] = queues[r]
    BY <1>1, <2>1, <2>2, <2>3 DEF Deliverable
  <2>4. CASE queues'[r] = <<>>
    <3>1. DOMAIN queues'[r] = {}
      BY <2>4
    <3> QED BY <2>2, <3>1 DEF Deliverable
  <2> QED BY <1>1, <2>3, <2>4
<1>2. ASSUME NEW c \in Controllers, ControlStep(c) PROVE Fine
  <2>1. CASE StartBegin(c) \/ StopClear(c)
    BY <1>1, <2>1 DEF StartBegin, StopClear, ClearQueues, snapshot
  <2>2. CASE StartReplace(c) \/ StopModify(c)
             \/ \E rec, enabled \in BOOLEAN : SetRecovery(c, rec, enabled)
    BY <2>2 DEF StartReplace, StopModify, EndEpoch, SetRecovery, NotifyAll
  <2> QED BY <1>2, <2>1, <2>2 DEF ControlStep
<1>3. ASSUME NEW p \in Publishers, PublisherStep(p) PROVE Fine
  <2>1. CASE Reserve(p) \/ Discard(p)
    BY <1>1, <2>1 DEF Reserve, Discard, snapshot, readers
  <2>2. ASSUME NEW s \in 1..session, SinkDisconnect(p, s) PROVE Fine
    BY <1>1, <2>2 DEF SinkDisconnect, ClearQueues, snapshot
  <2>3. ASSUME NEW early \in SUBSET Receivers, Publish(p, early)
        PROVE  Fine
    BY <2>3 DEF Publish, NotifyAll
  <2>4. CASE SinkDisconnectModify(p)
    BY <2>4 DEF SinkDisconnectModify, EndEpoch, NotifyAll
  <2> QED BY <1>3, <2>1, <2>2, <2>3, <2>4 DEF PublisherStep
<1>4. ASSUME NEW t \in Receivers, ReceiverStep(t) PROVE Fine
  <2>1. UNCHANGED <<session, active, recovering, reconnect>>
    BY <1>4 DEF ReceiverStep, NextPoll, Subscribe, WithStopFlag, PlaceCursor,
                Unsubscribe, NextStopped, NextDeliver,
                NextWait, CancelNext, snapshot
  <2>2. CASE NextWait(r)
    <3>1. rpc'[r] = "waiting" /\ DOMAIN queues'[r] = {}
      BY <1>0, <2>2 DEF NextWait
    <3>2. ~Stopped
      BY <2>2 DEF NextWait, Ended
    <3> QED BY <2>1, <3>1, <3>2 DEF Stopped, Deliverable
  <2>3. CASE t = r /\ ~NextWait(r)
    BY <1>0, <1>4, <2>3 DEF ReceiverStep, NextPoll, Subscribe, WithStopFlag, PlaceCursor,
                Unsubscribe, NextStopped,
                            NextDeliver, CancelNext
  <2>4. CASE t # r
    <3> DEFINE Same == /\ rpc'[r] = rpc[r] /\ seen'[r] = seen[r]
                       /\ queues'[r] = queues[r] /\ last'[r] = last[r]
    <3>1. ASSUME \E opt \in Options : Subscribe(t, opt)
          PROVE  Same
      BY <1>0, <2>4, <3>1 DEF Subscribe
    <3>6. ASSUME \E flag \in {"running", "stopped"} : WithStopFlag(t, flag) PROVE Same
      BY <1>0, <2>4, <3>6 DEF WithStopFlag
    <3>7. ASSUME \E after \in Keys : PlaceCursor(t, after) PROVE Same
      BY <1>0, <2>4, <3>7 DEF PlaceCursor
    <3>2. ASSUME Unsubscribe(t) PROVE Same
      BY <1>0, <2>4, <3>2 DEF Unsubscribe
    <3>3. ASSUME NextDeliver(t) PROVE Same
      BY <1>0, <2>4, <3>3 DEF NextDeliver
    <3>4. ASSUME NextStopped(t) \/ NextWait(t) \/ CancelNext(t) PROVE Same
      BY <1>0, <2>4, <3>4 DEF NextStopped, NextWait, CancelNext
    <3>5. Same
      BY <1>4, <3>1, <3>2, <3>3, <3>4, <3>6, <3>7 DEF ReceiverStep, NextPoll
    <3> QED BY <1>1, <2>1, <3>5
  <2> QED BY <2>2, <2>3, <2>4
<1>5. ASSUME NEW R \in SUBSET Receivers, RaiseStopFlag(R) PROVE Fine
  BY <1>1, <1>5 DEF RaiseStopFlag, snapshot
<1>6. CASE UNCHANGED vars
  BY <1>1, <1>6 DEF vars, snapshot, readers
<1> QED BY <1>2, <1>3, <1>4, <1>5, <1>6 DEF Next

\* No wake-up is lost: next() never sleeps through the end of the stream or
\* past a frame it could return.
THEOREM NoWakeupLost == Spec => []NoLostWakeup
<1>1. Init => NoLostWakeup
  BY DEF Init, NoLostWakeup
<1>2. TypeOK /\ NoLostWakeup /\ [Next]_vars => NoLostWakeup'
  BY SleepStep DEF NoLostWakeup
<1> QED BY <1>1, <1>2, TypeCorrect, PTL DEF Spec

-----------------------------------------------------------------------------
(* Epochs and order. *)

\* Only the tasks that control the hub change epoch numbers, and they keep
\* them growing.
LEMMA EpochsStep ==
  ASSUME TypeOK, EpochsGrow, [Next]_vars
  PROVE  EpochsGrow'
<1>0. /\ session \in Nat /\ nextSession \in Nat
      /\ ctl \in [Controllers -> [pc : {"idle", "replace", "stop"}, session : Nat,
                                  recovering : BOOLEAN, reconnect : BOOLEAN]]
  BY DEF TypeOK
<1>1. ASSUME NEW c \in Controllers, StartBegin(c) PROVE EpochsGrow'
  BY <1>0, <1>1 DEF StartBegin, PoolFree, EpochsGrow, snapshot
<1>2. ASSUME NEW c \in Controllers, StartReplace(c) PROVE EpochsGrow'
  <2>1. /\ session' = ctl[c].session /\ nextSession' = nextSession
        /\ session' < nextSession
    BY <1>2 DEF StartReplace, EpochsGrow
  <2>2. \A d \in Controllers : ctl'[d].pc # "replace"
    BY <1>0, <1>2 DEF StartReplace, EpochsGrow, IdleCtl
  <2> QED BY <2>1, <2>2 DEF EpochsGrow
<1>3. ASSUME NEW c \in Controllers, StopClear(c) \/ StopModify(c) PROVE EpochsGrow'
  <2>1. UNCHANGED <<session, nextSession>>
    BY <1>3 DEF StopClear, StopModify, EndEpoch, snapshot
  <2>2. \A d \in Controllers : ctl'[d].pc = "replace" => ctl'[d] = ctl[d]
    BY <1>0, <1>3 DEF StopClear, StopModify, IdleCtl
  <2> QED BY <2>1, <2>2 DEF EpochsGrow
<1>4. ASSUME UNCHANGED <<session, nextSession, ctl>> PROVE EpochsGrow'
  BY <1>4 DEF EpochsGrow
<1>5. ASSUME NEW c \in Controllers, NEW rec, NEW enabled, SetRecovery(c, rec, enabled)
      PROVE  EpochsGrow'
  BY <1>4, <1>5 DEF SetRecovery
<1>6. ASSUME NEW p \in Publishers, PublisherStep(p) PROVE EpochsGrow'
  BY <1>4, <1>6 DEF PublisherStep, Reserve, Discard, Publish, SinkDisconnect,
                    SinkDisconnectModify, EndEpoch, snapshot
<1>7. ASSUME NEW r \in Receivers, ReceiverStep(r) PROVE EpochsGrow'
  BY <1>4, <1>7 DEF ReceiverStep, NextPoll, Subscribe, WithStopFlag, PlaceCursor,
                Unsubscribe, NextStopped, NextDeliver,
                    NextWait, CancelNext, snapshot
<1>8. ASSUME NEW R \in SUBSET Receivers, RaiseStopFlag(R) PROVE EpochsGrow'
  BY <1>4, <1>8 DEF RaiseStopFlag, snapshot
<1>9. CASE UNCHANGED vars
  BY <1>4, <1>9 DEF vars, snapshot
<1> QED BY <1>1, <1>2, <1>3, <1>5, <1>6, <1>7, <1>8, <1>9 DEF Next, ControlStep

\* The latest frame stays the newest of an active epoch.
LEMMA LatestStep ==
  ASSUME TypeOK, LatestIsHead, [Next]_vars
  PROVE  LatestIsHead'
<1>0. latest \in Nat /\ head \in Nat /\ active \in BOOLEAN
  BY DEF TypeOK
<1>1. ASSUME NEW c \in Controllers, ControlStep(c) PROVE LatestIsHead'
  <2>1. CASE StartBegin(c) \/ StopClear(c)
    BY <2>1 DEF StartBegin, StopClear, LatestIsHead, snapshot
  <2>2. CASE StartReplace(c)
    BY <2>2 DEF StartReplace, LatestIsHead
  <2>3. CASE StopModify(c)
    BY <2>3 DEF StopModify, EndEpoch, LatestIsHead
  <2>4. CASE \E rec, enabled \in BOOLEAN : SetRecovery(c, rec, enabled)
    BY <2>4 DEF SetRecovery, LatestIsHead
  <2> QED BY <1>1, <2>1, <2>2, <2>3, <2>4 DEF ControlStep
<1>2. ASSUME NEW p \in Publishers, PublisherStep(p) PROVE LatestIsHead'
  <2>1. ASSUME NEW early, Publish(p, early) PROVE LatestIsHead'
    BY <1>0, <2>1 DEF Publish, Accepts, LatestIsHead
  <2>2. CASE Reserve(p) \/ Discard(p) \/ \E s \in 1..session : SinkDisconnect(p, s)
    BY <2>2 DEF Reserve, Discard, SinkDisconnect, LatestIsHead, snapshot
  <2>3. CASE SinkDisconnectModify(p)
    BY <2>3 DEF SinkDisconnectModify, EndEpoch, LatestIsHead
  <2> QED BY <1>2, <2>1, <2>2, <2>3 DEF PublisherStep
<1>3. ASSUME NEW r \in Receivers, ReceiverStep(r) PROVE LatestIsHead'
  BY <1>3 DEF ReceiverStep, NextPoll, Subscribe, WithStopFlag, PlaceCursor,
                Unsubscribe, NextStopped, NextDeliver,
              NextWait, CancelNext, LatestIsHead, snapshot
<1>4. ASSUME NEW R \in SUBSET Receivers, RaiseStopFlag(R) PROVE LatestIsHead'
  BY <1>4 DEF RaiseStopFlag, LatestIsHead, snapshot
<1>5. CASE UNCHANGED vars
  BY <1>5 DEF vars, LatestIsHead, snapshot
<1> QED BY <1>1, <1>2, <1>3, <1>4, <1>5 DEF Next

\* Offering key k drops some of the oldest frames and adds k, or is refused.
LEMMA EnqueueShifts ==
  ASSUME NEW d \in SubscriptionOptions, NEW q \in Seq(Key), NEW k \in Key
  PROVE  \/ Enqueue(d, q, k) = q
         \/ \E n \in 0..Len(q) :
              /\ DOMAIN Enqueue(d, q, k) = 1..(Len(q) - n + 1)
              /\ \A i \in 1..(Len(q) - n) : Enqueue(d, q, k)[i] = q[i + n]
              /\ Enqueue(d, q, k)[Len(q) - n + 1] = k
<1> DEFINE Shifted(n) ==
      /\ DOMAIN Enqueue(d, q, k) = 1..(Len(q) - n + 1)
      /\ \A i \in 1..(Len(q) - n) : Enqueue(d, q, k)[i] = q[i + n]
      /\ Enqueue(d, q, k)[Len(q) - n + 1] = k
<1>0. Len(q) \in Nat /\ d.capacity \in Nat \ {0}
  BY DEF SubscriptionOptions
<1>1. CASE d.overflow = "latest"
  <2>1. Enqueue(d, q, k) = <<k>>
    BY <1>1 DEF Enqueue
  <2>2. Shifted(Len(q))
    BY <1>0, <2>1
  <2> QED BY <1>0, <2>2
<1>2. CASE d.overflow # "latest" /\ Len(q) < d.capacity
  <2>1. Enqueue(d, q, k) = Append(q, k)
    BY <1>2 DEF Enqueue
  <2>2. Shifted(0)
    BY <1>0, <2>1
  <2> QED BY <1>0, <2>2
<1>3. CASE d.overflow = "oldest" /\ ~(Len(q) < d.capacity)
  <2>1. Enqueue(d, q, k) = Append(Tail(q), k)
    BY <1>3 DEF Enqueue
  <2>2. q # <<>> /\ Len(q) >= 1
    BY <1>0, <1>3
  <2>3. Len(Tail(q)) = Len(q) - 1 /\ \A i \in 1..(Len(q) - 1) : Tail(q)[i] = q[i + 1]
    BY <2>2
  <2>4. Shifted(1)
    BY <1>0, <2>1, <2>2, <2>3
  <2> QED BY <1>0, <2>2, <2>4
<1>4. CASE d.overflow = "newest" /\ ~(Len(q) < d.capacity)
  BY <1>4 DEF Enqueue
<1> QED BY <1>1, <1>2, <1>3, <1>4 DEF SubscriptionOptions

\* A queue stays ordered while it is kept or emptied and the keys still to
\* come do not move back.
LEMMA OrderedKept ==
  ASSUME TypeOK, NEW r \in Receivers, Ordered(r), last'[r] = last[r],
         queues'[r] = queues[r] \/ queues'[r] = <<>>,
         session' \in Nat, head' \in Nat,
         session < session' \/ (session = session' /\ head <= head')
  PROVE  Ordered(r)'
<1>0. /\ session \in Nat /\ head \in Nat
      /\ last[r] \in Key /\ queues[r] \in Seq(Key)
  BY DEF TypeOK
<1>1. ASSUME NEW k \in Key, Past(k) PROVE Past(k)'
  BY <1>0, <1>1 DEF Past, KeyLess, Key
<1>2. Past(last[r])'
  BY <1>0, <1>1 DEF Ordered
<1>3. CASE queues'[r] = <<>>
  <2>1. DOMAIN queues'[r] = {}
    BY <1>3
  <2> QED BY <1>2, <2>1 DEF Ordered
<1>4. CASE queues'[r] = queues[r]
  <2>1. \A i \in DOMAIN queues[r] : queues[r][i] \in Key
    BY <1>0
  <2>2. \A i \in DOMAIN queues[r] : Past(queues[r][i])'
    BY <1>1, <1>4, <2>1 DEF Ordered
  <2> QED BY <1>2, <1>4, <2>2 DEF Ordered
<1> QED BY <1>3, <1>4

\* A publication puts a key newer than all others at the end of a queue.
LEMMA OrderedPublish ==
  ASSUME TypeOK, LatestIsHead, NEW r \in Receivers, Ordered(r),
         NEW p \in Publishers, NEW early \in SUBSET Receivers,
         Publish(p, early)
  PROVE  Ordered(r)'
<1> DEFINE k == <<session, head + 1>>
           q == queues[r]
           new == Enqueue(options[r], q, k)
<1>0. /\ session \in Nat /\ head \in Nat /\ k \in Key
      /\ last[r] \in Key /\ q \in Seq(Key) /\ options[r] \in SubscriptionOptions
  BY DEF TypeOK, Key
<1>1. /\ session' = session /\ head' = head + 1 /\ last' = last
      /\ <<pub[p].session, latest + 1>> = k
  BY DEF Publish, Accepts, LatestIsHead
<1>2. queues'[r] = <<>> \/ queues'[r] = q \/ queues'[r] = new
  BY <1>1 DEF Publish
<1>3. CASE queues'[r] = <<>> \/ queues'[r] = q
  BY <1>0, <1>1, <1>3, OrderedKept
<1>4. ASSUME queues'[r] = new,
             NEW n \in 0..Len(q),
             DOMAIN new = 1..(Len(q) - n + 1),
             \A i \in 1..(Len(q) - n) : new[i] = q[i + n],
             new[Len(q) - n + 1] = k
      PROVE  Ordered(r)'
  <2> DEFINE m == Len(q) - n + 1
             PastNow(x) == KeyLess(x, <<session', head' + 1>>)
  <2> HIDE DEF new
  <2>0. Len(q) \in Nat /\ m \in Nat /\ DOMAIN q = 1..Len(q)
    BY <1>0
  <2>1. \A x \in Key : Past(x) => KeyLess(x, k) /\ PastNow(x)
    BY <1>0, <1>1 DEF Past, KeyLess, Key
  <2>2. PastNow(k) /\ k[2] > 0
    BY <1>0, <1>1 DEF Past, KeyLess
  <2>3. PastNow(last[r]) /\ KeyLess(last[r], k)
    BY <1>0, <2>1 DEF Ordered
  <2>4. ASSUME NEW i \in 1..m PROVE
          /\ PastNow(new[i]) /\ new[i][2] > 0
          /\ AtMost(last[r], new[i])
          /\ i < m => KeyLess(new[i], k)
    <3>1. CASE i = m
      BY <1>4, <2>2, <2>3, <3>1 DEF AtMost
    <3>2. CASE i # m
      <4>1. i \in 1..(Len(q) - n) /\ i + n \in DOMAIN q
        BY <2>0, <3>2
      <4>2. new[i] = q[i + n] /\ q[i + n] \in Key
        BY <1>0, <1>4, <4>1
      <4>3. Past(q[i + n]) /\ q[i + n][2] > 0 /\ AtMost(last[r], q[i + n])
        BY <4>1 DEF Ordered
      <4> QED BY <1>1, <2>1, <4>2, <4>3
    <3> QED BY <3>1, <3>2
  <2>5. ASSUME NEW i \in 1..m, NEW j \in 1..m, i < j PROVE KeyLess(new[i], new[j])
    <3>1. CASE j = m
      BY <1>4, <2>4, <2>5, <3>1
    <3>2. CASE j # m
      <4>1. /\ i \in 1..(Len(q) - n) /\ j \in 1..(Len(q) - n)
            /\ i + n \in DOMAIN q /\ j + n \in DOMAIN q /\ i + n < j + n
        BY <2>0, <2>5, <3>2
      <4>2. new[i] = q[i + n] /\ new[j] = q[j + n]
        BY <1>4, <4>1
      <4>3. KeyLess(q[i + n], q[j + n])
        BY <4>1 DEF Ordered
      <4> QED BY <4>2, <4>3
    <3> QED BY <3>1, <3>2
  <2>6. DOMAIN queues'[r] = 1..m /\ queues'[r] = new /\ last'[r] = last[r]
    BY <1>1, <1>4
  <2> QED BY <2>3, <2>4, <2>5, <2>6 DEF Ordered, AtMost, Past
<1>5. CASE queues'[r] = new
  BY <1>0, <1>3, <1>4, <1>5, EnqueueShifts
<1> QED BY <1>2, <1>3, <1>5

\* next() moves the cursor to the head of the queue, or the queue past it.
LEMMA OrderedDeliver ==
  ASSUME TypeOK, NEW r \in Receivers, Ordered(r), NextDeliver(r)
  PROVE  /\ Ordered(r)'
         /\ KeyLess(last[r], last'[r])
         /\ \E n \in 1..head : last' = [last EXCEPT ![r] = <<session, n>>]
<1> DEFINE q == queues[r]
<1>0. /\ session \in Nat /\ head \in Nat /\ q \in Seq(Key)
      /\ last \in [Receivers -> Key] /\ queues \in [Receivers -> Seq(Key)]
  BY DEF TypeOK
<1>1. PICK i \in Deliverable(r) :
        /\ queues' = [queues EXCEPT ![r] = SubSeq(@, i + 1, Len(@))]
        /\ last' = [last EXCEPT ![r] = queues[r][i]]
  BY DEF NextDeliver
<1>2. session' = session /\ head' = head
  BY DEF NextDeliver, snapshot
<1>3. /\ i \in DOMAIN q /\ i \in 1..Len(q) /\ Len(q) \in Nat /\ q[i] \in Key
      /\ q[i] # last[r] /\ q[i][1] = session
  BY <1>0 DEF Deliverable
<1>4. Past(q[i]) /\ q[i][2] > 0 /\ AtMost(last[r], q[i])
  BY <1>3 DEF Ordered
<1>5. last'[r] = q[i] /\ queues'[r] = SubSeq(q, i + 1, Len(q))
  BY <1>0, <1>1
<1>6. KeyLess(last[r], last'[r])
  BY <1>3, <1>4, <1>5 DEF AtMost
<1>7. \E n \in 1..head : last' = [last EXCEPT ![r] = <<session, n>>]
  <2>1. q[i] = <<session, q[i][2]>> /\ q[i][2] \in 1..head
    BY <1>0, <1>3, <1>4 DEF Past, KeyLess, Key
  <2> QED BY <1>1, <2>1
<1>8. Ordered(r)'
  <2> DEFINE rest == SubSeq(q, i + 1, Len(q))
  <2>1. /\ rest \in Seq(Key) /\ Len(rest) = Len(q) - i
        /\ \A j \in 1..(Len(q) - i) : rest[j] = q[i + j]
    BY <1>0, <1>3
  <2>2. DOMAIN rest = 1..(Len(q) - i)
    BY <2>1
  <2> HIDE DEF rest
  <2>3. ASSUME NEW j \in 1..(Len(q) - i) PROVE
          /\ i + j \in DOMAIN q /\ i < i + j /\ rest[j] = q[i + j]
    BY <1>0, <1>3, <2>1
  <2>4. \A j \in 1..(Len(q) - i) :
          /\ Past(rest[j]) /\ rest[j][2] > 0
          /\ KeyLess(q[i], rest[j])
    BY <1>3, <2>3 DEF Ordered
  <2>5. ASSUME NEW j \in 1..(Len(q) - i), NEW k \in 1..(Len(q) - i), j < k
        PROVE  KeyLess(rest[j], rest[k])
    <3>1. i + j < i + k
      BY <1>3, <2>5
    <3> QED BY <2>3, <3>1 DEF Ordered
  <2>6. queues'[r] = rest
    BY <1>5 DEF rest
  <2>7. \A x : Past(x)' <=> Past(x)
    BY <1>2 DEF Past
  <2> QED BY <1>4, <1>5, <2>2, <2>4, <2>5, <2>6, <2>7 DEF Ordered, AtMost
<1> QED BY <1>6, <1>7, <1>8

\* What is queued for a new receiver is not older than where it stands.
LEMMA OrderedSubscribe ==
  ASSUME TypeOK, LatestIsHead, NEW r \in Receivers, NEW opt, Subscribe(r, opt)
  PROVE  Ordered(r)'
<1>0. /\ session \in Nat /\ head \in Nat /\ latest \in Nat /\ latest <= head
      /\ last \in [Receivers -> Key] /\ queues \in [Receivers -> Seq(Key)]
  BY DEF TypeOK, LatestIsHead
<1>1. /\ last'[r] = NoKey /\ session' = session /\ head' = head
      /\ queues'[r] = <<>> \/ (queues'[r] = <<<<session, latest>>>> /\ latest > 0)
  BY <1>0 DEF Subscribe, snapshot
<1>2. Past(last'[r]) /\ Past(<<session, latest>>)
  BY <1>0, <1>1 DEF Past, KeyLess, NoKey
<1>3. KeyLess(last'[r], <<session, head' + 1>>)
  BY <1>1, <1>2 DEF Past
<1>4. CASE queues'[r] = <<>>
  <2>1. DOMAIN queues'[r] = {}
    BY <1>4
  <2> QED BY <1>1, <1>3, <2>1 DEF Ordered, Past
<1>5. CASE queues'[r] = <<<<session, latest>>>> /\ latest > 0
  <2>1. DOMAIN queues'[r] = {1} /\ queues'[r][1] = <<session, latest>>
    BY <1>5
  <2>2. AtMost(last'[r], <<session, latest>>)
    BY <1>0, <1>1, <1>5 DEF AtMost, KeyLess, NoKey
  <2> QED BY <1>1, <1>2, <1>3, <1>5, <2>1, <2>2 DEF Ordered, Past
<1> QED BY <1>1, <1>4, <1>5

\* The cursor of wait_after is not newer than the frame that is queued.
LEMMA OrderedCursor ==
  ASSUME TypeOK, NEW r \in Receivers, Ordered(r), OnlyNewest(r),
         NEW after \in Keys, PlaceCursor(r, after)
  PROVE  Ordered(r)'
<1>0. /\ session \in Nat /\ head \in Nat /\ queues[r] \in Seq(Key)
      /\ last \in [Receivers -> Key]
  BY DEF TypeOK
<1>1. /\ last'[r] = after /\ queues'[r] = queues[r] /\ session' = session /\ head' = head
      /\ options[r] = LatestOnly
  BY <1>0 DEF PlaceCursor, snapshot
<1>2. \A x : Past(x)' <=> Past(x)
  BY <1>1 DEF Past
<1>3. CASE after = NoKey
  <2>1. Past(after)
    BY <1>0, <1>3 DEF Past, KeyLess, NoKey
  <2>2. ASSUME NEW i \in DOMAIN queues[r] PROVE AtMost(NoKey, queues[r][i])
    <3>1. queues[r][i] \in Key /\ queues[r][i][2] > 0
      BY <1>0 DEF Ordered
    <3> QED BY <3>1 DEF AtMost, KeyLess, NoKey, Key
  <2> QED BY <1>1, <1>2, <1>3, <2>1, <2>2 DEF Ordered
<1>4. ASSUME NEW n \in 1..head, after = <<session, n>> PROVE Ordered(r)'
  <2>1. Past(after)
    BY <1>0, <1>4 DEF Past, KeyLess
  <2>2. AtMost(after, <<session, head>>)
    BY <1>0, <1>4 DEF AtMost, KeyLess
  <2>3. queues[r] = <<>> \/ queues[r] = <<<<session, head>>>>
    BY <1>0, <1>1, <1>4 DEF OnlyNewest
  <2>4. \A i \in DOMAIN queues[r] : queues[r][i] = <<session, head>>
    BY <2>3
  <2> QED BY <1>1, <1>2, <2>1, <2>2, <2>4 DEF Ordered
<1> QED BY <1>3, <1>4 DEF Keys

\* Every step keeps every queue ordered.
LEMMA OrderedStep ==
  ASSUME DeliveryInv, [Next]_vars, NEW r \in Receivers
  PROVE  Ordered(r)'
<1> USE DEF DeliveryInv
<1>0. /\ TypeOK /\ LatestIsHead /\ Ordered(r) /\ OnlyNewest(r) /\ TypeOK'
      /\ session' \in Nat /\ session \in Nat /\ head' \in Nat /\ head \in Nat
      /\ last \in [Receivers -> Key] /\ queues \in [Receivers -> Seq(Key)]
  <2>1. TypeOK'
    BY TypeStep
  <2> QED BY <2>1 DEF QueuesOrdered, NewestQueued, TypeOK
<1>1. ASSUME last'[r] = last[r], queues'[r] = queues[r] \/ queues'[r] = <<>>,
             session' = session, head' = head
      PROVE  Ordered(r)'
  BY <1>0, <1>1, OrderedKept
<1>2. ASSUME NEW c \in Controllers, ControlStep(c) PROVE Ordered(r)'
  <2>1. CASE StartBegin(c) \/ StopClear(c)
    BY <1>1, <2>1 DEF StartBegin, StopClear, ClearQueues, snapshot
  <2>2. CASE StartReplace(c)
    <3>1. session < session' /\ last'[r] = last[r] /\ queues'[r] = queues[r]
      BY <2>2 DEF StartReplace, EpochsGrow
    <3> QED BY <1>0, <3>1, OrderedKept
  <2>3. CASE StopModify(c)
    BY <1>1, <2>3 DEF StopModify, EndEpoch
  <2>4. CASE \E rec, enabled \in BOOLEAN : SetRecovery(c, rec, enabled)
    BY <1>1, <2>4 DEF SetRecovery
  <2> QED BY <1>2, <2>1, <2>2, <2>3, <2>4 DEF ControlStep
<1>3. ASSUME NEW p \in Publishers, PublisherStep(p) PROVE Ordered(r)'
  <2>1. CASE Reserve(p) \/ Discard(p)
    BY <1>1, <2>1 DEF Reserve, Discard, snapshot, readers
  <2>2. ASSUME NEW early \in SUBSET Receivers, Publish(p, early)
        PROVE  Ordered(r)'
    BY <1>0, <2>2, OrderedPublish
  <2>3. ASSUME NEW s \in 1..session, SinkDisconnect(p, s) PROVE Ordered(r)'
    BY <1>1, <2>3 DEF SinkDisconnect, ClearQueues, snapshot
  <2>4. CASE SinkDisconnectModify(p)
    BY <1>1, <2>4 DEF SinkDisconnectModify, EndEpoch
  <2> QED BY <1>3, <2>1, <2>2, <2>3, <2>4 DEF PublisherStep
<1>4. ASSUME NEW t \in Receivers, ReceiverStep(t) PROVE Ordered(r)'
  <2>0. session' = session /\ head' = head
    BY <1>4 DEF ReceiverStep, NextPoll, Subscribe, WithStopFlag, PlaceCursor,
                Unsubscribe, NextStopped, NextDeliver,
                NextWait, CancelNext, snapshot
  <2>1. ASSUME NEW opt \in Options, Subscribe(t, opt)
        PROVE  Ordered(r)'
    <3>1. CASE t = r
      BY <1>0, <2>1, <3>1, OrderedSubscribe
    <3>2. CASE t # r
      BY <1>0, <1>1, <2>0, <2>1, <3>2 DEF Subscribe
    <3> QED BY <3>1, <3>2
  <2>2. CASE Unsubscribe(t)
    <3>1. CASE t = r
      <4>1. last'[r] = NoKey /\ queues'[r] = <<>>
        BY <1>0, <2>2, <3>1 DEF Unsubscribe
      <4>2. DOMAIN queues'[r] = {}
        BY <4>1
      <4>3. \A m, n \in Nat : KeyLess(NoKey, <<m, n + 1>>)
        BY DEF KeyLess, NoKey
      <4>4. KeyLess(NoKey, <<session', head' + 1>>)
        BY <1>0, <4>3
      <4> QED BY <4>1, <4>2, <4>4 DEF Ordered, Past
    <3>2. CASE t # r
      BY <1>0, <1>1, <2>0, <2>2, <3>2 DEF Unsubscribe
    <3> QED BY <3>1, <3>2
  <2>3. CASE NextDeliver(t)
    <3>1. CASE t = r
      BY <1>0, <2>3, <3>1, OrderedDeliver
    <3>2. CASE t # r
      BY <1>0, <1>1, <2>0, <2>3, <3>2 DEF NextDeliver
    <3> QED BY <3>1, <3>2
  <2>4. CASE NextStopped(t) \/ CancelNext(t)
    BY <1>1, <2>0, <2>4 DEF NextStopped, CancelNext
  <2>5. CASE NextWait(t)
    BY <1>0, <1>1, <2>0, <2>5 DEF NextWait
  <2>6. ASSUME NEW flag, WithStopFlag(t, flag) PROVE Ordered(r)'
    BY <1>0, <1>1, <2>0, <2>6 DEF WithStopFlag
  <2>7. ASSUME NEW after \in Keys, PlaceCursor(t, after) PROVE Ordered(r)'
    <3>1. CASE t = r
      BY <1>0, <2>7, <3>1, OrderedCursor
    <3>2. CASE t # r
      BY <1>0, <1>1, <2>0, <2>7, <3>2 DEF PlaceCursor
    <3> QED BY <3>1, <3>2
  <2> QED BY <1>4, <2>1, <2>2, <2>3, <2>4, <2>5, <2>6, <2>7 DEF ReceiverStep, NextPoll
<1>5. ASSUME NEW R \in SUBSET Receivers, RaiseStopFlag(R) PROVE Ordered(r)'
  BY <1>1, <1>5 DEF RaiseStopFlag, snapshot
<1>6. CASE UNCHANGED vars
  BY <1>1, <1>6 DEF vars, snapshot, readers
<1> QED BY <1>2, <1>3, <1>4, <1>5, <1>6 DEF Next

\* A queue of the latest frame alone never keeps an older one of the epoch.
LEMMA NewestStep ==
  ASSUME DeliveryInv, [Next]_vars, NEW r \in Receivers
  PROVE  OnlyNewest(r)'
<1> USE DEF DeliveryInv
<1>0. /\ TypeOK /\ LatestIsHead /\ OnlyNewest(r) /\ head \in Nat
      /\ options \in [Receivers -> SubscriptionOptions]
      /\ queues \in [Receivers -> Seq(Key)]
  BY DEF NewestQueued, TypeOK
<1>1. ASSUME options'[r] = options[r], queues'[r] = queues[r] \/ queues'[r] = <<>>,
             session' = session, head' = head
      PROVE  OnlyNewest(r)'
  BY <1>0, <1>1 DEF OnlyNewest
<1>2. ASSUME NEW c \in Controllers, ControlStep(c) PROVE OnlyNewest(r)'
  <2>1. CASE StartBegin(c) \/ StopClear(c)
    BY <1>1, <2>1 DEF StartBegin, StopClear, ClearQueues, snapshot
  <2>2. CASE StartReplace(c)
    BY <2>2 DEF StartReplace, OnlyNewest
  <2>3. CASE StopModify(c) \/ \E rec, enabled \in BOOLEAN : SetRecovery(c, rec, enabled)
    BY <1>1, <2>3 DEF StopModify, EndEpoch, SetRecovery
  <2> QED BY <1>2, <2>1, <2>2, <2>3 DEF ControlStep
<1>3. ASSUME NEW p \in Publishers, PublisherStep(p) PROVE OnlyNewest(r)'
  <2>1. CASE Reserve(p) \/ Discard(p)
    BY <1>1, <2>1 DEF Reserve, Discard, snapshot, readers
  <2>2. ASSUME NEW early \in SUBSET {t \in Receivers : options[t].limited /\ paced[t]},
               Publish(p, early)
        PROVE  OnlyNewest(r)'
    <3>1. options' = options /\ session' = session /\ head' = head + 1
          /\ pub[p].session = session /\ latest = head
      BY <2>2 DEF Publish, Accepts, LatestIsHead
    <3>2. CASE ~Listening(r)
      BY <2>2, <3>2 DEF Publish, OnlyNewest
    <3>3. CASE Listening(r) /\ options[r] = LatestOnly
      <4>1. r \notin early
        BY <2>2, <3>3 DEF LatestOnly
      <4>2. queues'[r] = Enqueue(options[r], queues[r], <<session, head + 1>>)
        BY <2>2, <3>1, <3>3, <4>1 DEF Publish
      <4>3. queues'[r] = <<<<session, head + 1>>>>
        BY <3>3, <4>2 DEF Enqueue, LatestOnly
      <4> QED BY <3>1, <4>3 DEF OnlyNewest
    <3> QED BY <3>1, <3>2, <3>3 DEF OnlyNewest
  <2>3. ASSUME NEW s \in 1..session, SinkDisconnect(p, s) PROVE OnlyNewest(r)'
    BY <1>1, <2>3 DEF SinkDisconnect, ClearQueues, snapshot
  <2>4. CASE SinkDisconnectModify(p)
    BY <1>1, <2>4 DEF SinkDisconnectModify, EndEpoch
  <2> QED BY <1>3, <2>1, <2>2, <2>3, <2>4 DEF PublisherStep
<1>4. ASSUME NEW t \in Receivers, ReceiverStep(t) PROVE OnlyNewest(r)'
  <2>0. session' = session /\ head' = head
    BY <1>4 DEF ReceiverStep, NextPoll, Subscribe, WithStopFlag, PlaceCursor,
                Unsubscribe, NextStopped, NextDeliver,
                NextWait, CancelNext, snapshot
  <2>1. ASSUME NEW opt, Subscribe(t, opt) PROVE OnlyNewest(r)'
    <3>1. CASE t = r
      <4>1. queues'[r] = <<>> \/ (queues'[r] = <<<<session, latest>>>> /\ latest # 0)
        BY <1>0, <2>1, <3>1 DEF Subscribe
      <4>2. latest # 0 => latest = head
        BY <1>0 DEF LatestIsHead
      <4> QED BY <2>0, <4>1, <4>2 DEF OnlyNewest
    <3>2. CASE t # r
      BY <1>0, <1>1, <2>0, <2>1, <3>2 DEF Subscribe
    <3> QED BY <3>1, <3>2
  <2>2. ASSUME NEW flag, WithStopFlag(t, flag) PROVE OnlyNewest(r)'
    BY <1>0, <1>1, <2>0, <2>2 DEF WithStopFlag
  <2>3. ASSUME NEW after, PlaceCursor(t, after) PROVE OnlyNewest(r)'
    BY <1>1, <2>0, <2>3 DEF PlaceCursor
  <2>4. CASE Unsubscribe(t)
    <3>1. queues'[r] = <<>> \/ (queues'[r] = queues[r] /\ options'[r] = options[r])
      BY <1>0, <2>4 DEF Unsubscribe
    <3> QED BY <1>1, <2>0, <3>1 DEF OnlyNewest
  <2>5. CASE NextDeliver(t)
    <3>1. PICK i \in Deliverable(t) : queues' = [queues EXCEPT ![t] = SubSeq(@, i + 1, Len(@))]
      BY <2>5 DEF NextDeliver
    <3>2. options' = options
      BY <2>5 DEF NextDeliver
    <3>3. CASE t = r /\ queues[r] = <<<<session, head>>>>
      <4>1. i = 1 /\ Len(queues[r]) = 1
        BY <3>1, <3>3 DEF Deliverable
      <4>2. queues'[r] = <<>>
        BY <1>0, <3>1, <3>3, <4>1
      <4> QED BY <4>2 DEF OnlyNewest
    <3>4. CASE t = r /\ queues[r] = <<>>
      BY <3>1, <3>4 DEF Deliverable
    <3>5. CASE t # r
      BY <1>0, <1>1, <2>0, <3>1, <3>2, <3>5
    <3> QED BY <1>0, <2>0, <3>2, <3>3, <3>4, <3>5 DEF OnlyNewest
  <2>6. CASE NextStopped(t) \/ CancelNext(t)
    BY <1>1, <2>0, <2>6 DEF NextStopped, CancelNext
  <2>7. CASE NextWait(t)
    BY <1>0, <1>1, <2>0, <2>7 DEF NextWait
  <2> QED BY <1>4, <2>1, <2>2, <2>3, <2>4, <2>5, <2>6, <2>7 DEF ReceiverStep, NextPoll
<1>5. ASSUME NEW R \in SUBSET Receivers, RaiseStopFlag(R) PROVE OnlyNewest(r)'
  BY <1>1, <1>5 DEF RaiseStopFlag, snapshot
<1>6. CASE UNCHANGED vars
  BY <1>1, <1>6 DEF vars, snapshot, readers
<1> QED BY <1>2, <1>3, <1>4, <1>5, <1>6 DEF Next

\* Epochs only grow and every queue is ordered, in every state: the
\* invariant behind what receivers are given.
THEOREM DeliveryInvariant == Spec => []DeliveryInv
<1>1. Init => DeliveryInv
  <2>1. ASSUME Init, NEW r \in Receivers PROVE Ordered(r)
    <3>1. DOMAIN queues[r] = {} /\ last[r] = NoKey /\ session = 0 /\ head = 0
      BY <2>1 DEF Init
    <3> QED BY <3>1 DEF Ordered, Past, KeyLess, NoKey
  <2>2. ASSUME Init PROVE EpochsGrow /\ LatestIsHead
    BY <2>2 DEF Init, EpochsGrow, LatestIsHead, IdleCtl
  <2>3. Init => NewestQueued
    BY DEF Init, NewestQueued, OnlyNewest
  <2> QED BY <2>1, <2>2, <2>3, InitType DEF DeliveryInv, QueuesOrdered
<1>2. DeliveryInv /\ [Next]_vars => DeliveryInv'
  BY TypeStep, EpochsStep, LatestStep, OrderedStep, NewestStep
     DEF DeliveryInv, QueuesOrdered, NewestQueued
<1> QED BY <1>1, <1>2, PTL DEF Spec

\* What a step takes from a queue and returns is newer than the cursor.
LEMMA NewerStep ==
  ASSUME DeliveryInv, Next, NEW r \in Receivers,
         popped'[r] # popped[r], rpc[r] # "none", rpc'[r] = "idle"
  PROVE  KeyLess(last[r], last'[r])
<1> USE DEF DeliveryInv
<1>0. /\ TypeOK /\ Ordered(r)
      /\ rpc \in [Receivers -> {"none", "built", "idle", "waiting", "stopped"}]
      /\ popped \in [Receivers -> Nat]
  BY DEF QueuesOrdered, TypeOK
<1>1. ASSUME NEW c \in Controllers, ControlStep(c) PROVE FALSE
  BY <1>1 DEF ControlStep, StartBegin, StartReplace, StopClear, StopModify, SetRecovery,
              snapshot
<1>2. ASSUME NEW p \in Publishers, PublisherStep(p) PROVE FALSE
  BY <1>2 DEF PublisherStep, Reserve, Discard, Publish, SinkDisconnect,
              SinkDisconnectModify, snapshot, readers
<1>3. ASSUME NEW t \in Receivers, ReceiverStep(t) PROVE KeyLess(last[r], last'[r])
  <2>1. ASSUME NEW opt, Subscribe(t, opt) PROVE FALSE
    BY <1>0, <2>1 DEF Subscribe
  <2>6. ASSUME NEW flag, NEW after, WithStopFlag(t, flag) \/ PlaceCursor(t, after) PROVE FALSE
    BY <2>6 DEF WithStopFlag, PlaceCursor
  <2>2. CASE Unsubscribe(t)
    BY <1>0, <2>2 DEF Unsubscribe
  <2>3. CASE NextStopped(t) \/ CancelNext(t)
    BY <2>3 DEF NextStopped, CancelNext
  <2>4. CASE NextWait(t)
    BY <1>0, <2>4 DEF NextWait
  <2>5. CASE NextDeliver(t)
    <3>1. t = r
      BY <1>0, <2>5 DEF NextDeliver
    <3> QED BY <1>0, <2>5, <3>1, OrderedDeliver
  <2> QED BY <1>3, <2>1, <2>2, <2>3, <2>4, <2>5, <2>6 DEF ReceiverStep, NextPoll
<1>4. ASSUME NEW R \in SUBSET Receivers, RaiseStopFlag(R) PROVE FALSE
  BY <1>4 DEF RaiseStopFlag
<1> QED BY <1>1, <1>2, <1>3, <1>4 DEF Next

\* next() never returns a frame twice, nor an older one after a newer one,
\* under any policy, rate limit and interleaving of stops and restarts.
THEOREM NewerDelivered == Spec => DeliversNewer
<1> DEFINE Newer ==
      \A r \in Receivers :
        popped'[r] # popped[r] /\ rpc[r] # "none" /\ rpc'[r] = "idle" =>
          KeyLess(last[r], last'[r])
<1>1. DeliveryInv /\ [Next]_vars => [Newer]_vars
  BY NewerStep
<1> QED BY <1>1, DeliveryInvariant, PTL DEF Spec, DeliversNewer

-----------------------------------------------------------------------------
(* Accounting. *)

\* The receiver's own count of the frames of the epoch is complete.
Accounted(r) == head = popped[r] + dropped[r] + Len(queues[r])

\* Where nobody is about to end the epoch, the receivers that joined in it.
Counts(r) == active /\ Quiescent /\ Listening(r) /\ since[r] = session

\* No receiver joined in an epoch that is still to come: what start() takes
\* the queues' content from, it takes from receivers of earlier epochs.
JoinedBefore == \A r \in Receivers : since[r] <= session

\* A frame offered takes a place in the queue or is counted as lost, under
\* every policy, as long as the queue is within its capacity.
LEMMA OfferCounted ==
  ASSUME NEW d \in SubscriptionOptions, NEW q \in Seq(Key), NEW k \in Key, Len(q) <= d.capacity
  PROVE  Len(Enqueue(d, q, k)) + Lost(d, q) = Len(q) + 1
<1>0. d.capacity \in Nat \ {0} /\ Len(q) \in Nat
  BY DEF SubscriptionOptions
<1>1. Len(<<k>>) = 1 /\ Len(Append(q, k)) = Len(q) + 1
  OBVIOUS
<1>2. q # <<>> => Len(Append(Tail(q), k)) = Len(q)
  OBVIOUS
<1>3. Len(q) >= d.capacity => q # <<>>
  BY <1>0
<1> QED BY <1>0, <1>1, <1>2, <1>3 DEF Enqueue, Lost

\* A publication is counted by every receiver it reaches.
LEMMA PublishCounted ==
  ASSUME TypeOK, QueuesBounded, NEW r \in Receivers, NEW p \in Publishers,
         NEW early \in SUBSET Receivers, Publish(p, early), Listening(r), Accounted(r)
  PROVE  Accounted(r)'
<1> DEFINE k == <<pub[p].session, latest + 1>>
<1>1. /\ k \in Key /\ options[r] \in SubscriptionOptions /\ queues[r] \in Seq(Key)
      /\ Len(queues[r]) <= options[r].capacity
  BY DEF TypeOK, Key, QueuesBounded
<1>2. /\ head \in Nat /\ popped[r] \in Nat /\ dropped[r] \in Nat /\ Len(queues[r]) \in Nat
      /\ Lost(options[r], queues[r]) \in Nat
  BY <1>1, LostType DEF TypeOK
<1>3. head' = head + 1 /\ popped'[r] = popped[r]
  BY DEF Publish
<1>6. head = popped[r] + dropped[r] + Len(queues[r])
  BY DEF Accounted
<1> HIDE DEF k
<1>4. CASE r \in early
  <2>1. queues'[r] = queues[r] /\ dropped'[r] = dropped[r] + 1
    BY <1>4 DEF Publish, TypeOK
  <2>2. head' = popped'[r] + dropped'[r] + Len(queues'[r])
    BY <1>2, <1>3, <1>6, <2>1
  <2> QED BY <2>2 DEF Accounted
<1>5. CASE r \notin early
  <2>1. /\ queues'[r] = Enqueue(options[r], queues[r], k)
        /\ dropped'[r] = dropped[r] + Lost(options[r], queues[r])
    BY <1>5 DEF Publish, TypeOK, k
  <2>2. Enqueue(options[r], queues[r], k) \in Seq(Key)
    BY <1>1, EnqueueType
  <2>3. Len(queues'[r]) \in Nat
    BY <2>1, <2>2
  <2>4. Len(queues'[r]) + Lost(options[r], queues[r]) = Len(queues[r]) + 1
    BY <1>1, <2>1, OfferCounted
  <2> DEFINE lost == Lost(options[r], queues[r])
             before == Len(queues[r])
             after == Len(queues'[r])
             a == popped[r]
             b == dropped[r]
  <2>5. /\ lost \in Nat /\ before \in Nat /\ after \in Nat /\ a \in Nat /\ b \in Nat
        /\ after + lost = before + 1
    BY <1>2, <2>3, <2>4
  <2> HIDE DEF lost, before, after, a, b
  <2>6. (a + b + before) + 1 = a + (b + lost) + after
    BY <2>5
  <2>7. head' = popped'[r] + dropped'[r] + Len(queues'[r])
    BY <1>3, <1>6, <2>1, <2>6 DEF lost, before, after, a, b
  <2> QED BY <2>7 DEF Accounted
<1> QED BY <1>4, <1>5

\* What next() takes from the queue it adds to what was taken.
LEMMA PollCounted ==
  ASSUME TypeOK, NEW r \in Receivers, NextPoll(r), Accounted(r)
  PROVE  Accounted(r)'
<1>0. /\ queues \in [Receivers -> Seq(Key)] /\ popped \in [Receivers -> Nat]
      /\ head \in Nat /\ dropped[r] \in Nat /\ queues[r] \in Seq(Key)
  BY DEF TypeOK
<1>1. UNCHANGED <<head, dropped>>
  BY DEF NextPoll, NextStopped, NextDeliver, NextWait, snapshot
<1>2. CASE NextStopped(r)
  BY <1>1, <1>2 DEF NextStopped, Accounted
<1>3. CASE NextDeliver(r)
  <2>1. PICK i \in Deliverable(r) :
          /\ queues' = [queues EXCEPT ![r] = SubSeq(@, i + 1, Len(@))]
          /\ popped' = [popped EXCEPT ![r] = @ + i]
    BY <1>3 DEF NextDeliver
  <2>2. i \in 1..Len(queues[r]) /\ Len(queues[r]) \in Nat
    BY <1>0 DEF Deliverable
  <2>3. Len(SubSeq(queues[r], i + 1, Len(queues[r]))) = Len(queues[r]) - i
    BY <1>0, <2>2, SubSeqProperties
  <2>4. Len(queues'[r]) = Len(queues[r]) - i /\ popped'[r] = popped[r] + i
    BY <1>0, <2>1, <2>3
  <2> QED BY <1>0, <1>1, <2>2, <2>4 DEF Accounted
<1>4. CASE NextWait(r)
  <2>1. queues'[r] = <<>> /\ popped'[r] = popped[r] + Len(queues[r])
    BY <1>0, <1>4 DEF NextWait
  <2>2. Len(queues'[r]) = 0 /\ Len(queues[r]) \in Nat
    BY <1>0, <2>1
  <2> QED BY <1>0, <1>1, <2>1, <2>2 DEF Accounted
<1> QED BY <1>2, <1>3, <1>4 DEF NextPoll

\* A receiver that joins starts with every frame before it accounted for.
LEMMA JoinCounted ==
  ASSUME TypeOK, LatestIsHead, NEW r \in Receivers, NEW opt,
         Subscribe(r, opt), active
  PROVE  Accounted(r)'
<1>0. /\ queues \in [Receivers -> Seq(Key)] /\ popped \in [Receivers -> Nat]
      /\ dropped \in [Receivers -> Nat] /\ rpc \in [Receivers -> {"none", "built", "idle", "waiting", "stopped"}]
      /\ owner \in [Receivers -> {"none", "running", "stopped"}]
      /\ head \in Nat /\ latest = head
  BY DEF TypeOK, LatestIsHead
<1>1. head' = head
  BY DEF Subscribe, snapshot
<1>2. dropped'[r] = 0
  BY <1>0 DEF Subscribe
<1>3. CASE latest = 0
  <2>1. queues'[r] = <<>> /\ popped'[r] = head
    BY <1>0, <1>3 DEF Subscribe
  <2>2. Len(queues'[r]) = 0
    BY <2>1
  <2> QED BY <1>0, <1>1, <1>2, <2>1, <2>2 DEF Accounted
<1>4. CASE latest # 0
  <2>1. queues'[r] = <<<<session, latest>>>> /\ popped'[r] = latest - 1
    BY <1>0, <1>1, <1>4 DEF Subscribe
  <2>2. Len(queues'[r]) = 1
    BY <2>1
  <2> QED BY <1>0, <1>1, <1>2, <2>1, <2>2 DEF Accounted
<1> QED BY <1>3, <1>4

\* Every step keeps the count of every receiver that counts.
LEMMA CountedStep ==
  ASSUME DeliveryInv, QueuesBounded, JoinedBefore, [Next]_vars, NEW r \in Receivers,
         Counts(r) => Accounted(r), Counts(r)'
  PROVE  Accounted(r)'
<1> USE DEF DeliveryInv
<1>0. /\ TypeOK /\ LatestIsHead
      /\ since \in [Receivers -> Nat] /\ since[r] <= session /\ session \in Nat
      /\ pub \in [Publishers -> [pc : {"idle", "convert", "disconnect"}, session : Nat]]
      /\ ctl \in [Controllers -> [pc : {"idle", "replace", "stop"}, session : Nat,
                                  recovering : BOOLEAN, reconnect : BOOLEAN]]
  BY DEF TypeOK, JoinedBefore
<1>1. ASSUME Quiescent' => Quiescent,
             UNCHANGED <<session, active, head>>, since'[r] = since[r],
             Listening(r)' => Listening(r), queues'[r] = queues[r],
             dropped'[r] = dropped[r], popped'[r] = popped[r]
      PROVE  Accounted(r)'
  BY <1>1 DEF Counts, Accounted
<1>2. ASSUME NEW c \in Controllers, ControlStep(c) PROVE Accounted(r)'
  <2>1. CASE StartBegin(c) \/ StopClear(c)
    <3>1. ctl'[c].pc \in {"replace", "stop"}
      BY <1>0, <2>1 DEF StartBegin, StopClear
    <3> QED BY <3>1 DEF Counts, Quiescent
  <2>2. CASE StartReplace(c)
    <3>1. session < session' /\ since'[r] = since[r] /\ session' \in Nat
      BY <1>0, <2>2 DEF StartReplace, EpochsGrow
    <3> QED BY <1>0, <3>1 DEF Counts
  <2>3. CASE StopModify(c)
    BY <2>3 DEF StopModify, EndEpoch, Counts
  <2>4. CASE \E rec, enabled \in BOOLEAN : SetRecovery(c, rec, enabled)
    BY <1>1, <2>4 DEF SetRecovery, Quiescent, Listening
  <2> QED BY <1>2, <2>1, <2>2, <2>3, <2>4 DEF ControlStep
<1>3. ASSUME NEW p \in Publishers, PublisherStep(p) PROVE Accounted(r)'
  <2>1. CASE Reserve(p) \/ Discard(p)
    <3>1. pub[p].pc # "disconnect" /\ ctl' = ctl
          /\ \A q \in Publishers : q # p => pub'[q] = pub[q]
      BY <1>0, <2>1 DEF Reserve, Discard
    <3>2. Quiescent' => Quiescent
      BY <3>1 DEF Quiescent
    <3> QED BY <1>1, <2>1, <3>2 DEF Reserve, Discard, snapshot, readers, Listening
  <2>2. ASSUME NEW early \in SUBSET Receivers, Publish(p, early) PROVE Accounted(r)'
    <3>1. pub[p].pc # "disconnect" /\ ctl' = ctl
          /\ \A q \in Publishers : q # p => pub'[q] = pub[q]
      BY <1>0, <2>2 DEF Publish
    <3>2. Quiescent' => Quiescent
      BY <3>1 DEF Quiescent
    <3>3. Listening(r) /\ Counts(r)
      BY <2>2, <3>2 DEF Publish, Counts, Listening
    <3> QED BY <2>2, <3>3, PublishCounted
  <2>3. ASSUME NEW s \in 1..session, SinkDisconnect(p, s) PROVE Accounted(r)'
    <3>1. pub'[p].pc = "disconnect"
      BY <1>0, <2>3 DEF SinkDisconnect
    <3> QED BY <3>1 DEF Counts, Quiescent
  <2>4. CASE SinkDisconnectModify(p)
    BY <2>4 DEF SinkDisconnectModify, EndEpoch, Counts
  <2> QED BY <1>3, <2>1, <2>2, <2>3, <2>4 DEF PublisherStep
<1>4. ASSUME NEW t \in Receivers, ReceiverStep(t) PROVE Accounted(r)'
  <2>0. UNCHANGED <<session, active, head, pub, ctl>> /\ (Quiescent' => Quiescent)
    <3>1. UNCHANGED <<session, active, head, pub, ctl>>
      BY <1>4 DEF ReceiverStep, NextPoll, Subscribe, WithStopFlag, PlaceCursor,
                Unsubscribe, NextStopped, NextDeliver,
                  NextWait, CancelNext, snapshot
    <3> QED BY <3>1 DEF Quiescent
  <2>1. CASE t # r
    <3>1. /\ since'[r] = since[r] /\ rpc'[r] = rpc[r] /\ owner'[r] = owner[r]
          /\ queues'[r] = queues[r] /\ dropped'[r] = dropped[r] /\ popped'[r] = popped[r]
      BY <1>0, <1>4, <2>1 DEF ReceiverStep, NextPoll, Subscribe, WithStopFlag, PlaceCursor,
                Unsubscribe, NextStopped,
           NextDeliver, NextWait, CancelNext, TypeOK
    <3> QED BY <1>1, <2>0, <3>1 DEF Listening
  <2>2. ASSUME t = r, NEW opt, Subscribe(r, opt)
        PROVE  Accounted(r)'
    BY <1>0, <2>0, <2>2, JoinCounted DEF Counts
  <2>3. CASE t = r /\ Unsubscribe(r)
    <3>1. rpc'[r] = "none"
      BY <1>0, <2>3 DEF Unsubscribe, TypeOK
    <3> QED BY <3>1 DEF Counts, Listening
  <2>4. CASE t = r /\ NextPoll(r)
    <3>1. Listening(r) /\ since[r] = session
      <4>1. rpc[r] # "none" /\ UNCHANGED <<since, owner>>
        BY <2>4 DEF NextPoll, NextStopped, NextDeliver, NextWait, Polls
      <4> QED BY <2>0, <4>1 DEF Counts, Listening
    <3>2. Counts(r)
      BY <2>0, <3>1 DEF Counts
    <3> QED BY <1>0, <2>4, <3>2, PollCounted
  <2>5. CASE t = r /\ CancelNext(r)
    BY <1>1, <2>0, <2>5 DEF CancelNext, Listening
  <2>6. ASSUME t = r, NEW flag \in {"running", "stopped"}, WithStopFlag(r, flag)
        PROVE  Accounted(r)'
    <3>1. owner'[r] = flag /\ Listening(r)
      BY <2>6 DEF WithStopFlag, Listening, TypeOK
    <3>2. flag # "stopped"
      BY <3>1 DEF Counts, Listening
    <3>3. queues' = queues /\ UNCHANGED <<since, dropped, popped>>
      BY <2>6, <3>2 DEF WithStopFlag, TypeOK
    <3> QED BY <1>1, <2>0, <3>1, <3>3
  <2>7. ASSUME t = r, NEW after, PlaceCursor(r, after) PROVE Accounted(r)'
    BY <1>1, <2>0, <2>7 DEF PlaceCursor, Listening
  <2> QED BY <1>4, <2>1, <2>2, <2>3, <2>4, <2>5, <2>6, <2>7 DEF ReceiverStep
<1>5. ASSUME NEW R \in SUBSET Receivers, RaiseStopFlag(R) PROVE Accounted(r)'
  <2>1. Listening(r)' => Listening(r)
    BY <1>5 DEF RaiseStopFlag, Listening
  <2> QED BY <1>1, <1>5, <2>1 DEF RaiseStopFlag, snapshot, Quiescent
<1>6. CASE UNCHANGED vars
  BY <1>1, <1>6 DEF vars, snapshot, readers, Quiescent, Listening
<1> QED BY <1>2, <1>3, <1>4, <1>5, <1>6 DEF Next

\* Receivers join in the current epoch, and epochs only grow.
LEMMA JoinedStep ==
  ASSUME DeliveryInv, JoinedBefore, [Next]_vars
  PROVE  JoinedBefore'
<1> USE DEF DeliveryInv
<1>1. /\ session \in Nat /\ session' \in Nat /\ since \in [Receivers -> Nat]
  BY TypeStep DEF TypeOK
<1>2. session <= session'
  <2>1. ASSUME NEW c \in Controllers, ControlStep(c) PROVE session <= session'
    <3>1. CASE StartReplace(c)
      BY <1>1, <3>1 DEF StartReplace, EpochsGrow
    <3>2. CASE ~StartReplace(c)
      <4>1. session' = session
        BY <2>1, <3>2 DEF ControlStep, StartBegin, StopClear, StopModify, EndEpoch,
                          SetRecovery, snapshot
      <4> QED BY <1>1, <4>1
    <3> QED BY <3>1, <3>2
  <2>2. ASSUME NEW p \in Publishers, PublisherStep(p) PROVE session' = session
    BY <2>2 DEF PublisherStep, Reserve, Discard, Publish, SinkDisconnect,
                SinkDisconnectModify, EndEpoch, snapshot
  <2>3. ASSUME NEW t \in Receivers, ReceiverStep(t) PROVE session' = session
    BY <2>3 DEF ReceiverStep, NextPoll, Subscribe, WithStopFlag, PlaceCursor,
                Unsubscribe, NextStopped, NextDeliver,
                NextWait, CancelNext, snapshot
  <2>4. ASSUME NEW R \in SUBSET Receivers, RaiseStopFlag(R) PROVE session' = session
    BY <2>4 DEF RaiseStopFlag, snapshot
  <2>5. CASE UNCHANGED vars
    BY <1>1, <2>5 DEF vars, snapshot
  <2> QED BY <1>1, <2>1, <2>2, <2>3, <2>4, <2>5 DEF Next
<1>3. \A r \in Receivers : since'[r] \in {since[r], 0} \/ (since'[r] = session /\ session' = session)
  <2>1. ASSUME NEW c \in Controllers, ControlStep(c) PROVE since' = since
    BY <2>1 DEF ControlStep, StartBegin, StartReplace, StopClear, StopModify, SetRecovery
  <2>2. ASSUME NEW p \in Publishers, PublisherStep(p) PROVE since' = since
    BY <2>2 DEF PublisherStep, Reserve, Discard, Publish, SinkDisconnect,
                SinkDisconnectModify, readers
  <2>3. ASSUME NEW t \in Receivers, ReceiverStep(t), NEW r \in Receivers
        PROVE  since'[r] \in {since[r], 0} \/ (since'[r] = session /\ session' = session)
    BY <1>1, <2>3 DEF ReceiverStep, NextPoll, Subscribe, WithStopFlag, PlaceCursor,
                Unsubscribe, NextStopped,
                NextDeliver, NextWait, CancelNext, snapshot
  <2>4. ASSUME NEW R \in SUBSET Receivers, RaiseStopFlag(R) PROVE since' = since
    BY <2>4 DEF RaiseStopFlag
  <2>5. CASE UNCHANGED vars
    BY <2>5 DEF vars, readers
  <2> QED BY <2>1, <2>2, <2>3, <2>4, <2>5 DEF Next
<1> QED BY <1>1, <1>2, <1>3 DEF JoinedBefore

\* Nothing is lost silently: what finish_publish gave a receiver in the epoch
\* it subscribed in was taken, is queued, or was counted in dropped_frames,
\* for every policy, rate limit and interleaving with starts and stops.
THEOREM NothingLostSilently == Spec => []DropsAccounted
<1> DEFINE Ledger == JoinedBefore /\ DropsAccounted
<1>1. Init => Ledger
  BY DEF Init, JoinedBefore, DropsAccounted
<1>2. DeliveryInv /\ QueuesBounded /\ Ledger /\ [Next]_vars => Ledger'
  <2>1. ASSUME DeliveryInv, QueuesBounded, Ledger, [Next]_vars PROVE DropsAccounted'
    <3>1. \A r \in Receivers : Counts(r) => Accounted(r)
      BY <2>1 DEF DropsAccounted, Counts, Accounted
    <3>2. \A r \in Receivers : Counts(r)' => Accounted(r)'
      BY <2>1, <3>1, CountedStep
    <3> QED BY <3>2 DEF DropsAccounted, Counts, Accounted
  <2> QED BY <2>1, JoinedStep
<1> QED BY <1>1, <1>2, DeliveryInvariant, QueuesStayBounded, PTL DEF Spec

-----------------------------------------------------------------------------
(* Refinement. *)

\* Every step of the hub is a step of FrameStream or leaves it unchanged.
LEMMA StreamStep ==
  ASSUME DeliveryInv, [Next]_vars
  PROVE  [Stream!Next]_(Stream!vars)
<1> USE DEF DeliveryInv
<1>0. ASSUME UNCHANGED <<session, active, head, last>> PROVE UNCHANGED Stream!vars
  BY <1>0 DEF Stream!vars
<1>1. ASSUME NEW c \in Controllers, ControlStep(c) PROVE Stream!Next \/ UNCHANGED Stream!vars
  <2>1. CASE StartBegin(c) \/ StopClear(c)
    BY <1>0, <2>1 DEF StartBegin, StopClear, snapshot
  <2>2. CASE StartReplace(c)
    <3>1. session' \in Nat /\ session' > session
      BY <2>2, TypeStep DEF StartReplace, EpochsGrow, TypeOK
    <3> QED BY <2>2, <3>1 DEF StartReplace, Stream!Next, Stream!Restart
  <2>3. CASE StopModify(c)
    BY <2>3 DEF StopModify, EndEpoch, Stream!Next, Stream!Close
  <2>4. CASE \E rec, enabled \in BOOLEAN : SetRecovery(c, rec, enabled)
    BY <1>0, <2>4 DEF SetRecovery
  <2> QED BY <1>1, <2>1, <2>2, <2>3, <2>4 DEF ControlStep
<1>2. ASSUME NEW p \in Publishers, PublisherStep(p)
      PROVE  Stream!Next \/ UNCHANGED Stream!vars
  <2>1. CASE Reserve(p) \/ Discard(p)
    BY <1>0, <2>1 DEF Reserve, Discard, snapshot, readers
  <2>2. ASSUME NEW early, Publish(p, early) PROVE Stream!Next
    BY <2>2 DEF Publish, Accepts, Stream!Next, Stream!Publish
  <2>3. ASSUME NEW s \in 1..session, SinkDisconnect(p, s) PROVE UNCHANGED Stream!vars
    BY <1>0, <2>3 DEF SinkDisconnect, snapshot
  <2>4. CASE SinkDisconnectModify(p)
    BY <2>4 DEF SinkDisconnectModify, EndEpoch, Stream!Next, Stream!Close
  <2> QED BY <1>2, <2>1, <2>2, <2>3, <2>4 DEF PublisherStep
<1>3. ASSUME NEW r \in Receivers, ReceiverStep(r)
      PROVE  Stream!Next \/ UNCHANGED Stream!vars
  <2>1. ASSUME NEW opt, Subscribe(r, opt) PROVE Stream!Join(r)
    BY <2>1 DEF Subscribe, snapshot, Stream!Join, Stream!NoKey, NoKey
  <2>5. ASSUME NEW after \in Keys, PlaceCursor(r, after) PROVE Stream!Join(r)
    <3>1. last' = [last EXCEPT ![r] = after] /\ UNCHANGED <<session, active, head>>
      BY <2>5 DEF PlaceCursor, snapshot
    <3> QED BY <3>1 DEF Keys, Stream!Join, Stream!NoKey, NoKey
  <2>6. ASSUME NEW flag, WithStopFlag(r, flag) PROVE UNCHANGED Stream!vars
    BY <1>0, <2>6 DEF WithStopFlag, snapshot
  <2>2. CASE Unsubscribe(r)
    BY <2>2 DEF Unsubscribe, snapshot, Stream!Next, Stream!Join, Stream!NoKey, NoKey
  <2>3. CASE NextDeliver(r)
    <3>1. /\ KeyLess(last[r], last'[r])
          /\ \E n \in 1..head : last' = [last EXCEPT ![r] = <<session, n>>]
      BY <2>3, OrderedDeliver DEF QueuesOrdered
    <3>2. PICK n \in 1..head : last' = [last EXCEPT ![r] = <<session, n>>]
      BY <3>1
    <3>3. last'[r] = <<session, n>>
      BY <3>2 DEF TypeOK
    <3>4. Stream!Newer(<<session, n>>, last[r])
      BY <3>1, <3>3 DEF KeyLess, Stream!Newer
    <3>5. UNCHANGED <<session, active, head>>
      BY <2>3 DEF NextDeliver, snapshot
    <3>6. Stream!Deliver(r)
      BY <3>2, <3>4, <3>5 DEF Stream!Deliver
    <3> QED BY <3>6 DEF Stream!Next
  <2>4. CASE NextStopped(r) \/ NextWait(r) \/ CancelNext(r)
    BY <1>0, <2>4 DEF NextStopped, NextWait, CancelNext, snapshot
  <2> QED BY <1>3, <2>1, <2>2, <2>3, <2>4, <2>5, <2>6 DEF ReceiverStep, NextPoll, Stream!Next
<1>4. ASSUME NEW R \in SUBSET Receivers, RaiseStopFlag(R) PROVE UNCHANGED Stream!vars
  BY <1>0, <1>4 DEF RaiseStopFlag, snapshot
<1>5. CASE UNCHANGED vars
  BY <1>0, <1>5 DEF vars, snapshot, readers
<1> QED BY <1>1, <1>2, <1>3, <1>4, <1>5 DEF Next

\* The hub implements the stream it promises: whatever its queues, policies,
\* rate limits and races do, a reader sees newer and newer published frames
\* of the current epoch.
THEOREM ImplementsStream == Spec => ImplementsFrameStream
<1>1. Init => Stream!Init
  BY DEF Init, Stream!Init, Stream!NoKey, NoKey
<1>2. DeliveryInv /\ [Next]_vars => [Stream!Next]_(Stream!vars)
  BY StreamStep
<1> QED BY <1>1, <1>2, DeliveryInvariant, PTL DEF Spec, ImplementsFrameStream, Stream!Spec
=============================================================================
