-------------------------- MODULE MfWorker_proofs --------------------------
(***************************************************************************)
(* Theorems about the Media Foundation worker, for every number of calls:  *)
(* no sample of an earlier stream is published under the present one, and  *)
(* a start that its caller gave up is undone however far it had got.       *)
(***************************************************************************)
EXTENDS MfWorker, SequenceTheorems, TLAPS

-----------------------------------------------------------------------------
(* The inductive invariant.                                                 *)

\* What the argument asks of the constant.
Parameters == MaxCalls \in Nat

\* The calls the client has made, and the answers to them: a call is answered
\* after it was made, and the start the client waits for by the worker alone.
CallsMade ==
    /\ cancelled \subseteq 1..client.call /\ worker.stopping <= client.call
    /\ client.at \in {"starting", "undo"} => client.call \in Calls
    /\ client.at = "starting" => client.call \notin cancelled /\ worker.stopping # client.call
    /\ \A n \in Calls : n > client.call => answer[n] = "none"

\* The calls in the channel: a start its caller has not given up is the last
\* one there, and the caller waits for it.
CallsInOrder ==
    \A i \in DOMAIN queue :
        /\ queue[i].kind \in {"start", "stop"} => queue[i].of \in 1..client.call
        /\ queue[i].kind = "stop" /\ client.at = "starting" => queue[i].of # client.call
        /\ queue[i].kind = "start" /\ queue[i].of \notin cancelled =>
             /\ client.at = "starting" /\ client.call = queue[i].of /\ answer[client.call] = "none"
             /\ \A j \in Calling : j <= i

\* The stop of a start that was given up comes before any other call, or its
\* caller is about to send it.
StopFirst ==
    \/ client.at = "undo" /\ Calling = {}
    \/ \E i \in Calling : queue[i].kind = "stop" /\ \A j \in Calling : i <= j

\* The worker is in the start its caller waits for, or whose stop follows.
WorkerInCall ==
    worker.at \in {"start", "check", "reply"} =>
        /\ worker.call \in Calls
        /\ worker.call \in cancelled => StopFirst
        /\ worker.call \notin cancelled =>
             /\ client.at = "starting" /\ client.call = worker.call
             /\ answer[worker.call] = "none" /\ Calling = {}

\* One flush at a time; its event follows the last sample.
FlushLast ==
    /\ reader.flushing => worker.stopping # 0
    /\ worker.running => worker.stopping = 0
    /\ \A i \in DOMAIN queue : queue[i].kind = "flushed" =>
         /\ worker.stopping # 0 /\ ~reader.flushing /\ reader.reads = <<>>
         /\ \A j \in DOMAIN queue : i < j => queue[j].kind \notin {"sample", "flushed"}

\* A worker that could start has no read and no sample left, unless the stop
\* of a start that was given up has to be taken first.
CleanToStart ==
    ~worker.running /\ worker.stopping = 0 /\ ~reader.lost =>
        (reader.reads = <<>> /\ Samples = {}) \/ (worker.at # "start" /\ StopFirst)

\* A stream that runs has a caller that was told so, will be, or undoes it.
Claimed ==
    worker.running =>
        \/ worker.session \in client.granted
        \/ worker.at \in {"check", "reply"} /\ worker.result = "ok"
        \/ client.at = "starting" /\ answer[client.call] = "ok"
        \/ client.at = "undo"
        \/ \E i \in DOMAIN queue : queue[i].kind \in {"stop", "quit"}

\* A live hub has the worker's stream.
LiveIsRunning == hub.active => worker.running /\ worker.session = hub.session

MfInv ==
    /\ TypeOK /\ CallsMade /\ CallsInOrder /\ WorkerInCall
    /\ FlushLast /\ CleanToStart /\ NoStaleSample
    /\ Claimed /\ LiveIsRunning

-----------------------------------------------------------------------------
(* The channel.                                                             *)

\* Where a message that is sent next will lie.
Last == Len(queue) + 1

\* FrameHub::start and stop give a hub; stop keeps the epoch.
LEMMA HubSteps ==
  ASSUME NEW h \in Hub
  PROVE  /\ h.session \in Nat /\ HubStart(h) \in Hub /\ HubStart(h).session \in Nat
         /\ HubStart(h).session = h.session + 1 /\ HubStart(h).active
         /\ HubStop(h) \in Hub /\ HubStop(h).session = h.session /\ ~HubStop(h).active
<1>1. h \in [session : Nat, active : BOOLEAN]
  BY DEF Hub
<1>2. HubStart(h) \in Hub /\ HubStart(h).session = h.session + 1 /\ HubStart(h).active
  BY <1>1 DEF Hub, HubStart
<1>3. HubStop(h) \in Hub /\ HubStop(h).session = h.session /\ ~HubStop(h).active
  BY <1>1 DEF Hub, HubStop
<1> QED BY <1>1, <1>2, <1>3

\* The receiver takes the oldest event; the others move up.
LEMMA Taken ==
  ASSUME queue \in Seq(Events), queue # <<>>, queue' = Tail(queue)
  PROVE  /\ queue' \in Seq(Events) /\ Head(queue) = queue[1]
         /\ 1 \in DOMAIN queue /\ queue[1] \in Events /\ DOMAIN queue \subseteq Nat
         /\ \A i \in DOMAIN queue : i >= 1 /\ queue[i] \in Events
         /\ \A i \in DOMAIN queue' : i \in Nat /\ i >= 1 /\ i + 1 \in DOMAIN queue /\ queue'[i] = queue[i + 1]
         /\ \A i \in DOMAIN queue : i # 1 => i - 1 \in DOMAIN queue' /\ queue'[i - 1] = queue[i]
<1> DEFINE n == Len(queue)
<1>1. n \in Nat /\ n >= 1 /\ DOMAIN queue = 1..n /\ queue' \in Seq(Events) /\ Head(queue) = queue[1]
  OBVIOUS
<1>2. Len(queue') = n - 1 /\ DOMAIN queue' = 1..n - 1 /\ \A i \in 1..n - 1 : queue'[i] = queue[i + 1]
  BY <1>1
<1>3. \A i \in 1..n : queue[i] \in Events
  BY <1>1
<1> HIDE DEF n
<1>4. \A i \in DOMAIN queue' : i \in Nat /\ i >= 1 /\ i + 1 \in DOMAIN queue /\ queue'[i] = queue[i + 1]
  BY <1>1, <1>2
<1>5. \A i \in DOMAIN queue : i # 1 => i - 1 \in DOMAIN queue' /\ queue'[i - 1] = queue[i]
  <2> SUFFICES ASSUME NEW i \in 1..n, i # 1 PROVE i - 1 \in 1..n - 1 /\ queue'[i - 1] = queue[i]
    BY <1>1, <1>2
  <2>1. i - 1 \in 1..n - 1 /\ (i - 1) + 1 = i
    BY <1>1
  <2> QED BY <1>2, <2>1
<1> QED BY <1>1, <1>3, <1>4, <1>5

\* Its events of each kind move up with it.
LEMMA TakenKinds ==
  ASSUME queue \in Seq(Events), queue # <<>>, queue' = Tail(queue)
  PROVE  /\ \A i \in Calling' : i + 1 \in Calling
         /\ \A i \in Samples' : i + 1 \in Samples
         /\ \A i \in Calling : i # 1 => i - 1 \in Calling'
         /\ \A i \in Samples : i # 1 => i - 1 \in Samples'
         /\ 1 \in Calling <=> Head(queue).kind \in {"start", "stop", "quit"}
         /\ 1 \in Samples <=> Head(queue).kind = "sample"
BY Taken DEF Calling, Samples

\* A sender appends; what was there stays where it was.
LEMMA Sent ==
  ASSUME queue \in Seq(Events), NEW e \in Events, queue' = Append(queue, e)
  PROVE  /\ queue' \in Seq(Events) /\ Last \in Nat /\ Last \notin DOMAIN queue
         /\ DOMAIN queue' = DOMAIN queue \cup {Last} /\ queue'[Last] = e
         /\ \A i \in DOMAIN queue : i \in Nat /\ i < Last /\ queue'[i] = queue[i]
<1> DEFINE n == Len(queue)
<1>1. n \in Nat /\ DOMAIN queue = 1..n /\ queue' \in Seq(Events)
  OBVIOUS
<1>2. Len(queue') = n + 1 /\ DOMAIN queue' = 1..n + 1 /\ queue'[n + 1] = e
      /\ \A i \in 1..n : queue'[i] = queue[i]
  BY <1>1
<1> HIDE DEF n
<1>3. Last = n + 1
  BY DEF Last, n
<1> QED BY <1>1, <1>2, <1>3

\* The events of each kind are those there were, and perhaps the new one.
LEMMA SentKinds ==
  ASSUME queue \in Seq(Events), NEW e \in Events, queue' = Append(queue, e)
  PROVE  /\ e.kind \in {"start", "stop", "quit"} => Calling' = Calling \cup {Last}
         /\ e.kind \notin {"start", "stop", "quit"} => Calling' = Calling
         /\ e.kind = "sample" => Samples' = Samples \cup {Last}
         /\ e.kind # "sample" => Samples' = Samples
         /\ \A i \in Calling \cup Samples : i \in DOMAIN queue /\ i < Last
BY Sent DEF Calling, Samples

\* Every event is one of the five kinds and carries a number.
LEMMA EventTypes ==
  \A kind \in {"start", "stop", "sample", "flushed", "quit"}, of \in Nat :
    /\ Event(kind, of) \in Events
    /\ Event(kind, of).kind = kind /\ Event(kind, of).of = of
BY DEF Event, Events

-----------------------------------------------------------------------------
(* Types.                                                                   *)

\* The records of TypeOK.
ClientSet ==
    [at : {"idle", "starting", "undo", "stopping", "joining", "gone"},
     call : 0..MaxCalls, granted : SUBSET Nat]

WorkerSet ==
    [at : {"recv", "start", "check", "reply", "ended"}, call : 0..MaxCalls, result : {"ok", "error"},
     running : BOOLEAN, stopping : 0..MaxCalls, session : Nat]

ReaderSet == [reads : Seq(Nat), flushing : BOOLEAN, lost : BOOLEAN]

\* TypeOK in the records' names.
LEMMA Typed ==
  TypeOK <=> /\ hub \in Hub /\ client \in ClientSet /\ cancelled \subseteq Calls
             /\ answer \in [Calls -> {"none", "ok", "error"}] /\ queue \in Seq(Events)
             /\ worker \in WorkerSet /\ reader \in ReaderSet
BY DEF TypeOK, ClientSet, WorkerSet, ReaderSet

\* The same of the state a step leads to.
LEMMA TypedNext ==
  /\ hub' \in Hub /\ client' \in ClientSet /\ cancelled' \subseteq Calls
  /\ answer' \in [Calls -> {"none", "ok", "error"}] /\ queue' \in Seq(Events)
  /\ worker' \in WorkerSet /\ reader' \in ReaderSet
  => TypeOK'
BY DEF TypeOK, ClientSet, WorkerSet, ReaderSet

\* new_selected leaves a worker that waits for events.
LEMMA MfInvInit ==
  ASSUME Parameters, Init
  PROVE  MfInv
<1>1. TypeOK
  <2>1. hub \in Hub
    BY DEF Init, HubIdle, Hub
  <2>2. 0 \in 0..MaxCalls /\ queue \in Seq(Events) /\ <<>> \in Seq(Nat)
    BY DEF Init, Parameters
  <2> QED BY <2>1, <2>2 DEF Init, TypeOK
<1>2. Calling = {} /\ Samples = {} /\ DOMAIN queue = {}
  BY DEF Init, Calling, Samples
<1>3. CallsMade /\ CallsInOrder /\ WorkerInCall /\ FlushLast
  BY <1>2 DEF Init, CallsMade, CallsInOrder, WorkerInCall, FlushLast, Calls
<1>4. CleanToStart /\ NoStaleSample /\ Claimed /\ LiveIsRunning
  BY <1>2 DEF Init, CleanToStart, NoStaleSample, Claimed, LiveIsRunning, HubIdle
<1> QED BY <1>1, <1>3, <1>4 DEF MfInv

\* The messages in the channel are events, whoever sends or takes one.
LEMMA QueueTypes ==
  ASSUME Parameters, TypeOK, Next
  PROVE  queue' \in Seq(Events)
<1> USE DEF TypeOK
<1>1. client.call \in Nat /\ (client.call < MaxCalls => client.call + 1 \in Nat)
  BY DEF Parameters
<1>2. CASE Start
  <2>1. queue' = Append(queue, Event("start", client.call + 1)) /\ client.call < MaxCalls
    BY <1>2 DEF Start, SendCall
  <2> QED BY <1>1, <2>1, EventTypes, Sent
<1>3. CASE Stop
  <2>1. queue' = Append(queue, Event("stop", client.call + 1)) /\ client.call < MaxCalls
    BY <1>3 DEF Stop, SendCall
  <2> QED BY <1>1, <2>1, EventTypes, Sent
<1>4. CASE StartUndo
  BY <1>1, <1>4, EventTypes, Sent DEF StartUndo
<1>5. CASE Drop
  BY <1>5, EventTypes, Sent DEF Drop
<1>6. CASE Deliver
  <2>1. Head(reader.reads) \in Nat
    BY <1>6 DEF Deliver
  <2> QED BY <1>6, <2>1, EventTypes, Sent DEF Deliver, Native
<1>7. CASE Flushed
  BY <1>7, EventTypes, Sent DEF Flushed, Native
<1>8. CASE TakeStart \/ TakeStop \/ TakeFlushed \/ TakeSample \/ TakeLastSample
  <2>1. queue # <<>> /\ queue' = Tail(queue)
    BY <1>8 DEF TakeStart, TakeStop, TakeFlushed, TakeSample, TakeLastSample, Takes
  <2> QED BY <2>1, Taken
<1>9. CASE TakeQuit
  BY <1>9 DEF TakeQuit
<1> QED BY <1>2, <1>3, <1>4, <1>5, <1>6, <1>7, <1>8, <1>9
     DEF Next, WorkerStep, StartAgain, vars, StartAnswered, StartTimesOut, StopReturns, DropJoins,
         SessionStopsHub, StartsStream, StartRefused, StartChecked, StartReplied, DeviceLost

\* Every step of the client keeps the types.
LEMMA ClientTypes ==
  ASSUME Parameters, TypeOK, CallsMade,
         \/ StartAgain \/ Start \/ StartAnswered \/ StartTimesOut \/ StartUndo
         \/ Stop \/ StopReturns \/ Drop \/ DropJoins \/ SessionStopsHub
  PROVE  TypeOK'
<1>1. queue' \in Seq(Events)
  BY QueueTypes DEF Next
<1>2. HubStop(hub) \in Hub
  BY HubSteps DEF TypeOK
<1> USE Typed, TypedNext
<1>3. CASE StartAgain
  BY <1>3 DEF StartAgain, vars
<1>4. CASE Start \/ Stop
  <2>1. \E at \in {"starting", "stopping"} :
          client.call < MaxCalls /\ client' = [client EXCEPT !.at = at, !.call = @ + 1]
    BY <1>4 DEF Start, Stop, SendCall
  <2>2. client' \in ClientSet
    <3>1. client.call \in 0..MaxCalls /\ (client.call < MaxCalls => client.call + 1 \in 0..MaxCalls)
      BY DEF ClientSet, Parameters
    <3> QED BY <2>1, <3>1 DEF ClientSet
  <2> QED BY <1>1, <1>2, <1>4, <2>2 DEF Start, Stop
<1>5. CASE StartAnswered
  <2>1. client' \in ClientSet
    BY <1>5 DEF StartAnswered, ClientSet, WorkerSet
  <2> QED BY <1>1, <1>5, <2>1 DEF StartAnswered
<1>6. CASE StartTimesOut
  <2>1. client' \in ClientSet /\ client.call \in 0..MaxCalls
    BY <1>6 DEF StartTimesOut, ClientSet, Client
  <2>2. cancelled' \subseteq Calls
    BY <1>6, <2>1 DEF StartTimesOut, TypeOK, CallsMade
  <2> QED BY <1>1, <1>6, <2>1, <2>2 DEF StartTimesOut
<1>7. CASE StartUndo \/ StopReturns \/ Drop \/ DropJoins
  <2>1. client' \in ClientSet
    BY <1>7 DEF StartUndo, StopReturns, Drop, DropJoins, ClientSet, Client
  <2> QED BY <1>1, <1>2, <1>7, <2>1 DEF StartUndo, StopReturns, Drop, DropJoins
<1>8. CASE SessionStopsHub
  BY <1>1, <1>2, <1>8 DEF SessionStopsHub
<1> QED BY <1>3, <1>4, <1>5, <1>6, <1>7, <1>8

\* Every step of the worker and of the reader keeps the types.
LEMMA WorkerTypes ==
  ASSUME Parameters, TypeOK, CallsMade, CallsInOrder, WorkerInCall,
         WorkerStep \/ Deliver \/ Flushed \/ DeviceLost
  PROVE  TypeOK'
<1>1. queue' \in Seq(Events)
  BY QueueTypes DEF Next
<1>2. HubStop(hub) \in Hub /\ HubStart(hub) \in Hub /\ HubStart(hub).session \in Nat
      /\ HubStop(HubStart(hub)) \in Hub /\ HubStop(HubStart(hub)).session \in Nat
  BY HubSteps DEF TypeOK
<1> USE Typed, TypedNext
<1>3. CASE TakeStart
  <2>1. Head(queue).of \in Calls
    BY <1>3, Taken DEF TypeOK, CallsInOrder, TakeStart, Takes, Calls, Parameters
  <2> DEFINE n == Head(queue).of
  <2>2. /\ answer' = [answer EXCEPT ![n] = "error"] \/ answer' = answer
        /\ worker' = worker \/ worker' = [worker EXCEPT !.at = "start", !.call = n]
    BY <1>3 DEF TakeStart, Reply
  <2>3. n \in Calls /\ n \in 0..MaxCalls
    BY <2>1 DEF Calls
  <2> HIDE DEF n
  <2>4. worker' \in WorkerSet /\ answer' \in [Calls -> {"none", "ok", "error"}]
    BY <2>2, <2>3 DEF WorkerSet
  <2> QED BY <1>1, <1>3, <2>4 DEF TakeStart
<1>4. CASE StartsStream
  <2>1. worker' \in WorkerSet /\ hub' \in Hub
    BY <1>2, <1>4 DEF StartsStream, WorkerSet
  <2>2. Append(reader.reads, HubStart(hub).session) \in Seq(Nat)
    BY <1>2 DEF ReaderSet
  <2>3. reader' \in ReaderSet
    BY <1>4, <2>2 DEF StartsStream, ReaderSet
  <2> QED BY <1>1, <1>4, <2>1, <2>3 DEF StartsStream
<1>5. CASE StartRefused
  <2>1. worker' \in WorkerSet /\ hub' \in Hub
    BY <1>2, <1>5 DEF StartRefused, WorkerSet
  <2> QED BY <1>1, <1>5, <2>1 DEF StartRefused
<1>6. CASE StartChecked
  <2>1. worker' \in WorkerSet /\ hub' \in Hub
    BY <1>2, <1>6 DEF StartChecked, WorkerSet
  <2> QED BY <1>1, <1>6, <2>1 DEF StartChecked
<1>7. CASE StartReplied
  <2>1. worker.call \in Calls
    BY <1>7 DEF StartReplied, WorkerInCall
  <2>2. worker' \in WorkerSet /\ answer' \in [Calls -> {"none", "ok", "error"}]
    BY <1>7, <2>1 DEF StartReplied, WorkerSet, Reply
  <2> QED BY <1>1, <1>7, <2>2 DEF StartReplied
<1>8. CASE TakeStop
  <2>1. Head(queue).of \in Calls
    BY <1>8, Taken DEF TypeOK, CallsInOrder, TakeStop, Takes, Calls, Parameters
  <2> DEFINE n == Head(queue).of
  <2>4. /\ answer' = [answer EXCEPT ![n] = "error"] \/ answer' = answer
        /\ \/ worker' = [worker EXCEPT !.running = FALSE]
           \/ worker' = [worker EXCEPT !.running = FALSE, !.stopping = n]
    BY <1>8 DEF TakeStop, Reply
  <2>5. n \in Calls /\ n \in 0..MaxCalls
    BY <2>1 DEF Calls
  <2> HIDE DEF n
  <2>2. worker' \in WorkerSet /\ answer' \in [Calls -> {"none", "ok", "error"}]
    BY <2>4, <2>5 DEF WorkerSet
  <2>3. reader' \in ReaderSet
    BY <1>8 DEF TakeStop, ReaderSet
  <2> QED BY <1>1, <1>2, <1>8, <2>2, <2>3 DEF TakeStop
<1>9. CASE TakeFlushed
  <2> DEFINE n == worker.stopping
  <2>1. /\ worker' = [worker EXCEPT !.stopping = 0]
        /\ answer' = answer \/ (n # 0 /\ answer' = [answer EXCEPT ![n] = "ok"])
    BY <1>9 DEF TakeFlushed, Reply
  <2>2. worker' \in WorkerSet
    BY <2>1 DEF WorkerSet, Parameters
  <2>3. n \in 0..MaxCalls
    BY DEF WorkerSet
  <2> HIDE DEF n
  <2>4. answer' \in [Calls -> {"none", "ok", "error"}]
    BY <2>1, <2>3 DEF Calls, Parameters, TypeOK
  <2> QED BY <1>1, <1>9, <2>2, <2>4 DEF TakeFlushed
<1>10. CASE TakeSample
  <2>1. Append(reader.reads, worker.session) \in Seq(Nat)
    BY DEF ReaderSet, WorkerSet
  <2>2. reader' \in ReaderSet
    BY <1>10, <2>1 DEF TakeSample, ReaderSet
  <2> QED BY <1>1, <1>10, <2>2 DEF TakeSample
<1>11. CASE TakeLastSample
  <2>1. worker' \in WorkerSet
    BY <1>11 DEF TakeLastSample, WorkerSet
  <2> QED BY <1>1, <1>2, <1>11, <2>1 DEF TakeLastSample
<1>12. CASE TakeQuit
  <2>1. worker' \in WorkerSet /\ reader' \in ReaderSet
    <3>1. <<>> \in Seq(Nat)
      OBVIOUS
    <3> QED BY <1>12, <3>1 DEF TakeQuit, WorkerSet, ReaderSet
  <2> QED BY <1>1, <1>2, <1>12, <2>1 DEF TakeQuit
<1>13. CASE Deliver \/ Flushed \/ DeviceLost
  <2>1. <<>> \in Seq(Nat) /\ (reader.reads # <<>> => Tail(reader.reads) \in Seq(Nat))
    BY DEF ReaderSet
  <2>2. reader' \in ReaderSet
    BY <1>13, <2>1 DEF Deliver, Flushed, DeviceLost, ReaderSet
  <2> QED BY <1>1, <1>13, <2>2 DEF Deliver, Flushed, DeviceLost, Native
<1> QED BY <1>3, <1>4, <1>5, <1>6, <1>7, <1>8, <1>9, <1>10, <1>11, <1>12, <1>13 DEF WorkerStep

-----------------------------------------------------------------------------
(* The calls and their order.                                               *)

\* The calls and numbers that TypeOK bounds are naturals.
LEMMA Numbers ==
  ASSUME Parameters, TypeOK
  PROVE  /\ client.call \in Nat /\ client.call <= MaxCalls /\ MaxCalls \in Nat
         /\ worker.stopping \in Nat /\ worker.session \in Nat /\ hub.session \in Nat
         /\ Calls \subseteq Nat
BY HubSteps DEF TypeOK, Parameters, Calls

\* A stop in the channel is of a call made before any start that is waited for.
LEMMA HeadCall ==
  ASSUME Parameters, TypeOK, CallsMade, CallsInOrder, queue # <<>>, Head(queue).kind \in {"start", "stop"}
  PROVE  /\ Head(queue).of \in Calls /\ Head(queue).of <= client.call
         /\ Head(queue).kind = "stop" /\ client.at = "starting" => Head(queue).of # client.call
         /\ Head(queue).kind = "start" /\ Head(queue).of \notin cancelled =>
              /\ client.at = "starting" /\ client.call = Head(queue).of
              /\ answer[client.call] = "none" /\ \A j \in Calling : j <= 1
<1>1. 1 \in DOMAIN queue /\ Head(queue) = queue[1]
  BY Taken DEF TypeOK
<1>2. Head(queue).of \in 1..client.call
  BY <1>1 DEF CallsInOrder
<1>3. Head(queue).of \in Calls /\ Head(queue).of <= client.call
  BY <1>2, Numbers DEF Calls
<1> QED BY <1>1, <1>3 DEF CallsInOrder

\* Every step keeps the calls and the answers in step.
LEMMA MadeStep ==
  ASSUME Parameters, MfInv, Next
  PROVE  CallsMade'
<1> USE DEF MfInv
<1>1. /\ client \in ClientSet /\ answer \in [Calls -> {"none", "ok", "error"}] /\ worker \in WorkerSet
      /\ client.call \in Nat /\ client.call <= MaxCalls /\ MaxCalls \in Nat
      /\ worker.stopping \in Nat /\ Calls \subseteq Nat
  BY Typed, Numbers
<1>2. CASE Start \/ Stop
  <2>1. \E at \in {"starting", "stopping"} :
          client.call < MaxCalls /\ client' = [client EXCEPT !.at = at, !.call = @ + 1]
    BY <1>2 DEF Start, Stop, SendCall
  <2>2. /\ client'.call = client.call + 1 /\ client'.call \in Calls
        /\ client'.at \in {"starting", "stopping"}
    BY <1>1, <2>1 DEF ClientSet, Calls
  <2>3. UNCHANGED <<cancelled, answer, worker>>
    BY <1>2 DEF Start, Stop
  <2> QED BY <1>1, <2>2, <2>3 DEF CallsMade
<1>3. CASE StartAnswered
  BY <1>1, <1>3 DEF StartAnswered, CallsMade, ClientSet
<1>4. CASE StartTimesOut
  BY <1>1, <1>4 DEF StartTimesOut, Client, CallsMade, ClientSet, Calls
<1>5. CASE StartUndo \/ StopReturns \/ Drop \/ DropJoins
  BY <1>1, <1>5 DEF StartUndo, StopReturns, Drop, DropJoins, Client, CallsMade, ClientSet
<1>6. CASE TakeStart \/ TakeStop
  <2> DEFINE n == Head(queue).of
  <2>1. /\ n \in Calls /\ n <= client.call
        /\ TakeStop /\ client.at = "starting" => n # client.call
    BY <1>6, HeadCall DEF TakeStart, TakeStop, Takes
  <2>2. /\ UNCHANGED <<client, cancelled>>
        /\ answer' = [answer EXCEPT ![n] = "error"] \/ answer' = answer
        /\ \/ worker'.stopping = worker.stopping
           \/ TakeStop /\ worker'.stopping = n
    BY <1>1, <1>6 DEF TakeStart, TakeStop, Reply, WorkerSet
  <2> HIDE DEF n
  <2>3. \A m \in Calls : m > client.call => answer'[m] = answer[m]
    BY <1>1, <2>1, <2>2
  <2> QED BY <1>1, <2>1, <2>2, <2>3 DEF CallsMade
<1>7. CASE TakeFlushed
  <2>1. UNCHANGED <<client, cancelled>> /\ worker'.stopping = 0
    BY <1>1, <1>7 DEF TakeFlushed, WorkerSet
  <2>2. \A m \in Calls : m > client.call => answer'[m] = answer[m]
    BY <1>1, <1>7 DEF TakeFlushed, Reply, CallsMade
  <2> QED BY <1>1, <2>1, <2>2 DEF CallsMade, Calls
<1>8. CASE StartReplied
  <2>1. UNCHANGED <<client, cancelled>> /\ worker'.stopping = worker.stopping
    BY <1>1, <1>8 DEF StartReplied, WorkerSet
  <2>2. worker.call <= client.call /\ worker.call \in Calls
    BY <1>1, <1>8 DEF StartReplied, WorkerInCall, CallsMade
  <2>3. \A m \in Calls : m > client.call => answer'[m] = answer[m]
    BY <1>1, <1>8, <2>2 DEF StartReplied, Reply
  <2> QED BY <1>1, <2>1, <2>3 DEF CallsMade
<1>9. CASE StartsStream \/ StartRefused \/ StartChecked \/ TakeSample \/ TakeLastSample \/ TakeQuit
  <2>1. UNCHANGED <<client, cancelled, answer>> /\ worker'.stopping = worker.stopping
    BY <1>1, <1>9 DEF StartsStream, StartRefused, StartChecked, TakeSample, TakeLastSample, TakeQuit, WorkerSet
  <2> QED BY <2>1 DEF CallsMade
<1> QED BY <1>2, <1>3, <1>4, <1>5, <1>6, <1>7, <1>8, <1>9
     DEF Next, WorkerStep, StartAgain, SessionStopsHub, Deliver, Flushed, DeviceLost, Native, vars, CallsMade

\* An event is taken: the order of the rest is what it was.
LEMMA OrderTaken ==
  ASSUME TypeOK, CallsInOrder, queue # <<>>, queue' = Tail(queue), UNCHANGED <<client, cancelled>>,
         client.at = "starting" => answer'[client.call] = answer[client.call]
  PROVE  CallsInOrder'
<1> SUFFICES ASSUME NEW i \in DOMAIN queue'
    PROVE  /\ queue'[i].kind \in {"start", "stop"} => queue'[i].of \in 1..client.call
           /\ queue'[i].kind = "stop" /\ client.at = "starting" => queue'[i].of # client.call
           /\ queue'[i].kind = "start" /\ queue'[i].of \notin cancelled =>
                /\ client.at = "starting" /\ client.call = queue'[i].of /\ answer'[client.call] = "none"
                /\ \A j \in Calling' : j <= i
  BY DEF CallsInOrder
<1>1. i \in Nat /\ i >= 1 /\ i + 1 \in DOMAIN queue /\ queue'[i] = queue[i + 1]
  BY Taken DEF TypeOK
<1>2. \A j \in Calling' : j \in Nat /\ j + 1 \in Calling
  BY Taken, TakenKinds DEF TypeOK, Calling
<1> QED BY <1>1, <1>2 DEF CallsInOrder

\* An event that is no start is sent, of no call that somebody waits for.
LEMMA OrderSent ==
  ASSUME Parameters, TypeOK, CallsInOrder, NEW e \in Events, queue' = Append(queue, e),
         UNCHANGED <<cancelled, answer>>,
         \/ client' = client /\ e.kind \in {"sample", "flushed"}
         \/ /\ client.at # "starting" /\ client'.at # "starting" /\ e.kind # "start"
            /\ client'.call \in Nat /\ client'.call >= client.call
            /\ e.kind = "stop" => e.of \in 1..client'.call
  PROVE  CallsInOrder'
<1>1. client.call \in Nat /\ client'.call \in Nat
  BY Numbers
<1> SUFFICES ASSUME NEW i \in DOMAIN queue'
    PROVE  /\ queue'[i].kind \in {"start", "stop"} => queue'[i].of \in 1..client'.call
           /\ queue'[i].kind = "stop" /\ client'.at = "starting" => queue'[i].of # client'.call
           /\ queue'[i].kind = "start" /\ queue'[i].of \notin cancelled =>
                /\ client'.at = "starting" /\ client'.call = queue'[i].of /\ answer[client'.call] = "none"
                /\ \A j \in Calling' : j <= i
  BY DEF CallsInOrder
<1>2. CASE i = Last
  BY <1>2, Sent DEF TypeOK
<1>3. CASE i \in DOMAIN queue
  <2>1. queue'[i] = queue[i]
    BY <1>3, Sent DEF TypeOK
  <2>2. client'.at = "starting" => client' = client /\ Calling' = Calling
    BY SentKinds DEF TypeOK
  <2> QED BY <1>1, <1>3, <2>1, <2>2 DEF CallsInOrder
<1> QED BY <1>2, <1>3, Sent DEF TypeOK

\* Every step keeps the calls of the channel in order.
LEMMA OrderStep ==
  ASSUME Parameters, MfInv, Next
  PROVE  CallsInOrder'
<1> USE DEF MfInv
<1>1. /\ client \in ClientSet /\ answer \in [Calls -> {"none", "ok", "error"}] /\ worker \in WorkerSet
      /\ client.call \in Nat /\ client.call <= MaxCalls /\ MaxCalls \in Nat
      /\ worker.stopping \in Nat /\ Calls \subseteq Nat /\ reader \in ReaderSet
  BY Typed, Numbers
<1>2. CASE Start
  <2> DEFINE e == Event("start", client.call + 1)
  <2>1. /\ client.at = "idle" /\ queue' = Append(queue, e) /\ UNCHANGED <<cancelled, answer>>
        /\ client.call < MaxCalls /\ client' = [client EXCEPT !.at = "starting", !.call = @ + 1]
    BY <1>2 DEF Start, SendCall
  <2>2. client'.at = "starting" /\ client'.call = client.call + 1
    BY <1>1, <2>1 DEF ClientSet
  <2>3. client'.call \in Calls /\ answer[client'.call] = "none"
    BY <1>1, <2>1, <2>2 DEF Calls, CallsMade
  <2>4. e \in Events /\ e.kind = "start" /\ e.of = client'.call
    BY <1>1, <2>2, EventTypes
  <2> HIDE DEF e
  <2>5. ASSUME NEW i \in DOMAIN queue
        PROVE  /\ queue'[i] = queue[i]
               /\ queue[i].kind = "start" => queue[i].of \in cancelled
               /\ queue[i].kind \in {"start", "stop"} => queue[i].of \in 1..client.call
    BY <2>1, <2>4, Sent DEF TypeOK, CallsInOrder
  <2>6. DOMAIN queue' = DOMAIN queue \cup {Last} /\ queue'[Last] = e /\ Last \in Nat
        /\ \A j \in Calling' : j <= Last
    BY <2>1, <2>4, Sent, SentKinds DEF TypeOK
  <2> SUFFICES ASSUME NEW i \in DOMAIN queue'
      PROVE  /\ queue'[i].kind \in {"start", "stop"} => queue'[i].of \in 1..client'.call
             /\ queue'[i].kind = "stop" => queue'[i].of # client'.call
             /\ queue'[i].kind = "start" /\ queue'[i].of \notin cancelled =>
                  client'.call = queue'[i].of /\ \A j \in Calling' : j <= i
    BY <2>1, <2>2, <2>3 DEF CallsInOrder
  <2>7. CASE i = Last
    BY <1>1, <2>2, <2>3, <2>4, <2>6, <2>7 DEF Calls
  <2>8. CASE i \in DOMAIN queue
    BY <1>1, <2>2, <2>5, <2>8
  <2> QED BY <2>6, <2>7, <2>8
<1>3. CASE Stop
  <2> DEFINE e == Event("stop", client.call + 1)
  <2>1. /\ client.at = "idle" /\ queue' = Append(queue, e) /\ UNCHANGED <<cancelled, answer>>
        /\ client.call < MaxCalls /\ client' = [client EXCEPT !.at = "stopping", !.call = @ + 1]
    BY <1>3 DEF Stop, SendCall
  <2>2. client'.at = "stopping" /\ client'.call = client.call + 1
    BY <1>1, <2>1 DEF ClientSet
  <2>3. e \in Events /\ e.kind = "stop" /\ e.of \in 1..client'.call
    BY <1>1, <2>2, EventTypes
  <2> QED BY <1>1, <2>1, <2>2, <2>3, OrderSent
<1>4. CASE StartUndo
  <2> DEFINE e == Event("stop", client.call)
  <2>1. /\ client.at = "undo" /\ queue' = Append(queue, e) /\ UNCHANGED <<cancelled, answer>>
        /\ client'.at = "idle" /\ client'.call = client.call
    BY <1>1, <1>4 DEF StartUndo, Client, ClientSet
  <2>2. e \in Events /\ e.kind = "stop" /\ e.of \in 1..client.call
    BY <1>1, <2>1, EventTypes DEF CallsMade, Calls
  <2> QED BY <1>1, <2>1, <2>2, OrderSent
<1>5. CASE Drop
  <2> DEFINE e == Event("quit", 0)
  <2>1. /\ client.at = "idle" /\ queue' = Append(queue, e) /\ UNCHANGED <<cancelled, answer>>
        /\ client'.at = "joining" /\ client'.call = client.call
    BY <1>1, <1>5 DEF Drop, Client, ClientSet
  <2>2. e \in Events /\ e.kind = "quit"
    BY EventTypes
  <2> QED BY <1>1, <2>1, <2>2, OrderSent
<1>6. CASE Deliver
  <2>1. Head(reader.reads) \in Nat
    BY <1>1, <1>6 DEF Deliver, ReaderSet
  <2> QED BY <1>6, <2>1, EventTypes, OrderSent DEF Deliver, Native
<1>7. CASE Flushed
  BY <1>7, EventTypes, OrderSent DEF Flushed, Native
<1>8. CASE StartAnswered
  <2>1. client.at = "starting" /\ client'.at = "idle" /\ client'.call = client.call
        /\ UNCHANGED <<queue, cancelled, answer>> /\ answer[client.call] # "none"
    BY <1>1, <1>8 DEF StartAnswered, ClientSet
  <2> QED BY <2>1 DEF CallsInOrder
<1>9. CASE StartTimesOut
  <2>1. client.at = "starting" /\ client'.at = "undo" /\ client'.call = client.call
        /\ UNCHANGED <<queue, answer>> /\ cancelled' = cancelled \cup {client.call}
    BY <1>1, <1>9 DEF StartTimesOut, Client, ClientSet
  <2> QED BY <2>1 DEF CallsInOrder
<1>10. CASE StopReturns \/ DropJoins
  <2>1. client.at # "starting" /\ client'.at # "starting" /\ client'.call = client.call
        /\ UNCHANGED <<queue, answer, cancelled>>
    BY <1>1, <1>10 DEF StopReturns, DropJoins, Client, ClientSet
  <2> QED BY <2>1 DEF CallsInOrder
<1>11. CASE TakeStart \/ TakeStop
  <2> DEFINE n == Head(queue).of
  <2>1. /\ queue # <<>> /\ queue' = Tail(queue) /\ UNCHANGED <<client, cancelled>>
        /\ Head(queue).kind = IF TakeStop THEN "stop" ELSE "start"
        /\ answer' = answer \/ (answer' = [answer EXCEPT ![n] = "error"] /\ (TakeStop \/ n \in cancelled))
    BY <1>11 DEF TakeStart, TakeStop, Takes, Reply
  <2>2. n \in Calls /\ (TakeStop /\ client.at = "starting" => n # client.call)
    BY <2>1, HeadCall
  <2> HIDE DEF n
  <2>3. client.at = "starting" => answer'[client.call] = answer[client.call]
    BY <1>1, <2>1, <2>2 DEF CallsMade
  <2> QED BY <2>1, <2>3, OrderTaken
<1>12. CASE TakeFlushed
  <2>1. client.at = "starting" => answer'[client.call] = answer[client.call]
    BY <1>1, <1>12 DEF TakeFlushed, Reply, CallsMade
  <2> QED BY <1>12, <2>1, OrderTaken DEF TakeFlushed, Takes
<1>13. CASE TakeSample \/ TakeLastSample
  BY <1>13, OrderTaken DEF TakeSample, TakeLastSample, Takes
<1>14. CASE TakeQuit
  BY <1>14 DEF TakeQuit, CallsInOrder
<1>15. CASE StartReplied
  <2>1. UNCHANGED <<queue, client, cancelled>> /\ worker.call \in Calls
        /\ answer' = [answer EXCEPT ![worker.call] = worker.result]
    BY <1>15 DEF StartReplied, WorkerInCall, Reply
  <2>2. CASE worker.call \in cancelled
    <3>1. client.at = "starting" => answer'[client.call] = answer[client.call]
      BY <1>1, <2>1, <2>2 DEF CallsMade
    <3> QED BY <2>1, <3>1 DEF CallsInOrder, Calling
  <2>3. CASE worker.call \notin cancelled
    <3>1. Calling = {}
      BY <1>15, <2>3 DEF StartReplied, WorkerInCall
    <3> QED BY <2>1, <3>1 DEF CallsInOrder, Calling
  <2> QED BY <2>2, <2>3
<1>16. CASE UNCHANGED <<queue, client, cancelled, answer>>
  BY <1>16 DEF CallsInOrder, Calling
<1>17. \/ StartAgain \/ SessionStopsHub \/ DeviceLost \/ StartsStream \/ StartRefused \/ StartChecked
       => UNCHANGED <<queue, client, cancelled, answer>>
  BY DEF StartAgain, SessionStopsHub, DeviceLost, StartsStream, StartRefused, StartChecked, vars
<1> QED BY <1>2, <1>3, <1>4, <1>5, <1>6, <1>7, <1>8, <1>9, <1>10, <1>11, <1>12, <1>13, <1>14, <1>15,
           <1>16, <1>17 DEF Next, WorkerStep

-----------------------------------------------------------------------------
(* A start that was given up has its stop ahead of it.                      *)

\* A message that is sent stays behind the stop; the stop itself may be it.
LEMMA StopFirstSent ==
  ASSUME TypeOK, StopFirst, NEW e \in Events, queue' = Append(queue, e),
         \/ client' = client /\ e.kind \in {"sample", "flushed"}
         \/ e.kind = "stop"
         \/ client.at # "undo"
  PROVE  StopFirst'
<1>1. /\ queue'[Last] = e /\ \A i \in DOMAIN queue : i < Last /\ queue'[i] = queue[i]
      /\ Last \in Nat /\ DOMAIN queue \subseteq Nat
  BY Sent DEF TypeOK
<1>2. /\ e.kind \in {"start", "stop", "quit"} => Calling' = Calling \cup {Last}
      /\ e.kind \notin {"start", "stop", "quit"} => Calling' = Calling
      /\ \A i \in Calling : i \in DOMAIN queue /\ i < Last
  BY SentKinds DEF TypeOK
<1>3. CASE \E i \in Calling : queue[i].kind = "stop" /\ \A j \in Calling : i <= j
  <2>1. PICK i \in Calling : queue[i].kind = "stop" /\ \A j \in Calling : i <= j
    BY <1>3
  <2>2. i \in Calling' /\ queue'[i].kind = "stop" /\ \A j \in Calling' : i <= j
    BY <1>1, <1>2, <2>1
  <2> QED BY <2>2 DEF StopFirst
<1>4. CASE client.at = "undo" /\ Calling = {}
  <2>1. CASE e.kind = "stop"
    <3>1. Last \in Calling' /\ queue'[Last].kind = "stop" /\ \A j \in Calling' : Last <= j
      BY <1>1, <1>2, <1>4, <2>1
    <3> QED BY <3>1 DEF StopFirst
  <2>2. CASE e.kind \in {"sample", "flushed"}
    BY <1>2, <1>4, <2>2 DEF StopFirst
  <2> QED BY <1>4, <2>1, <2>2
<1> QED BY <1>3, <1>4 DEF StopFirst

\* An event that is no call is taken from before the stop.
LEMMA StopFirstTaken ==
  ASSUME TypeOK, StopFirst, queue # <<>>, queue' = Tail(queue), UNCHANGED client,
         Head(queue).kind \in {"sample", "flushed"}
  PROVE  StopFirst'
<1>1. /\ \A i \in Calling' : i + 1 \in Calling
      /\ \A i \in Calling : i # 1 => i - 1 \in Calling'
      /\ 1 \notin Calling
  BY TakenKinds DEF TypeOK
<1>2. /\ \A i \in DOMAIN queue : i # 1 => queue'[i - 1] = queue[i]
      /\ DOMAIN queue \subseteq Nat /\ \A i \in DOMAIN queue' : i \in Nat
      /\ Calling \subseteq DOMAIN queue /\ Calling' \subseteq DOMAIN queue'
  BY Taken DEF TypeOK, Calling
<1>3. CASE client.at = "undo" /\ Calling = {}
  <2>1. Calling' = {}
    BY <1>1, <1>3
  <2> QED BY <1>3, <2>1 DEF StopFirst
<1>4. CASE \E i \in Calling : queue[i].kind = "stop" /\ \A j \in Calling : i <= j
  <2>1. PICK i \in Calling : queue[i].kind = "stop" /\ \A j \in Calling : i <= j
    BY <1>4
  <2>2. i # 1 /\ i \in Nat /\ i - 1 \in Calling' /\ queue'[i - 1].kind = "stop"
    BY <1>1, <1>2, <2>1
  <2>3. ASSUME NEW j \in Calling' PROVE i - 1 <= j
    <3>1. j \in Nat /\ i <= j + 1
      BY <1>1, <1>2, <2>1
    <3> QED BY <2>2, <3>1
  <2> QED BY <2>2, <2>3 DEF StopFirst
<1> QED BY <1>3, <1>4 DEF StopFirst

\* The next call taken is that stop, no start.
LEMMA StopFirstTakes ==
  ASSUME TypeOK, StopFirst, queue # <<>>, Head(queue).kind = "start"
  PROVE  FALSE
<1>1. Head(queue) = queue[1] /\ 1 \in DOMAIN queue /\ \A i \in DOMAIN queue : i \in Nat /\ i >= 1
  BY DEF TypeOK
<1>2. 1 \in Calling
  BY <1>1 DEF Calling
<1>3. PICK i \in Calling : queue[i].kind = "stop" /\ \A j \in Calling : i <= j
  BY <1>2 DEF StopFirst
<1>4. i = 1
  BY <1>1, <1>2, <1>3 DEF Calling
<1> QED BY <1>1, <1>3, <1>4

\* Every step that is not the worker's keeps the stop ahead of a start given up.
LEMMA StopFirstKept ==
  ASSUME Parameters, TypeOK, StopFirst,
         \/ StartAgain \/ Start \/ StartAnswered \/ StartTimesOut \/ StartUndo
         \/ Stop \/ StopReturns \/ Drop \/ DropJoins \/ SessionStopsHub
         \/ Deliver \/ Flushed \/ DeviceLost
  PROVE  StopFirst'
<1>1. client \in ClientSet /\ client.call \in Nat /\ reader \in ReaderSet
  BY Typed, Numbers
<1>2. CASE Start \/ Stop
  <2>1. /\ client.at # "undo"
        /\ \E kind \in {"start", "stop"} : queue' = Append(queue, Event(kind, client.call + 1))
    BY <1>1, <1>2 DEF Start, Stop, SendCall, ClientSet
  <2>2. \A kind \in {"start", "stop"} : Event(kind, client.call + 1) \in Events
    BY <1>1, EventTypes
  <2> QED BY <2>1, <2>2, StopFirstSent
<1>3. CASE StartUndo
  <2>1. Event("stop", client.call) \in Events /\ Event("stop", client.call).kind = "stop"
    BY <1>1, EventTypes
  <2> QED BY <1>3, <2>1, StopFirstSent DEF StartUndo
<1>4. CASE Drop
  <2>1. Event("quit", 0) \in Events /\ client.at # "undo"
    BY <1>4, EventTypes DEF Drop
  <2> QED BY <1>4, <2>1, StopFirstSent DEF Drop
<1>5. CASE Deliver
  <2>1. Head(reader.reads) \in Nat
    BY <1>1, <1>5 DEF Deliver, ReaderSet
  <2> QED BY <1>5, <2>1, EventTypes, StopFirstSent DEF Deliver, Native
<1>6. CASE Flushed
  BY <1>6, EventTypes, StopFirstSent DEF Flushed, Native
<1>7. CASE StartAnswered \/ StartTimesOut \/ StopReturns \/ DropJoins
  <2>1. UNCHANGED queue /\ client.at # "undo"
    BY <1>7 DEF StartAnswered, StartTimesOut, StopReturns, DropJoins
  <2> QED BY <2>1 DEF StopFirst, Calling
<1>8. CASE UNCHANGED <<queue, client>>
  BY <1>8 DEF StopFirst, Calling
<1> QED BY <1>2, <1>3, <1>4, <1>5, <1>6, <1>7, <1>8 DEF StartAgain, SessionStopsHub, DeviceLost, vars

\* The records the reads are described by, and what one read leaves.
LEMMA Reads ==
  ASSUME TypeOK
  PROVE  /\ reader \in ReaderSet /\ worker \in WorkerSet /\ client \in ClientSet
         /\ reader.reads \in Seq(Nat)
         /\ reader.reads # <<>> => Head(reader.reads) \in Nat /\ Tail(reader.reads) \in Seq(Nat)
BY Typed DEF ReaderSet

\* Who sends what: a call from the client, an event from Media Foundation.
LEMMA Sends ==
  ASSUME Parameters, TypeOK
  PROVE  /\ Start \/ Stop \/ StartUndo \/ Drop =>
              \E e \in Events : /\ queue' = Append(queue, e) /\ e.kind \in {"start", "stop", "quit"}
                                /\ (StartUndo => e.kind = "stop")
         /\ Deliver => \E e \in Events : /\ queue' = Append(queue, e) /\ e.kind = "sample"
                                         /\ e.of = Head(reader.reads)
         /\ Flushed => \E e \in Events : queue' = Append(queue, e) /\ e.kind = "flushed"
<1>1. client.call \in Nat /\ client.call + 1 \in Nat
  BY Numbers
<1>2. ASSUME Start \/ Stop
      PROVE  \E e \in Events : queue' = Append(queue, e) /\ e.kind \in {"start", "stop", "quit"} /\ ~StartUndo
  <2>1. /\ client.at # "undo"
        /\ \E kind \in {"start", "stop"} : queue' = Append(queue, Event(kind, client.call + 1))
    <3>1. client \in ClientSet
      BY Typed
    <3> QED BY <1>1, <1>2, <3>1 DEF Start, Stop, SendCall, ClientSet
  <2> QED BY <1>1, <2>1, EventTypes DEF StartUndo
<1>3. ASSUME StartUndo PROVE \E e \in Events : queue' = Append(queue, e) /\ e.kind = "stop"
  BY <1>1, <1>3, EventTypes DEF StartUndo
<1>4. ASSUME Drop PROVE \E e \in Events : queue' = Append(queue, e) /\ e.kind = "quit" /\ ~StartUndo
  BY <1>4, EventTypes DEF Drop, StartUndo
<1>5. ASSUME Deliver PROVE \E e \in Events : /\ queue' = Append(queue, e) /\ e.kind = "sample"
                                              /\ e.of = Head(reader.reads)
  BY <1>5, EventTypes, Reads DEF Deliver, Native
<1>6. ASSUME Flushed PROVE \E e \in Events : queue' = Append(queue, e) /\ e.kind = "flushed"
  BY <1>6, EventTypes DEF Flushed, Native
<1> QED BY <1>2, <1>3, <1>4, <1>5, <1>6

\* Every step keeps the worker in a call that is waited for or will be stopped.
LEMMA InCallStep ==
  ASSUME Parameters, MfInv, Next
  PROVE  WorkerInCall'
<1> USE DEF MfInv
<1>1. /\ client \in ClientSet /\ answer \in [Calls -> {"none", "ok", "error"}] /\ worker \in WorkerSet
      /\ client.call \in Nat /\ reader \in ReaderSet
  BY Typed, Numbers
<1>2. CASE WorkerStep
  <2>1. CASE TakeStart
    <3>1. CASE Head(queue).of \in cancelled
      BY <1>1, <2>1, <3>1 DEF TakeStart, Takes, WorkerInCall
    <3>2. CASE Head(queue).of \notin cancelled
      <4>1. /\ worker'.at = "start" /\ worker'.call = Head(queue).of
            /\ queue # <<>> /\ queue' = Tail(queue) /\ Head(queue).kind = "start"
            /\ UNCHANGED <<client, cancelled, answer>>
        BY <1>1, <2>1, <3>2 DEF TakeStart, Takes, WorkerSet
      <4>2. /\ Head(queue).of \in Calls /\ client.at = "starting" /\ client.call = Head(queue).of
            /\ answer[client.call] = "none" /\ \A j \in Calling : j <= 1
        BY <3>2, <4>1, HeadCall
      <4>3. \A j \in Calling' : j \in Nat /\ j >= 1 /\ j + 1 \in Calling
        BY <4>1, Taken, TakenKinds DEF TypeOK, Calling
      <4>4. Calling' = {}
        BY <4>2, <4>3
      <4> QED BY <3>2, <4>1, <4>2, <4>4 DEF WorkerInCall
    <3> QED BY <3>1, <3>2
  <2>2. CASE StartsStream \/ StartRefused \/ StartChecked
    <3>1. worker.at \in {"start", "check"} /\ worker'.call = worker.call
          /\ UNCHANGED <<client, cancelled, answer, queue>>
      BY <1>1, <2>2 DEF StartsStream, StartRefused, StartChecked, WorkerSet
    <3> QED BY <3>1 DEF WorkerInCall, StopFirst, Calling
  <2>3. CASE StartReplied
    BY <1>1, <2>3 DEF StartReplied, WorkerInCall, WorkerSet
  <2>4. CASE TakeStop \/ TakeFlushed \/ TakeSample \/ TakeLastSample \/ TakeQuit
    <3>1. worker'.at \in {"recv", "ended"}
      BY <1>1, <2>4 DEF TakeStop, TakeFlushed, TakeSample, TakeLastSample, TakeQuit, Takes, WorkerSet
    <3> QED BY <3>1 DEF WorkerInCall
  <2> QED BY <1>2, <2>1, <2>2, <2>3, <2>4 DEF WorkerStep
<1>3. CASE ~WorkerStep
  <2>1. worker' = worker
    BY <1>3 DEF Next, StartAgain, Start, StartAnswered, StartTimesOut, StartUndo, Stop, StopReturns, Drop,
         DropJoins, SessionStopsHub, Deliver, Flushed, Native, DeviceLost, vars
  <2> SUFFICES ASSUME worker.at \in {"start", "check", "reply"}
      PROVE  /\ worker.call \in Calls
             /\ worker.call \in cancelled' => StopFirst'
             /\ worker.call \notin cancelled' =>
                  /\ client'.at = "starting" /\ client'.call = worker.call
                  /\ answer'[worker.call] = "none" /\ Calling' = {}
    BY <2>1 DEF WorkerInCall
  <2>2. worker.call \in Calls /\ cancelled \subseteq cancelled'
    BY <1>3 DEF WorkerInCall, Next, StartAgain, Start, StartAnswered, StartTimesOut, StartUndo, Stop,
         StopReturns, Drop, DropJoins, SessionStopsHub, Deliver, Flushed, Native, DeviceLost, vars
  <2>3. CASE worker.call \in cancelled
    BY <1>3, <2>2, <2>3, StopFirstKept DEF WorkerInCall, Next
  <2>4. CASE worker.call \notin cancelled
    <3>1. /\ client.at = "starting" /\ client.call = worker.call
          /\ answer[worker.call] = "none" /\ Calling = {}
      BY <2>4 DEF WorkerInCall
    <3>2. CASE StartTimesOut
      <4>1. client'.at = "undo" /\ Calling' = {} /\ worker.call \in cancelled'
        BY <1>1, <3>1, <3>2 DEF StartTimesOut, Client, ClientSet, Calling
      <4> QED BY <2>2, <4>1 DEF StopFirst
    <3>3. CASE Deliver \/ Flushed
      <4>1. UNCHANGED <<client, cancelled, answer>>
        BY <3>3 DEF Deliver, Flushed, Native
      <4>2. PICK e \in Events : queue' = Append(queue, e) /\ e.kind \in {"sample", "flushed"}
        BY <3>3, Sends
      <4>3. Calling' = Calling
        BY <4>2, SentKinds DEF TypeOK
      <4> QED BY <2>2, <2>4, <3>1, <4>1, <4>3
    <3>4. CASE UNCHANGED <<client, cancelled, answer, queue>>
      BY <2>2, <2>4, <3>1, <3>4 DEF Calling
    <3> QED BY <1>3, <3>1, <3>2, <3>3, <3>4
         DEF Next, StartAgain, Start, StartAnswered, StartUndo, Stop, StopReturns, Drop, DropJoins,
             SessionStopsHub, DeviceLost, vars
  <2> QED BY <2>3, <2>4
<1> QED BY <1>2, <1>3

-----------------------------------------------------------------------------
(* Reads, samples and flushes.                                              *)

\* The steps of the worker that take an event of the channel.
Takers == TakeStart \/ TakeStop \/ TakeFlushed \/ TakeSample \/ TakeLastSample

\* Which step takes an event depends on its kind alone.
LEMMA TakersTake ==
  ASSUME Takers
  PROVE  /\ queue # <<>> /\ queue' = Tail(queue) /\ worker.at = "recv"
         /\ TakeStart <=> Head(queue).kind = "start"
         /\ TakeStop <=> Head(queue).kind = "stop"
         /\ TakeFlushed <=> Head(queue).kind = "flushed"
         /\ TakeSample \/ TakeLastSample <=> Head(queue).kind = "sample"
BY DEF Takers, TakeStart, TakeStop, TakeFlushed, TakeSample, TakeLastSample, Takes

\* What a client's step leaves to the worker and the reader.
LEMMA ClientOnly ==
  ASSUME \/ StartAgain \/ Start \/ StartAnswered \/ StartTimesOut \/ StartUndo
         \/ Stop \/ StopReturns \/ Drop \/ DropJoins \/ SessionStopsHub
  PROVE  /\ UNCHANGED <<worker, reader>>
         /\ Start \/ Stop \/ StartUndo \/ Drop \/ UNCHANGED queue
         /\ hub' = hub \/ hub' = HubStop(hub)
BY DEF StartAgain, Start, StartAnswered, StartTimesOut, StartUndo, Stop, StopReturns, Drop, DropJoins,
       SessionStopsHub, vars

\* A call that is sent is no event of the reader.
LEMMA CallSent ==
  ASSUME Parameters, TypeOK, Start \/ Stop \/ StartUndo \/ Drop
  PROVE  /\ Samples' = Samples
         /\ \A i \in DOMAIN queue' : \/ i \in DOMAIN queue /\ queue'[i] = queue[i]
                                     \/ queue'[i].kind \in {"start", "stop", "quit"}
         /\ \A i \in DOMAIN queue : i \in DOMAIN queue' /\ queue'[i] = queue[i]
<1>1. PICK e \in Events : queue' = Append(queue, e) /\ e.kind \in {"start", "stop", "quit"}
  BY Sends
<1>2. queue \in Seq(Events)
  BY DEF TypeOK
<1> QED BY <1>1, <1>2, Sent, SentKinds

\* Every step keeps the flush before its event, and its event after the reads.
LEMMA FlushStep ==
  ASSUME Parameters, MfInv, Next
  PROVE  FlushLast'
<1> USE DEF MfInv
<1>1. /\ worker \in WorkerSet /\ reader \in ReaderSet /\ queue \in Seq(Events)
  BY Typed
<1>2. CASE \/ StartAgain \/ Start \/ StartAnswered \/ StartTimesOut \/ StartUndo
           \/ Stop \/ StopReturns \/ Drop \/ DropJoins \/ SessionStopsHub
  <2>1. UNCHANGED <<worker, reader>>
    BY <1>2, ClientOnly
  <2>2. CASE UNCHANGED queue
    BY <2>1, <2>2 DEF FlushLast
  <2>3. CASE Start \/ Stop \/ StartUndo \/ Drop
    <3> SUFFICES ASSUME NEW i \in DOMAIN queue', queue'[i].kind = "flushed"
                 PROVE  /\ worker.stopping # 0 /\ ~reader.flushing /\ reader.reads = <<>>
                        /\ \A j \in DOMAIN queue' : i < j => queue'[j].kind \notin {"sample", "flushed"}
      BY <2>1 DEF FlushLast
    <3>1. i \in DOMAIN queue /\ queue[i].kind = "flushed"
      BY <2>3, CallSent
    <3>2. \A j \in DOMAIN queue' : \/ j \in DOMAIN queue /\ queue'[j] = queue[j]
                                   \/ queue'[j].kind \in {"start", "stop", "quit"}
      BY <2>3, CallSent
    <3> QED BY <3>1, <3>2 DEF FlushLast
  <2> QED BY <1>2, <2>2, <2>3, ClientOnly
<1>3. CASE StartsStream
  <2>1. /\ worker.stopping = 0 /\ ~reader.flushing /\ UNCHANGED queue
        /\ worker'.stopping = 0 /\ ~reader'.flushing
    BY <1>1, <1>3 DEF StartsStream, MayStart, FlushLast, WorkerSet, ReaderSet
  <2> QED BY <2>1 DEF FlushLast
<1>4. CASE StartRefused \/ StartChecked \/ StartReplied \/ DeviceLost
  <2>1. /\ UNCHANGED queue /\ worker'.stopping = worker.stopping
        /\ worker'.running => worker.running
        /\ reader'.flushing = reader.flushing /\ reader'.reads = reader.reads
    BY <1>1, <1>4 DEF StartRefused, StartChecked, StartReplied, DeviceLost, WorkerSet, ReaderSet
  <2> QED BY <2>1 DEF FlushLast
<1>5. CASE Takers
  <2>1. /\ queue # <<>> /\ queue' = Tail(queue)
    BY <1>5, TakersTake
  <2>2. \A i \in DOMAIN queue' : i \in Nat /\ i >= 1 /\ i + 1 \in DOMAIN queue /\ queue'[i] = queue[i + 1]
    BY <1>1, <2>1, Taken
  <2>3. \A i \in DOMAIN queue' : queue'[i].kind = "flushed" =>
          /\ worker.stopping # 0 /\ ~reader.flushing /\ reader.reads = <<>> /\ ~worker.running
          /\ \A j \in DOMAIN queue' : i < j => queue'[j].kind \notin {"sample", "flushed"}
    <3> SUFFICES ASSUME NEW i \in DOMAIN queue', queue'[i].kind = "flushed"
                 PROVE  /\ worker.stopping # 0 /\ ~reader.flushing /\ reader.reads = <<>> /\ ~worker.running
                        /\ \A j \in DOMAIN queue' : i < j => queue'[j].kind \notin {"sample", "flushed"}
      OBVIOUS
    <3>1. i + 1 \in DOMAIN queue /\ queue[i + 1].kind = "flushed" /\ i \in Nat
      BY <2>2
    <3>2. ASSUME NEW j \in DOMAIN queue', i < j PROVE queue'[j].kind \notin {"sample", "flushed"}
      <4>1. j \in Nat /\ j + 1 \in DOMAIN queue /\ queue'[j] = queue[j + 1] /\ i + 1 < j + 1
        BY <2>2, <3>1, <3>2
      <4> QED BY <3>1, <4>1 DEF FlushLast
    <3> QED BY <3>1, <3>2 DEF FlushLast
  <2>4. CASE TakeStart \/ TakeSample \/ TakeLastSample
    <3>1. /\ worker'.stopping = worker.stopping /\ worker'.running => worker.running
          /\ reader'.flushing = reader.flushing
          /\ worker.running \/ reader'.reads = reader.reads
      BY <1>1, <2>4 DEF TakeStart, TakeSample, TakeLastSample, WorkerSet, ReaderSet
    <3>2. worker.running => worker.stopping = 0
      BY DEF FlushLast
    <3>3. (reader.flushing => worker.stopping # 0) /\ worker'.stopping = worker.stopping
          /\ (worker'.running => worker.running)
      BY <1>1, <2>4 DEF FlushLast, TakeStart, TakeSample, TakeLastSample, WorkerSet
    <3> QED BY <2>3, <3>1, <3>2, <3>3 DEF FlushLast
  <2>5. CASE TakeStop
    <3>1. ~worker'.running
      BY <1>1, <2>5 DEF TakeStop, WorkerSet
    <3>2. CASE worker.stopping # 0 \/ reader.lost
      <4>1. worker'.stopping = worker.stopping /\ reader' = reader
        BY <1>1, <2>5, <3>2 DEF TakeStop, WorkerSet
      <4> QED BY <2>3, <3>1, <4>1 DEF FlushLast
    <3>3. CASE worker.stopping = 0 /\ ~reader.lost
      <4>1. worker'.stopping = Head(queue).of /\ Head(queue).of \in Calls
        BY <1>1, <2>1, <2>5, <3>3, HeadCall DEF TakeStop, Takes, WorkerSet
      <4> QED BY <2>3, <3>1, <3>3, <4>1 DEF FlushLast, Calls
    <3> QED BY <3>2, <3>3
  <2>6. CASE TakeFlushed
    <3>1. Head(queue) = queue[1] /\ 1 \in DOMAIN queue /\ queue[1].kind = "flushed"
      BY <1>1, <2>1, <2>6, Taken DEF TakeFlushed, Takes
    <3>2. \A i \in DOMAIN queue' : queue'[i].kind # "flushed"
      <4> SUFFICES ASSUME NEW i \in DOMAIN queue' PROVE queue'[i].kind # "flushed"
        OBVIOUS
      <4>1. i \in Nat /\ i >= 1 /\ i + 1 \in DOMAIN queue /\ queue'[i] = queue[i + 1] /\ 1 < i + 1
        BY <2>2
      <4> QED BY <3>1, <4>1 DEF FlushLast
    <3>3. ~reader.flushing /\ ~worker.running
      BY <3>1 DEF FlushLast
    <3>4. reader' = reader /\ worker'.running = worker.running
      BY <1>1, <2>6 DEF TakeFlushed, WorkerSet
    <3> QED BY <3>2, <3>3, <3>4 DEF FlushLast
  <2> QED BY <1>5, <2>4, <2>5, <2>6 DEF Takers
<1>6. CASE TakeQuit
  <2>1. DOMAIN queue' = {} /\ ~worker'.running /\ ~reader'.flushing
    BY <1>1, <1>6 DEF TakeQuit, WorkerSet, ReaderSet
  <2> QED BY <2>1 DEF FlushLast
<1>7. CASE Deliver
  <2>1. PICK e \in Events : queue' = Append(queue, e) /\ e.kind = "sample"
    BY <1>7, Sends
  <2>2. /\ reader.reads # <<>> /\ worker' = worker /\ reader'.flushing = reader.flushing
    BY <1>1, <1>7 DEF Deliver, Native, ReaderSet
  <2>3. \A i \in DOMAIN queue' : queue'[i].kind # "flushed"
    BY <1>1, <2>1, <2>2, Sent DEF FlushLast
  <2> QED BY <2>2, <2>3 DEF FlushLast
<1>8. CASE Flushed
  <2>1. PICK e \in Events : queue' = Append(queue, e) /\ e.kind = "flushed"
    BY <1>8, Sends
  <2>2. /\ reader.flushing /\ worker' = worker /\ ~reader'.flushing /\ reader'.reads = <<>>
    BY <1>1, <1>8 DEF Flushed, Native, ReaderSet
  <2>3. worker.stopping # 0 /\ ~worker.running /\ \A i \in DOMAIN queue : queue[i].kind # "flushed"
    BY <2>2 DEF FlushLast
  <2>4. \A i \in DOMAIN queue' : /\ queue'[i].kind = "flushed" => i = Last
                                 /\ i \in Nat /\ i <= Last
    BY <1>1, <2>1, <2>3, Sent
  <2>5. Last \in Nat
    BY <1>1, <2>1, Sent
  <2>6. \A i, j \in DOMAIN queue' : queue'[i].kind = "flushed" => ~(i < j)
    BY <2>4, <2>5
  <2> QED BY <2>2, <2>3, <2>6 DEF FlushLast
<1> QED BY <1>2, <1>3, <1>4, <1>5, <1>6, <1>7, <1>8 DEF Next, WorkerStep, Takers

\* The worker takes an event that is no sample: the samples are what they were.
LEMMA SamplesKept ==
  ASSUME TypeOK, Takers, Head(queue).kind # "sample"
  PROVE  Samples = {} => Samples' = {}
<1>1. \A i \in Samples' : i + 1 \in Samples
  BY TakersTake, TakenKinds DEF TypeOK
<1> QED BY <1>1

\* The one sample there is is taken.
LEMMA SampleTaken ==
  ASSUME TypeOK, Takers, Head(queue).kind = "sample", \A i, j \in Samples : i = j
  PROVE  Samples' = {} /\ 1 \in Samples
<1>1. 1 \in Samples /\ \A i \in Samples' : i \in Nat /\ i >= 1 /\ i + 1 \in Samples
  BY TakersTake, Taken, TakenKinds DEF TypeOK, Samples
<1>2. ASSUME NEW i \in Samples' PROVE FALSE
  <2>1. i + 1 = 1 /\ i \in Nat /\ i >= 1
    BY <1>1
  <2> QED BY <2>1
<1> QED BY <1>1, <1>2

\* Every step leaves a worker that could start without read or sample.
LEMMA CleanStep ==
  ASSUME Parameters, MfInv, Next
  PROVE  CleanToStart'
<1> USE DEF MfInv
<1>1. /\ worker \in WorkerSet /\ reader \in ReaderSet /\ client \in ClientSet /\ queue \in Seq(Events)
  BY Typed
<1> SUFFICES ASSUME ~worker'.running, worker'.stopping = 0, ~reader'.lost
             PROVE  (reader'.reads = <<>> /\ Samples' = {}) \/ (worker'.at # "start" /\ StopFirst')
  BY DEF CleanToStart
<1>2. CASE \/ StartAgain \/ Start \/ StartAnswered \/ StartTimesOut \/ StartUndo
           \/ Stop \/ StopReturns \/ Drop \/ DropJoins \/ SessionStopsHub
  <2>1. UNCHANGED <<worker, reader>>
    BY <1>2, ClientOnly
  <2>2. Samples' = Samples
    BY <1>2, ClientOnly, CallSent DEF Samples
  <2>3. StopFirst => StopFirst'
    BY <1>2, StopFirstKept
  <2> QED BY <2>1, <2>2, <2>3 DEF CleanToStart
<1>3. CASE StartsStream
  BY <1>1, <1>3 DEF StartsStream, WorkerSet
<1>4. CASE StartRefused
  <2>1. /\ worker.at = "start" /\ UNCHANGED <<reader, queue>>
        /\ worker.running = worker'.running /\ worker.stopping = worker'.stopping
    BY <1>1, <1>4 DEF StartRefused, WorkerSet
  <2> QED BY <2>1 DEF CleanToStart, Samples
<1>5. CASE StartChecked
  <2>1. /\ worker.at = "check" /\ worker'.at = "reply" /\ UNCHANGED <<reader, queue, client>>
        /\ worker.stopping = worker'.stopping
        /\ worker.running => worker.call \in cancelled
    BY <1>1, <1>5 DEF StartChecked, WorkerSet
  <2>2. StopFirst => StopFirst'
    BY <2>1 DEF StopFirst, Calling
  <2>3. CASE worker.running
    BY <2>1, <2>2, <2>3 DEF WorkerInCall
  <2>4. CASE ~worker.running
    BY <2>1, <2>2, <2>4 DEF CleanToStart, Samples
  <2> QED BY <2>3, <2>4
<1>6. CASE StartReplied
  <2>1. /\ worker'.at = "recv" /\ UNCHANGED <<reader, queue, client>>
        /\ worker.running = worker'.running /\ worker.stopping = worker'.stopping
    BY <1>1, <1>6 DEF StartReplied, WorkerSet
  <2> QED BY <2>1 DEF CleanToStart, Samples, StopFirst, Calling
<1>7. CASE TakeStart
  <2>1. /\ Head(queue).kind = "start" /\ queue # <<>> /\ UNCHANGED reader
        /\ worker.running = worker'.running /\ worker.stopping = worker'.stopping
    BY <1>1, <1>7 DEF TakeStart, Takes, WorkerSet
  <2>2. reader.reads = <<>> /\ Samples = {}
    BY <2>1, StopFirstTakes DEF CleanToStart
  <2> QED BY <1>7, <2>1, <2>2, SamplesKept DEF Takers
<1>8. CASE TakeStop
  <2>1. queue # <<>> /\ Head(queue).kind = "stop"
    BY <1>8 DEF TakeStop, Takes
  <2>2. Head(queue).of # 0
    BY <2>1, HeadCall DEF Calls
  <2> QED BY <1>1, <1>8, <2>2 DEF TakeStop, WorkerSet, ReaderSet
<1>9. CASE TakeFlushed
  <2>1. queue # <<>> /\ queue' = Tail(queue) /\ Head(queue).kind = "flushed" /\ UNCHANGED reader
    BY <1>9 DEF TakeFlushed, Takes
  <2>2. Head(queue) = queue[1] /\ 1 \in DOMAIN queue
    BY <1>1, <2>1, Taken
  <2>3. reader.reads = <<>> /\ \A j \in DOMAIN queue : 1 < j => queue[j].kind # "sample"
    BY <2>1, <2>2 DEF FlushLast
  <2>4. \A i \in Samples' : i \in Nat /\ i >= 1 /\ i + 1 \in DOMAIN queue /\ queue[i + 1].kind = "sample"
    BY <1>1, <2>1, Taken DEF Samples
  <2>5. Samples' = {}
    BY <2>3, <2>4
  <2> QED BY <2>1, <2>3, <2>5
<1>10. CASE TakeSample
  <2>1. /\ Head(queue).kind = "sample" /\ queue # <<>> /\ queue' = Tail(queue) /\ worker' = worker
        /\ client' = client /\ reader' = reader /\ 1 \in Samples /\ worker.at = "recv"
    BY <1>1, <1>10, TakenKinds DEF TakeSample, Takes
  <2>2. StopFirst
    BY <2>1 DEF CleanToStart
  <2>3. StopFirst'
    BY <2>1, <2>2, StopFirstTaken
  <2> QED BY <2>1, <2>3
<1>11. CASE TakeLastSample
  <2>1. /\ Head(queue).kind = "sample" /\ worker.running /\ reader' = reader
    BY <1>11 DEF TakeLastSample, Takes
  <2>2. Samples' = {} /\ 1 \in Samples
    BY <1>11, <2>1, SampleTaken DEF Takers, NoStaleSample
  <2>3. reader.reads = <<>>
    BY <2>1, <2>2 DEF NoStaleSample
  <2> QED BY <2>1, <2>2, <2>3
<1>12. CASE TakeQuit
  BY <1>1, <1>12 DEF TakeQuit, ReaderSet, Samples
<1>13. CASE Deliver
  <2>1. reader.reads # <<>> /\ worker' = worker /\ reader'.lost = reader.lost
    BY <1>1, <1>13 DEF Deliver, Native, ReaderSet
  <2>2. worker.at # "start" /\ StopFirst
    BY <2>1 DEF CleanToStart
  <2>4. StopFirst'
    <3>1. PICK e \in Events : queue' = Append(queue, e) /\ e.kind = "sample"
      BY <1>13, Sends
    <3> QED BY <1>13, <2>2, <3>1, StopFirstSent DEF Deliver, Native
  <2> QED BY <2>1, <2>2, <2>4
<1>14. CASE Flushed
  BY <1>14 DEF Flushed, Native, FlushLast
<1>15. CASE DeviceLost
  BY <1>1, <1>15 DEF DeviceLost, ReaderSet
<1> QED BY <1>2, <1>3, <1>4, <1>5, <1>6, <1>7, <1>8, <1>9, <1>10, <1>11, <1>12, <1>13, <1>14, <1>15
     DEF Next, WorkerStep

\* A read there is, when there is one at most, is one.
LEMMA AtMostOne ==
  ASSUME NEW n \in Nat, n # 0, n <= 1
  PROVE  n = 1
OBVIOUS

\* A sequence of one read.
LEMMA OneRead ==
  ASSUME NEW r \in Seq(Nat), r # <<>>, Len(r) <= 1
  PROVE  1 \in DOMAIN r /\ Head(r) = r[1] /\ Tail(r) = <<>>
<1>1. Len(r) = 1 /\ DOMAIN r = 1..Len(r)
  <2>1. Len(r) \in Nat /\ Len(r) # 0
    BY EmptySeq
  <2>2. Len(r) = 1
    BY <2>1, AtMostOne
  <2>3. DOMAIN r = 1..Len(r)
    BY LenProperties
  <2> QED BY <2>2, <2>3
<1>2. 1 \in DOMAIN r /\ Head(r) = r[1]
  BY <1>1
<1>3. Tail(r) \in Seq(Nat) /\ Len(Tail(r)) = 0
  BY <1>1
<1>4. Tail(r) = <<>>
  BY <1>3
<1> QED BY <1>2, <1>4

\* Every step leaves a running stream its own read or its own sample.
LEMMA StaleStep ==
  ASSUME Parameters, MfInv, Next
  PROVE  NoStaleSample'
<1> USE DEF MfInv
<1>1. /\ worker \in WorkerSet /\ reader \in ReaderSet /\ queue \in Seq(Events) /\ reader.reads \in Seq(Nat)
  BY Typed, Reads
<1> SUFFICES ASSUME worker'.running
    PROVE  /\ Len(reader'.reads) <= 1 /\ (reader'.reads # <<>> => Samples' = {})
           /\ \A i, j \in Samples' : i = j
           /\ \A i \in DOMAIN reader'.reads : reader'.reads[i] = worker'.session
           /\ \A i \in Samples' : queue'[i].of = worker'.session
  BY DEF NoStaleSample
<1>2. CASE \/ StartAgain \/ Start \/ StartAnswered \/ StartTimesOut \/ StartUndo
           \/ Stop \/ StopReturns \/ Drop \/ DropJoins \/ SessionStopsHub
  <2>1. UNCHANGED <<worker, reader>>
    BY <1>2, ClientOnly
  <2>2. Samples' = Samples /\ \A i \in Samples : queue'[i] = queue[i]
    BY <1>2, ClientOnly, CallSent DEF Samples
  <2> QED BY <2>1, <2>2 DEF NoStaleSample
<1>3. ASSUME reader'.reads = <<worker'.session>>, Samples' = {}
      PROVE  /\ Len(reader'.reads) <= 1 /\ (reader'.reads # <<>> => Samples' = {})
             /\ \A i, j \in Samples' : i = j
             /\ \A i \in DOMAIN reader'.reads : reader'.reads[i] = worker'.session
             /\ \A i \in Samples' : queue'[i].of = worker'.session
  BY <1>3
<1>4. CASE StartsStream
  <2>1. /\ worker.at = "start" /\ ~worker.running /\ worker.stopping = 0 /\ ~reader.lost
        /\ UNCHANGED queue /\ worker'.session = hub'.session
        /\ reader'.reads = Append(reader.reads, hub'.session)
    BY <1>1, <1>4 DEF StartsStream, MayStart, WorkerSet, ReaderSet
  <2>2. reader.reads = <<>> /\ Samples = {}
    BY <2>1 DEF CleanToStart
  <2> QED BY <1>3, <2>1, <2>2 DEF Samples
<1>5. CASE StartRefused \/ StartChecked \/ StartReplied
  <2>1. worker.running /\ UNCHANGED <<reader, queue>> /\ worker'.session = worker.session
    BY <1>1, <1>5 DEF StartRefused, MayStart, StartChecked, StartReplied, WorkerSet
  <2> QED BY <2>1 DEF NoStaleSample, Samples
<1>6. CASE TakeStart
  <2>1. /\ queue # <<>> /\ queue' = Tail(queue) /\ Head(queue).kind # "sample"
        /\ worker.running /\ worker'.session = worker.session /\ UNCHANGED reader
    BY <1>1, <1>6 DEF TakeStart, Takes, WorkerSet
  <2>2. \A i \in Samples' : i \in Nat /\ i + 1 \in Samples /\ queue'[i] = queue[i + 1]
    BY <1>1, <2>1, Taken, TakenKinds DEF Samples
  <2>3. \A i, j \in Samples' : i = j
    <3> SUFFICES ASSUME NEW i \in Samples', NEW j \in Samples' PROVE i = j
      OBVIOUS
    <3>1. i \in Nat /\ j \in Nat /\ i + 1 = j + 1
      BY <2>1, <2>2 DEF NoStaleSample
    <3> QED BY <3>1
  <2> QED BY <2>1, <2>2, <2>3 DEF NoStaleSample
<1>7. CASE TakeStop \/ TakeLastSample \/ TakeQuit
  BY <1>1, <1>7 DEF TakeStop, TakeLastSample, TakeQuit, WorkerSet
<1>8. CASE TakeFlushed
  <2>1. 1 \in DOMAIN queue /\ queue[1].kind = "flushed" /\ worker.running
    BY <1>1, <1>8, Taken DEF TakeFlushed, Takes, WorkerSet
  <2> QED BY <2>1 DEF FlushLast
<1>9. CASE TakeSample
  <2>1. /\ Head(queue).kind = "sample" /\ worker.running /\ worker'.session = worker.session
        /\ reader'.reads = Append(reader.reads, worker.session)
    BY <1>1, <1>9 DEF TakeSample, Takes, ReaderSet
  <2>2. Samples' = {} /\ 1 \in Samples
    BY <1>9, <2>1, SampleTaken DEF Takers, NoStaleSample
  <2>3. reader.reads = <<>>
    BY <2>1, <2>2 DEF NoStaleSample
  <2> QED BY <1>3, <2>1, <2>2, <2>3
<1>10. CASE Deliver
  <2>1. PICK e \in Events : queue' = Append(queue, e) /\ e.kind = "sample" /\ e.of = Head(reader.reads)
    BY <1>10, Sends
  <2>2. worker' = worker /\ reader.reads # <<>> /\ reader'.reads = Tail(reader.reads)
    BY <1>1, <1>10 DEF Deliver, Native, ReaderSet
  <2>3. worker.running /\ Len(reader.reads) <= 1 /\ Samples = {}
    BY <2>2 DEF NoStaleSample
  <2>4. Head(reader.reads) = worker.session /\ reader'.reads = <<>>
    BY <1>1, <2>2, <2>3, OneRead DEF NoStaleSample
  <2>5. Samples' = {Last} /\ queue'[Last] = e
    BY <1>1, <2>1, <2>3, Sent, SentKinds
  <2>6. Len(reader'.reads) = 0 /\ DOMAIN reader'.reads = {}
    BY <2>4
  <2>7. \A i, j \in Samples' : i = j
    BY <2>5
  <2>8. e.of = worker'.session /\ reader'.reads = <<>>
    BY <2>1, <2>2, <2>4
  <2>9. \A i \in Samples' : queue'[i].of = worker'.session
    BY <2>5, <2>8
  <2> HIDE DEF Last
  <2> QED BY <2>6, <2>7, <2>8, <2>9
<1>11. CASE Flushed
  BY <1>11 DEF Flushed, Native, FlushLast
<1>12. CASE DeviceLost
  <2>1. worker' = worker /\ queue' = queue /\ reader'.reads = reader.reads
    BY <1>1, <1>12 DEF DeviceLost, ReaderSet
  <2> QED BY <2>1 DEF NoStaleSample, Samples
<1> QED BY <1>2, <1>4, <1>5, <1>6, <1>7, <1>8, <1>9, <1>10, <1>11, <1>12 DEF Next, WorkerStep

-----------------------------------------------------------------------------
(* Whose stream it is.                                                      *)

\* A stop or quit in the channel stays there while other events are taken.
LEMMA EndsStay ==
  ASSUME TypeOK, Takers, Head(queue).kind \notin {"stop", "quit"},
         \E i \in DOMAIN queue : queue[i].kind \in {"stop", "quit"}
  PROVE  \E i \in DOMAIN queue' : queue'[i].kind \in {"stop", "quit"}
<1>1. PICK i \in DOMAIN queue : queue[i].kind \in {"stop", "quit"}
  OBVIOUS
<1>2. i # 1 /\ i - 1 \in DOMAIN queue' /\ queue'[i - 1] = queue[i]
  BY <1>1, TakersTake, Taken DEF TypeOK
<1> QED BY <1>1, <1>2

\* Every step keeps a running stream claimed.
LEMMA ClaimStep ==
  ASSUME Parameters, MfInv, Next
  PROVE  Claimed'
<1> USE DEF MfInv
<1>1. /\ worker \in WorkerSet /\ reader \in ReaderSet /\ client \in ClientSet /\ queue \in Seq(Events)
      /\ answer \in [Calls -> {"none", "ok", "error"}] /\ client.call \in Nat
  BY Typed, Numbers
<1> DEFINE Ended == \E i \in DOMAIN queue : queue[i].kind \in {"stop", "quit"}
<1> SUFFICES ASSUME worker'.running
    PROVE  \/ worker'.session \in client'.granted
           \/ worker'.at \in {"check", "reply"} /\ worker'.result = "ok"
           \/ client'.at = "starting" /\ answer'[client'.call] = "ok"
           \/ client'.at = "undo"
           \/ Ended'
  BY DEF Claimed
<1>2. CASE Start \/ Stop \/ StartUndo \/ Drop
  <2>1. /\ worker' = worker /\ client'.granted = client.granted
        /\ client.at = "idle" \/ StartUndo
    BY <1>1, <1>2 DEF Start, Stop, StartUndo, Drop, SendCall, Client, ClientSet
  <2>2. Ended => Ended'
    BY <1>2, CallSent
  <2>3. ASSUME StartUndo PROVE Ended'
    <3>1. PICK e \in Events : queue' = Append(queue, e) /\ e.kind = "stop"
      BY <2>3, Sends
    <3> QED BY <1>1, <3>1, Sent
  <2> QED BY <2>1, <2>2, <2>3 DEF Claimed
<1>3. CASE StartAnswered
  BY <1>1, <1>3 DEF StartAnswered, Claimed, ClientSet
<1>4. CASE StartTimesOut
  BY <1>1, <1>4 DEF StartTimesOut, Client, ClientSet
<1>5. CASE StopReturns \/ DropJoins
  <2>1. /\ UNCHANGED <<worker, queue>> /\ client'.granted = client.granted
        /\ client.at \in {"stopping", "joining"}
    BY <1>1, <1>5 DEF StopReturns, DropJoins, Client, ClientSet
  <2> QED BY <2>1 DEF Claimed
<1>6. CASE StartAgain \/ SessionStopsHub \/ DeviceLost
  <2>1. UNCHANGED <<worker, queue, client, answer>>
    BY <1>6 DEF StartAgain, SessionStopsHub, DeviceLost, vars
  <2> QED BY <2>1 DEF Claimed
<1>7. CASE Deliver \/ Flushed
  <2>1. UNCHANGED <<worker, client, answer>>
    BY <1>7 DEF Deliver, Flushed, Native
  <2>2. Ended => Ended'
    <3>1. \E e \in Events : queue' = Append(queue, e)
      BY <1>7, Sends
    <3> QED BY <1>1, <3>1, Sent
  <2> QED BY <2>1, <2>2 DEF Claimed
<1>8. CASE StartsStream
  BY <1>1, <1>8 DEF StartsStream, WorkerSet
<1>9. CASE StartRefused
  <2>1. worker.at = "start" /\ worker.running /\ worker'.session = worker.session
        /\ UNCHANGED <<client, queue, answer>>
    BY <1>1, <1>9 DEF StartRefused, MayStart, WorkerSet
  <2> QED BY <2>1 DEF Claimed
<1>10. CASE StartChecked
  <2>1. /\ worker.at = "check" /\ worker'.at = "reply" /\ worker.running
        /\ worker'.session = worker.session /\ worker'.result = worker.result
        /\ UNCHANGED <<client, queue, answer>>
    BY <1>1, <1>10 DEF StartChecked, WorkerSet
  <2> QED BY <2>1 DEF Claimed
<1>11. CASE StartReplied
  <2>1. /\ worker.at = "reply" /\ worker.running /\ worker'.session = worker.session
        /\ worker.call \in Calls /\ answer' = [answer EXCEPT ![worker.call] = worker.result]
        /\ UNCHANGED <<client, queue, cancelled>>
    BY <1>1, <1>11 DEF StartReplied, Reply, WorkerInCall, WorkerSet
  <2>2. CASE worker.call \in cancelled
    <3>1. client.at = "undo" \/ Ended
      BY <2>1, <2>2 DEF WorkerInCall, StopFirst, Calling
    <3> QED BY <2>1, <3>1
  <2>3. CASE worker.call \notin cancelled
    <3>1. client.at = "starting" /\ client.call = worker.call /\ answer[client.call] = "none"
      BY <2>1, <2>3 DEF WorkerInCall
    <3>2. answer'[client.call] = worker.result
      BY <1>1, <2>1, <3>1
    <3> QED BY <2>1, <3>1, <3>2 DEF Claimed
  <2> QED BY <2>2, <2>3
<1>12. CASE TakeStart
  <2> DEFINE n == Head(queue).of
  <2>1. /\ queue # <<>> /\ Head(queue).kind = "start" /\ worker.at = "recv"
        /\ worker.running /\ worker'.session = worker.session /\ UNCHANGED client
        /\ answer' = answer \/ (answer' = [answer EXCEPT ![n] = "error"] /\ n \in cancelled)
    BY <1>1, <1>12 DEF TakeStart, Takes, Reply, WorkerSet
  <2>2. n \in Calls
    BY <2>1, HeadCall
  <2> HIDE DEF n
  <2>3. client.at = "starting" => answer'[client.call] = answer[client.call]
    BY <1>1, <2>1, <2>2 DEF CallsMade
  <2>4. Ended => Ended'
    BY <1>12, <2>1, EndsStay DEF Takers
  <2> QED BY <2>1, <2>3, <2>4 DEF Claimed
<1>13. CASE TakeSample
  <2>1. Head(queue).kind = "sample" /\ UNCHANGED <<worker, client, answer>>
    BY <1>13 DEF TakeSample, Takes
  <2>2. Ended => Ended'
    BY <1>13, <2>1, EndsStay DEF Takers
  <2> QED BY <2>1, <2>2 DEF Claimed
<1>14. CASE TakeStop \/ TakeLastSample \/ TakeQuit
  BY <1>1, <1>14 DEF TakeStop, TakeLastSample, TakeQuit, WorkerSet
<1>15. CASE TakeFlushed
  <2>1. 1 \in DOMAIN queue /\ queue[1].kind = "flushed" /\ worker.running
    BY <1>1, <1>15, Taken DEF TakeFlushed, Takes, WorkerSet
  <2> QED BY <2>1 DEF FlushLast
<1> QED BY <1>2, <1>3, <1>4, <1>5, <1>6, <1>7, <1>8, <1>9, <1>10, <1>11, <1>12, <1>13, <1>14, <1>15
     DEF Next, WorkerStep

\* Every step that ends a stream ends its hub, and a start sets both.
LEMMA LiveStep ==
  ASSUME Parameters, MfInv, Next
  PROVE  LiveIsRunning'
<1> USE DEF MfInv, LiveIsRunning
<1>1. worker \in WorkerSet /\ hub \in Hub
  BY Typed
<1>2. /\ ~HubStop(hub).active /\ ~HubStop(HubStart(hub)).active
  BY <1>1, HubSteps
<1>3. CASE \/ StartAgain \/ Start \/ StartAnswered \/ StartTimesOut \/ StartUndo
           \/ Stop \/ StopReturns \/ Drop \/ DropJoins \/ SessionStopsHub
  BY <1>2, <1>3, ClientOnly
<1>4. CASE StartsStream
  BY <1>1, <1>4 DEF StartsStream, WorkerSet
<1>5. CASE StartRefused
  <2>1. \/ hub' = HubStop(HubStart(hub))
        \/ hub' = hub /\ worker'.running = worker.running /\ worker'.session = worker.session
    BY <1>1, <1>5 DEF StartRefused, WorkerSet
  <2> QED BY <1>2, <2>1
<1>6. CASE StartChecked
  <2>1. \/ hub' = HubStop(hub)
        \/ hub' = hub /\ worker'.running = worker.running /\ worker'.session = worker.session
    BY <1>1, <1>6 DEF StartChecked, WorkerSet
  <2> QED BY <1>2, <2>1
<1>7. CASE StartReplied \/ TakeStart \/ TakeFlushed \/ TakeSample
  <2>1. hub' = hub /\ worker'.running = worker.running /\ worker'.session = worker.session
    BY <1>1, <1>7 DEF StartReplied, TakeStart, TakeFlushed, TakeSample, WorkerSet
  <2> QED BY <2>1
<1>8. CASE TakeStop \/ TakeLastSample \/ TakeQuit
  <2>1. hub' = HubStop(hub)
    BY <1>8 DEF TakeStop, TakeLastSample, TakeQuit
  <2> QED BY <1>2, <2>1
<1>9. CASE Deliver \/ Flushed \/ DeviceLost
  BY <1>9 DEF Deliver, Flushed, DeviceLost, Native
<1> QED BY <1>3, <1>4, <1>5, <1>6, <1>7, <1>8, <1>9 DEF Next, WorkerStep

\* Every step keeps the invariant.
LEMMA MfInvStep ==
  ASSUME Parameters, MfInv, [Next]_vars
  PROVE  MfInv'
<1>1. CASE Next
  <2>1. TypeOK'
    BY <1>1, ClientTypes, WorkerTypes DEF MfInv, Next
  <2>2. CallsMade' /\ CallsInOrder' /\ WorkerInCall'
    BY <1>1, MadeStep, OrderStep, InCallStep
  <2>3. FlushLast' /\ CleanToStart' /\ NoStaleSample'
    BY <1>1, FlushStep, CleanStep, StaleStep
  <2>4. Claimed' /\ LiveIsRunning'
    BY <1>1, ClaimStep, LiveStep
  <2> QED BY <2>1, <2>2, <2>3, <2>4 DEF MfInv
<1>2. CASE UNCHANGED vars
  BY <1>2 DEF vars, MfInv, TypeOK, CallsMade, CallsInOrder, WorkerInCall, StopFirst, FlushLast, CleanToStart,
       NoStaleSample, Claimed, LiveIsRunning, Calling, Samples
<1> QED BY <1>1, <1>2

\* Once the channel is drained a running stream can only be claimed by a caller.
LEMMA MfInvRest == MfInv => AtRest
<1> SUFFICES ASSUME MfInv, Drained, worker.running PROVE worker.session \in client.granted
  BY DEF AtRest, MfInv, LiveIsRunning
<1>1. \A i \in DOMAIN queue : queue[i].kind \notin {"stop", "quit"}
  BY DEF Drained, Calling
<1> QED BY <1>1 DEF MfInv, Claimed, Drained

\* What the invariant says of the properties.
LEMMA MfPromises == MfInv => TypeOK /\ NoStaleSample /\ AtRest
BY MfInvRest DEF MfInv

-----------------------------------------------------------------------------
(* Theorems.                                                                *)

\* The invariant holds of the worker and its client however they interleave
\* (mf/camera.rs: Worker::run; start_sync, stop_sync and drop of MFCamera).
THEOREM MfInvariant == ASSUME Parameters PROVE Spec => []MfInv
<1>1. Init => MfInv
  BY MfInvInit
<1>2. MfInv /\ [Next]_vars => MfInv'
  BY MfInvStep
<1> QED BY <1>1, <1>2, PTL DEF Spec

\* No sample of an earlier session is left in the channel, or on its way, that
\* would be published under the present one: a start waits until the flush of
\* the previous stream has drained its last sample (mf/camera.rs: Worker::start,
\* Worker::run).
THEOREM NoSampleOfOldStream == ASSUME Parameters PROVE Spec => []NoStaleSample
BY MfPromises, MfInvariant, PTL

\* However far the worker had got with a start its caller gave up, and at
\* whatever step it failed: once the channel is drained the worker streams only
\* for a caller that was told so, and a live hub has the worker's stream
\* (mf/camera.rs: MFCamera::start_sync, Worker::start).
THEOREM GivenUpIsUndone == ASSUME Parameters PROVE Spec => [](TypeOK /\ AtRest)
BY MfPromises, MfInvariant, PTL

============================================================================
