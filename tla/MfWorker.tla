------------------------------ MODULE MfWorker ------------------------------
(***************************************************************************)
(* The Media Foundation backend (src/src/backends/mf/camera.rs): one       *)
(* worker thread owns the source reader and takes events from a channel,   *)
(* which callers and the work queue of Media Foundation both fill; a       *)
(* caller waits for its answer with a timeout and may give up.             *)
(*                                                                         *)
(* The lifecycle mutex makes starts, stops and the drop one sequence, so   *)
(* one client stands for all callers.  Call n is the n-th start or stop.   *)
(***************************************************************************)
EXTENDS CaptureHub, Sequences

CONSTANT MaxCalls    \* bound on the starts and stops of a camera

VARIABLES hub,
          client,    \* where the client is, its call, and the sessions a start returned Ok for
          cancelled, \* the calls whose start timed out in the client
          answer,    \* per call: what the worker replied
          queue,     \* the channel of events
          worker,    \* the worker: its place, call, and the fields of Worker
          reader     \* the source reader: sessions of the reads asked for, its flush, its device

vars == <<hub, client, cancelled, answer, queue, worker, reader>>

Calls == 1..MaxCalls

Events == [kind : {"start", "stop", "sample", "flushed", "quit"}, of : Nat]

Event(kind, of) == [kind |-> kind, of |-> of]

TypeOK ==
    /\ hub \in Hub
    /\ client \in [at : {"idle", "starting", "undo", "stopping", "joining", "gone"},
                   call : 0..MaxCalls, granted : SUBSET Nat]
    /\ cancelled \subseteq Calls
    /\ answer \in [Calls -> {"none", "ok", "error"}]
    /\ queue \in Seq(Events)
    /\ worker \in [at : {"recv", "start", "check", "reply", "ended"}, call : 0..MaxCalls, result : {"ok", "error"},
                   running : BOOLEAN, stopping : 0..MaxCalls, session : Nat]
    /\ reader \in [reads : Seq(Nat), flushing : BOOLEAN, lost : BOOLEAN]

Init ==
    /\ hub = HubIdle
    /\ client = [at |-> "idle", call |-> 0, granted |-> {}]
    /\ cancelled = {}
    /\ answer = [n \in Calls |-> "none"]
    /\ queue = <<>>
    /\ worker = [at |-> "recv", call |-> 0, result |-> "ok",
                 running |-> FALSE, stopping |-> 0, session |-> 0]
    /\ reader = [reads |-> <<>>, flushing |-> FALSE, lost |-> FALSE]

-----------------------------------------------------------------------------
(* The client.                                                              *)

Client(at) == client' = [client EXCEPT !.at = at]

\* A new call is sent to the worker.
SendCall(at, kind) ==
    /\ client.call < MaxCalls
    /\ client' = [client EXCEPT !.at = at, !.call = @ + 1]
    /\ queue' = Append(queue, Event(kind, client'.call))

\* start_sync on a live hub is answered at once.
StartAgain ==
    /\ client.at = "idle" /\ hub.active
    /\ UNCHANGED vars

Start ==
    /\ client.at = "idle" /\ ~hub.active
    /\ SendCall("starting", "start")
    /\ UNCHANGED <<hub, cancelled, answer, worker, reader>>

StartAnswered ==
    /\ client.at = "starting" /\ answer[client.call] # "none"
    /\ client' = [client EXCEPT !.at = "idle",
                                !.granted = IF answer[client.call] = "ok" THEN @ \cup {worker.session} ELSE @]
    /\ UNCHANGED <<hub, cancelled, answer, queue, worker, reader>>

\* Five seconds have passed; the worker may be anywhere in the call.
StartTimesOut ==
    /\ client.at = "starting" /\ answer[client.call] = "none"
    /\ cancelled' = cancelled \cup {client.call}
    /\ Client("undo")
    /\ UNCHANGED <<hub, answer, queue, worker, reader>>

\* Broken: the native flush is left to the worker.
UndoHubOnly ==
    /\ client.at = "undo"
    /\ hub' = HubStop(hub)
    /\ Client("idle")
    /\ UNCHANGED <<cancelled, answer, queue, worker, reader>>

\* The hub is stopped and a Stop nobody waits for is sent after the call.
StartUndo ==
    /\ client.at = "undo"
    /\ hub' = HubStop(hub)
    /\ queue' = Append(queue, Event("stop", client.call))
    /\ Client("idle")
    /\ UNCHANGED <<cancelled, answer, worker, reader>>

Stop ==
    /\ client.at = "idle"
    /\ hub' = HubStop(hub)
    /\ SendCall("stopping", "stop")
    /\ UNCHANGED <<cancelled, answer, worker, reader>>

\* Answered, or given up after five seconds: the event stays in the channel.
StopReturns ==
    /\ client.at = "stopping"
    /\ Client("idle")
    /\ UNCHANGED <<hub, cancelled, answer, queue, worker, reader>>

Drop ==
    /\ client.at = "idle"
    /\ hub' = HubStop(hub)
    /\ queue' = Append(queue, Event("quit", 0))
    /\ Client("joining")
    /\ UNCHANGED <<cancelled, answer, worker, reader>>

DropJoins ==
    /\ client.at = "joining" /\ worker.at = "ended"
    /\ Client("gone")
    /\ UNCHANGED <<hub, cancelled, answer, queue, worker, reader>>

\* The session that owns the camera ends its stream through the hub first.
SessionStopsHub ==
    /\ hub.active
    /\ hub' = HubStop(hub)
    /\ UNCHANGED <<client, cancelled, answer, queue, worker, reader>>

-----------------------------------------------------------------------------
(* The worker thread.                                                       *)

Takes(kind) == worker.at = "recv" /\ queue # <<>> /\ Head(queue).kind = kind

Reply(n, result) == answer' = [answer EXCEPT ![n] = result]

\* A start taken from the channel, unless its caller has given up.
TakeStart ==
    /\ Takes("start")
    /\ queue' = Tail(queue)
    /\ LET n == Head(queue).of
       IN IF n \in cancelled
          THEN Reply(n, "error") /\ UNCHANGED worker
          ELSE worker' = [worker EXCEPT !.at = "start", !.call = n] /\ UNCHANGED answer
    /\ UNCHANGED <<hub, client, cancelled, reader>>

\* Broken: a start does not mind a flush that is still going on.
MayStartEarly == ~worker.running

MayStart == ~worker.running /\ worker.stopping = 0

\* Format, selection, hub.start() and the first read.
StartsStream ==
    /\ worker.at = "start" /\ MayStart
    /\ ~reader.lost
    /\ hub' = HubStart(hub)
    /\ worker' = [worker EXCEPT !.at = "check", !.result = "ok", !.running = TRUE, !.session = hub'.session]
    /\ reader' = [reader EXCEPT !.reads = Append(@, hub'.session)]
    /\ UNCHANGED <<client, cancelled, answer, queue>>

\* The worker is busy, the format is refused, or the first read fails, which
\* ends the session just begun.
StartRefused ==
    /\ worker.at = "start"
    /\ \/ UNCHANGED hub /\ worker' = [worker EXCEPT !.at = "check", !.result = "error"]
       \/ /\ MayStart
          /\ hub' = HubStop(HubStart(hub))
          /\ worker' = [worker EXCEPT !.at = "check", !.result = "error", !.session = hub'.session]
    /\ UNCHANGED <<client, cancelled, answer, queue, reader>>

\* After start() the flag is read again: if the caller gave up meanwhile the
\* stream is failed.
StartChecked ==
    /\ worker.at = "check"
    /\ LET late == worker.call \in cancelled
       IN /\ hub' = IF late THEN HubStop(hub) ELSE hub
          /\ worker' = [worker EXCEPT !.at = "reply", !.running = @ /\ ~late,
                                      !.result = IF late THEN "error" ELSE @]
    /\ UNCHANGED <<client, cancelled, answer, queue, reader>>

\* The answer is sent; a caller may have given up since the flag was read.
StartReplied ==
    /\ worker.at = "reply"
    /\ Reply(worker.call, worker.result)
    /\ worker' = [worker EXCEPT !.at = "recv"]
    /\ UNCHANGED <<hub, client, cancelled, queue, reader>>

\* fail(), then one flush at a time: its answer waits for OnFlush.
TakeStop ==
    /\ Takes("stop")
    /\ queue' = Tail(queue)
    /\ hub' = HubStop(hub)
    /\ LET n == Head(queue).of
       IN IF worker.stopping # 0 \/ reader.lost
          THEN /\ Reply(n, "error")
               /\ worker' = [worker EXCEPT !.running = FALSE]
               /\ UNCHANGED reader
          ELSE /\ worker' = [worker EXCEPT !.running = FALSE, !.stopping = n]
               /\ reader' = [reader EXCEPT !.flushing = TRUE]
               /\ UNCHANGED answer
    /\ UNCHANGED <<client, cancelled>>

TakeFlushed ==
    /\ Takes("flushed")
    /\ queue' = Tail(queue)
    /\ worker' = [worker EXCEPT !.stopping = 0]
    /\ IF worker.stopping = 0 THEN UNCHANGED answer ELSE Reply(worker.stopping, "ok")
    /\ UNCHANGED <<hub, client, cancelled, reader>>

\* A sample of a running stream is published under worker.session, and the
\* next one asked for; a sample that arrives later is ignored.
TakeSample ==
    /\ Takes("sample")
    /\ queue' = Tail(queue)
    /\ reader' = IF worker.running THEN [reader EXCEPT !.reads = Append(@, worker.session)] ELSE reader
    /\ worker.running => ~reader.lost
    /\ UNCHANGED <<hub, client, cancelled, answer, worker>>

\* The stream ended or failed, its new format is unknown, or ReadSample fails.
TakeLastSample ==
    /\ Takes("sample") /\ worker.running
    /\ queue' = Tail(queue)
    /\ hub' = HubStop(hub)
    /\ worker' = [worker EXCEPT !.running = FALSE]
    /\ UNCHANGED <<client, cancelled, answer, reader>>

\* Quit: fail() and a last flush; the reader dies with the worker.
TakeQuit ==
    /\ Takes("quit")
    /\ hub' = HubStop(hub)
    /\ worker' = [worker EXCEPT !.at = "ended", !.running = FALSE]
    /\ queue' = <<>>
    /\ reader' = [reader EXCEPT !.reads = <<>>, !.flushing = FALSE]
    /\ UNCHANGED <<client, cancelled, answer>>

-----------------------------------------------------------------------------
(* Media Foundation's work queue.                                           *)

Native(kind, of) ==
    /\ queue' = Append(queue, Event(kind, of))
    /\ UNCHANGED <<hub, client, cancelled, answer, worker>>

\* OnReadSample for the oldest read.
Deliver ==
    /\ reader.reads # <<>>
    /\ Native("sample", Head(reader.reads))
    /\ reader' = [reader EXCEPT !.reads = Tail(@)]

\* OnFlush: the reads still open are gone.
Flushed ==
    /\ reader.flushing
    /\ Native("flushed", 0)
    /\ reader' = [reader EXCEPT !.reads = <<>>, !.flushing = FALSE]

\* The device is unplugged: the calls of the reader fail from now on.
DeviceLost ==
    /\ ~reader.lost /\ worker.at # "ended"
    /\ reader' = [reader EXCEPT !.lost = TRUE]
    /\ UNCHANGED <<hub, client, cancelled, answer, queue, worker>>

WorkerStep ==
    \/ TakeStart \/ StartsStream \/ StartRefused \/ StartChecked \/ StartReplied
    \/ TakeStop \/ TakeFlushed \/ TakeSample \/ TakeLastSample \/ TakeQuit

Next ==
    \/ StartAgain \/ Start \/ StartAnswered \/ StartTimesOut \/ StartUndo
    \/ Stop \/ StopReturns \/ Drop \/ DropJoins \/ SessionStopsHub
    \/ WorkerStep
    \/ Deliver \/ Flushed \/ DeviceLost

Fairness ==
    /\ WF_vars(WorkerStep)
    /\ WF_vars(Flushed)
    /\ WF_vars(StartAnswered \/ StartTimesOut \/ StartUndo \/ StopReturns \/ DropJoins)

Spec == Init /\ [][Next]_vars /\ Fairness

-----------------------------------------------------------------------------
(* Properties.                                                              *)

\* Events of the channel: those a caller sent, and samples.
Calling == {i \in DOMAIN queue : queue[i].kind \in {"start", "stop", "quit"}}

Samples == {i \in DOMAIN queue : queue[i].kind = "sample"}

\* Every event of the client has been handled.
Drained ==
    /\ client.at \in {"idle", "gone"} /\ worker.at \in {"recv", "ended"}
    /\ Calling = {}

\* A start that timed out in its caller is undone however far the worker had
\* got: once the channel is drained the worker streams only for a caller that
\* was told so, and a live hub always has the worker's stream.
AtRest ==
    Drained =>
        /\ worker.running => worker.session \in client.granted
        /\ hub.active => worker.running /\ worker.session = hub.session

\* A running stream has one read under way or one sample in the channel, its
\* own: no sample of an earlier session is left that would be published under
\* the new one.
NoStaleSample ==
    worker.running =>
        /\ Len(reader.reads) <= 1 /\ (reader.reads # <<>> => Samples = {})
        /\ \A i, j \in Samples : i = j
        /\ \A i \in DOMAIN reader.reads : reader.reads[i] = worker.session
        /\ \A i \in Samples : queue[i].of = worker.session

\* Dropping the camera joins its worker, whatever is in the channel.
DropReturns == client.at = "joining" ~> client.at = "gone"

\* A stop ends the stream even if its caller has given up waiting.
StopTakesEffect == client.at = "stopping" ~> ~worker.running
============================================================================
