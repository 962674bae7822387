---------------------------- MODULE DeviceWatch ----------------------------
(***************************************************************************)
(* The device watcher (src/src/device_watch.rs): a task that scans the     *)
(* devices on an interval and publishes a snapshot when the inventory or   *)
(* the error changed; its owner reads, waits for changes, stops or drops.  *)
(*                                                                         *)
(* A device is its identity (id, name and index, the fields the task       *)
(* compares).  `reality` is what a scan would find: a set of devices, or   *)
(* the error it would return.                                              *)
(***************************************************************************)
EXTENDS Naturals, FiniteSets

CONSTANTS Devices,         \* device identities
          NoError,         \* no error in a snapshot or a scan
          ScanError,       \* the error a failing enumeration returns
          MaxGeneration    \* bound on the publications

VARIABLES reality,   \* what the system would enumerate now
          task,      \* the scanning task: where it is and the scan it holds
          shown,     \* the snapshot in the watch channel
          cancel,    \* the cancel channel holds TRUE
          owner      \* the watcher's owner: where it is, the generation it saw and
                     \* whether it still has the task's JoinHandle

vars == <<reality, task, shown, cancel, owner>>

Scan == [devices : SUBSET Devices, error : {NoError, ScanError}]

TypeOK ==
    /\ reality \in Scan
    /\ task \in [at : {"unborn", "sleep", "scan", "compare", "publish", "ended"}, found : Scan]
    /\ shown \in [generation : 0..MaxGeneration, devices : SUBSET Devices, error : {NoError, ScanError}]
    /\ cancel \in BOOLEAN
    /\ owner \in [at : {"none", "watching", "waiting", "stopping", "stopped", "dropped"},
                  seen : 0..MaxGeneration, handle : BOOLEAN]

Nothing == [devices |-> {}, error |-> NoError]

Init ==
    /\ reality = Nothing
    /\ task = [at |-> "unborn", found |-> Nothing]
    /\ shown = [generation |-> 0, devices |-> {}, error |-> NoError]
    /\ cancel = FALSE
    /\ owner = [at |-> "none", seen |-> 0, handle |-> FALSE]

\* Devices come and go and the enumeration may fail, any time.
RealityChanges ==
    /\ \E scan \in Scan : (scan.error = NoError \/ scan.devices = {}) /\ reality' = scan
    /\ UNCHANGED <<task, shown, cancel, owner>>

\* watch_devices: the first inventory is read before the task exists; its
\* failure is the caller's error and there is no watcher.
WatchDevices ==
    /\ owner.at = "none" /\ reality.error = NoError
    /\ shown' = [shown EXCEPT !.devices = reality.devices]
    /\ task' = [at |-> "sleep", found |-> reality]
    /\ owner' = [owner EXCEPT !.at = "watching", !.handle = TRUE]
    /\ UNCHANGED <<reality, cancel>>

-----------------------------------------------------------------------------
(* The task.  Both of its waits are biased towards the cancellation.        *)

TaskAt(at) == task' = [task EXCEPT !.at = at]

\* Broken: the wait for a scan does not watch the cancellation.
CancelledAsleep ==
    /\ task.at = "sleep" /\ cancel
    /\ TaskAt("ended")
    /\ UNCHANGED <<reality, shown, cancel, owner>>

Cancelled ==
    /\ task.at \in {"sleep", "scan"} /\ cancel
    /\ TaskAt("ended")
    /\ UNCHANGED <<reality, shown, cancel, owner>>

Wake ==
    /\ task.at = "sleep" /\ ~cancel
    /\ TaskAt("scan")
    /\ UNCHANGED <<reality, shown, cancel, owner>>

\* system.devices(): it may take any time; at the bound it takes for ever.
Scanned ==
    /\ task.at = "scan" /\ ~cancel
    /\ shown.generation < MaxGeneration
    /\ task' = [at |-> "compare", found |-> reality]
    /\ UNCHANGED <<reality, shown, cancel, owner>>

\* What the task would publish: an error keeps the inventory shown.
Candidate ==
    [generation |-> shown.generation + 1,
     devices |-> IF task.found.error = NoError THEN task.found.devices ELSE shown.devices,
     error |-> task.found.error]

\* Broken: one device swapped for another goes unnoticed.
SameCount(next) ==
    /\ next.error = shown.error
    /\ Cardinality(next.devices) = Cardinality(shown.devices)

\* Equal errors, equally many devices, and each of them among the shown ones.
Same(next) ==
    /\ next.error = shown.error
    /\ Cardinality(next.devices) = Cardinality(shown.devices)
    /\ next.devices \subseteq shown.devices

\* Broken: the flag is not read again after the scan.
CompareAnyway ==
    /\ task.at = "compare"
    /\ TaskAt("publish")
    /\ UNCHANGED <<reality, shown, cancel, owner>>

\* `if *cancelled.borrow() { break }` after the scan ...
Compare ==
    /\ task.at = "compare"
    /\ TaskAt(IF cancel THEN "ended" ELSE "publish")
    /\ UNCHANGED <<reality, shown, cancel, owner>>

\* ... then the comparison, and what differs is published.
Publish ==
    /\ task.at = "publish"
    /\ shown' = IF Same(Candidate) THEN shown ELSE Candidate
    /\ TaskAt("sleep")
    /\ UNCHANGED <<reality, cancel, owner>>

-----------------------------------------------------------------------------
(* The owner.                                                               *)

OwnerAt(at) == owner' = [owner EXCEPT !.at = at]

BeginChanged ==
    /\ owner.at = "watching"
    /\ OwnerAt("waiting")
    /\ UNCHANGED <<reality, task, shown, cancel>>

\* changed() returns the newest snapshot; generations between are skipped.
Changed ==
    /\ owner.at = "waiting" /\ owner.seen # shown.generation
    /\ owner' = [owner EXCEPT !.at = "watching", !.seen = shown.generation]
    /\ UNCHANGED <<reality, task, shown, cancel>>

\* The future of changed() is dropped, as by a timeout around it.
AbandonChanged ==
    /\ owner.at = "waiting"
    /\ OwnerAt("watching")
    /\ UNCHANGED <<reality, task, shown, cancel>>

\* stop() takes the JoinHandle before it awaits it.
StopBegins ==
    /\ owner.at = "watching" /\ owner.handle
    /\ cancel' = TRUE
    /\ owner' = [owner EXCEPT !.at = "stopping", !.handle = FALSE]
    /\ UNCHANGED <<reality, task, shown>>

\* The future of stop() is dropped at its await, and the handle with it.
AbandonStop ==
    /\ owner.at = "stopping"
    /\ OwnerAt("watching")
    /\ UNCHANGED <<reality, task, shown, cancel>>

\* stop() after such a stop returns at once: there is nothing to join.
StopAgain ==
    /\ owner.at = "watching" /\ ~owner.handle
    /\ cancel' = TRUE
    /\ UNCHANGED <<reality, task, shown, owner>>

\* Broken: stop does not await the task.
StopReturnsAtOnce ==
    /\ owner.at = "stopping"
    /\ OwnerAt("stopped")
    /\ UNCHANGED <<reality, task, shown, cancel>>

\* stop() returns when the task it has the handle of is joined.
StopReturns ==
    /\ owner.at = "stopping" /\ task.at = "ended"
    /\ OwnerAt("stopped")
    /\ UNCHANGED <<reality, task, shown, cancel>>

\* Drop: the task is told and not awaited.
DropWatcher ==
    /\ owner.at \in {"watching", "stopping", "stopped"}
    /\ cancel' = TRUE
    /\ OwnerAt("dropped")
    /\ UNCHANGED <<reality, task, shown>>

Next ==
    \/ RealityChanges
    \/ WatchDevices
    \/ Cancelled \/ Wake \/ Scanned \/ Compare \/ Publish
    \/ BeginChanged \/ Changed \/ AbandonChanged
    \/ StopBegins \/ AbandonStop \/ StopAgain \/ StopReturns \/ DropWatcher

\* The task runs; a scan is not assumed to end.
Fairness == WF_vars(Cancelled) /\ WF_vars(Compare) /\ WF_vars(Publish) /\ WF_vars(StopReturns)

Spec == Init /\ [][Next]_vars /\ Fairness

-----------------------------------------------------------------------------
(* Properties.                                                              *)

\* After a stop() that was awaited to its end the snapshot is final, and no
\* scan is left running behind it.  A stop() dropped at its await gives the
\* handle away, and the next one returns without joining; from the first on,
\* all that the task may still publish is the scan it had already weighed.
FinalAfterStop ==
    [][/\ owner.at = "stopped" => UNCHANGED <<shown, task>>
       /\ cancel /\ shown' # shown => task.at = "publish"
       /\ cancel /\ task'.at # task.at => task'.at \in {"ended", "sleep"}]_vars

\* stop() and drop end the task even while a scan hangs, whether or not
\* anybody waits for that.
StopEnds ==
    /\ owner.at = "stopping" ~> owner.at # "stopping"
    /\ cancel ~> task.at = "ended"

\* Between scans the snapshot is the last scan, device for device: a device
\* swapped for another is a change although their number is the same.
ShowsLastScan ==
    task.at \in {"sleep", "scan"} =>
        /\ shown.error = task.found.error
        /\ shown.error = NoError => shown.devices = task.found.devices
============================================================================
