----------------------------- MODULE FramePool ------------------------------
(***************************************************************************)
(* Storage of the frame hub (src/src/frame.rs): the bounded pool of        *)
(* reusable buffers, the leases publishers write through, the memory       *)
(* budget and the per-epoch counters.                                      *)
(*                                                                         *)
(* Publishers are backend callbacks, worker threads and custom FrameSinks; *)
(* Controllers call start, stop and configure.  What subscribers do with a *)
(* frame is seen here only through the references they keep: shared is the *)
(* storage some queue or application still refers to (FrameDelivery has    *)
(* the queues).                                                            *)
(*                                                                         *)
(* An action is what the code does under one acquisition of the pool mutex *)
(* or of the watch lock.  start() holds the pool mutex over several        *)
(* accesses to the watched snapshot and is split in StartBegin and         *)
(* StartReplace; PoolFree keeps the other users of the mutex out between   *)
(* the two.                                                                *)
(***************************************************************************)
EXTENDS Integers, Sequences, FiniteSets

CONSTANTS
  Publishers,   \* threads that hand frames to the hub
  Controllers,  \* threads that start, stop and configure it
  Buf,          \* identities of frame storage (Arc allocations), one per slot
  NoBuf,        \* Option<Storage>::None
  Lengths,      \* byte lengths of the frames backends offer
  Budgets,      \* the MemoryBudgets a request may ask for
  MaxSession,   \* bound: capture epochs started
  MaxReceived   \* bound: frames offered in one epoch

ASSUME PublishersAssumption == IsFiniteSet(Publishers)
ASSUME NoBufAssumption == NoBuf \notin Buf
ASSUME LengthsAssumption == Lengths \subseteq Nat \ {0}
ASSUME BudgetsAssumption == Budgets \subseteq [buffers : Nat, bytes : Nat]
ASSUME BoundsAssumption == MaxSession \in Nat /\ MaxReceived \in Nat

VARIABLES
  session,      \* Snapshot.session, 0 before the first start
  active,       \* Snapshot.active
  latest,       \* storage of Snapshot.latest
  shared,       \* storage referenced from queues and applications
  nextSession,  \* NEXT_SESSION
  slots,        \* Pool.slots
  budget,       \* Pool.budget
  metrics,      \* Pool.metrics, the frame counters
  pub,          \* program counter and lease of each publisher
  ctl           \* program counter of each controller

epoch == <<session, active>>
pool  == <<slots, budget, metrics>>
vars  == <<epoch, latest, shared, nextSession, pool, pub, ctl>>

-----------------------------------------------------------------------------
(* Data. *)

\* data is NoBuf while the storage is out on a lease; rgb tells packed
\* pixels, allocated to size, from a byte vector, which keeps its capacity.
Slot == [data : Buf \cup {NoBuf}, bytes : Nat, rgb : BOOLEAN]

NoMetrics == [received |-> 0, published |-> 0, drops |-> 0, errors |-> 0]

IdlePub == [pc |-> "idle", session |-> 0, index |-> 0, data |-> NoBuf]
IdleCtl == [pc |-> "idle", session |-> 0]

\* Sum of the bytes charged to a sequence of slots.
Used(s) ==
  LET total[n \in 0..Len(s)] == IF n = 0 THEN 0 ELSE total[n - 1] + s[n].bytes
  IN  total[Len(s)]

\* Storage referenced by a frame somebody can still read.
LiveBufs == (shared \cup {latest}) \ {NoBuf}

PooledBufs == {slots[i].data : i \in DOMAIN slots} \ {NoBuf}

\* The publishers that own a Lease, and the storage they lease.
Leasing    == {p \in Publishers : pub[p].data # NoBuf}
LeasedBufs == {pub[p].data : p \in Leasing}

PoolFree == \A c \in Controllers : ctl[c].pc # "replace"

\* The check every publication makes of its epoch.
Accepts(s) == active /\ session = s

Init ==
  /\ session = 0 /\ active = FALSE
  /\ latest = NoBuf /\ shared = {}
  /\ nextSession = 1
  /\ slots = <<>> /\ budget \in Budgets /\ metrics = NoMetrics
  /\ pub = [p \in Publishers |-> IdlePub]
  /\ ctl = [c \in Controllers |-> IdleCtl]

-----------------------------------------------------------------------------
(* Control: start, stop and configure. *)

\* clear_queues: storage only queues referred to is no longer shared.
ClearQueues == shared' \in SUBSET shared

\* start(), up to send_replace: under the pool mutex the counters are reset,
\* a new epoch number is taken and the queues are emptied.
StartBegin(c) ==
  /\ ctl[c].pc = "idle" /\ PoolFree
  /\ nextSession <= MaxSession
  /\ metrics' = NoMetrics
  /\ nextSession' = nextSession + 1
  /\ ClearQueues
  /\ ctl' = [ctl EXCEPT ![c].pc = "replace", ![c].session = nextSession]
  /\ UNCHANGED <<epoch, latest, slots, budget, pub>>

\* start(), the send_replace, still under the pool mutex.
StartReplace(c) ==
  /\ ctl[c].pc = "replace"
  /\ session' = ctl[c].session /\ active' = TRUE /\ latest' = NoBuf
  /\ ctl' = [ctl EXCEPT ![c] = IdleCtl]
  /\ UNCHANGED <<shared, nextSession, pool, pub>>

\* stop(), and FrameSink::disconnect through it: whatever epoch is current
\* ends.  The pool mutex was released before, so a start may be under way.
Stop ==
  /\ ClearQueues
  /\ active' = FALSE /\ latest' = NoBuf
  /\ UNCHANGED <<session, nextSession, pool, pub, ctl>>

\* configure(), the is_streaming test, made before the pool mutex is taken.
ConfigureCheck(c) ==
  /\ ctl[c].pc = "idle" /\ ~active
  /\ ctl' = [ctl EXCEPT ![c].pc = "configure"]
  /\ UNCHANGED <<epoch, latest, shared, nextSession, pool, pub>>

\* Broken: configure() does not ask whether a conversion is under way.
LeaseIgnored == FALSE

\* configure() refuses while a conversion still owns a slot's storage.
LeaseOutstanding == \E i \in DOMAIN slots : slots[i].data = NoBuf /\ slots[i].bytes > 0

\* f lists the members of kept in increasing order.
Lists(f, kept) ==
  /\ \A i, j \in DOMAIN f : i < j => f[i] < f[j]
  /\ {f[i] : i \in DOMAIN f} = kept

\* configure(), the rest, under the pool mutex: storage nobody shares is
\* given back (also when the retained frames then do not fit the new
\* budget), and the budget is replaced.
ConfigureApply(c, b) ==
  /\ ctl[c].pc = "configure" /\ PoolFree
  /\ IF LeaseOutstanding
     THEN UNCHANGED <<slots, budget>>
     ELSE \E n \in 0..Len(slots) : \E f \in [1..n -> DOMAIN slots] :
            /\ Lists(f, {i \in DOMAIN slots : slots[i].data \in LiveBufs \cup {NoBuf}})
            /\ slots' = [i \in 1..n |-> slots[f[i]]]
            /\ budget' = IF n <= b.buffers
                            /\ Used(slots') <= b.bytes
                         THEN b ELSE budget
  /\ ctl' = [ctl EXCEPT ![c] = IdleCtl]
  /\ UNCHANGED <<epoch, latest, shared, nextSession, metrics, pub>>

-----------------------------------------------------------------------------
(* Publication: reserve, convert, finish_publish, Drop for Lease. *)

\* Broken: takes any slot with storage, whoever still reads it.
SlotsWithStorage == {i \in DOMAIN slots : slots[i].data \in PooledBufs}

\* Slots whose storage nothing but the pool refers to (Storage::unique).
FreeSlots == {i \in DOMAIN slots : slots[i].data \in PooledBufs \ LiveBufs}

Received == [metrics EXCEPT !.received = @ + 1]
Dropped  == [metrics EXCEPT !.received = @ + 1, !.drops = @ + 1]

Lease(p, i, b) ==
  pub' = [pub EXCEPT ![p] = [pc |-> "convert", session |-> session,
                             index |-> i, data |-> b]]

\* Broken: forgets what the other slots hold.
WholeBudget(i) == budget.bytes

\* What the byte budget leaves to slot i when the other slots are paid.
Available(i) == budget.bytes - (Used(slots) - slots[i].bytes)

\* The bytes slot i holds once a frame of this length and kind is put in it.
Allocated(i, len, rgb) ==
  IF ~rgb /\ ~slots[i].rgb /\ len <= slots[i].bytes THEN slots[i].bytes ELSE len

\* reserve(), reusing the first slot with unshared storage: refused when
\* the frame, or the capacity it would keep, exceeds the byte budget.
ReserveReuse(p, len, rgb, i) ==
  /\ \A j \in FreeSlots : i <= j
  /\ IF len > Available(i)
     THEN /\ slots' = IF slots[i].bytes = 0 THEN SubSeq(slots, 1, Len(slots) - 1)
                      ELSE slots
          /\ metrics' = Dropped /\ UNCHANGED pub
     ELSE IF Allocated(i, len, rgb) > Available(i)
     THEN /\ slots' = [slots EXCEPT ![i].bytes = 0, ![i].rgb = FALSE]
          /\ metrics' = Dropped /\ UNCHANGED pub
     ELSE /\ slots' = [slots EXCEPT ![i] = [data |-> NoBuf, rgb |-> rgb,
                                            bytes |-> Allocated(i, len, rgb)]]
          /\ metrics' = Received
          /\ Lease(p, i, slots[i].data)

\* reserve(), growing the pool by one slot.  A slot pushed for a frame that
\* exceeds the byte budget is popped again.
ReserveGrow(p, len, rgb) ==
  /\ FreeSlots = {} /\ Len(slots) < budget.buffers
  /\ IF len > budget.bytes - Used(slots)
     THEN metrics' = Dropped /\ UNCHANGED <<slots, pub>>
     ELSE /\ slots' = Append(slots, [data |-> NoBuf, bytes |-> len, rgb |-> rgb])
          /\ metrics' = Received
          /\ \E b \in Buf \ (LiveBufs \cup LeasedBufs \cup PooledBufs) :
               Lease(p, Len(slots) + 1, b)

\* reserve(), every slot leased or shared.
ReserveFull ==
  /\ FreeSlots = {} /\ Len(slots) >= budget.buffers
  /\ metrics' = Dropped /\ UNCHANGED <<slots, pub>>

\* publish and writable_native ask for storage.  Callbacks of another epoch,
\* or of a stopped one, return before they change anything.
Reserve(p, len, rgb) ==
  /\ pub[p].pc = "idle" /\ active /\ PoolFree
  /\ metrics.received < MaxReceived
  /\ \/ \E i \in FreeSlots : ReserveReuse(p, len, rgb, i)
     \/ ReserveGrow(p, len, rgb)
     \/ ReserveFull
  /\ UNCHANGED <<epoch, latest, shared, nextSession, budget, ctl>>

\* The conversion fails: record_conversion_error tests the epoch under the
\* watch lock and charges it later.
ConvertFail(p) ==
  /\ pub[p].pc = "convert"
  /\ pub' = [pub EXCEPT ![p].pc =
               IF Accepts(pub[p].session) THEN "charge" ELSE "release"]
  /\ UNCHANGED <<epoch, latest, shared, nextSession, pool, ctl>>

\* Broken: the error path keeps the lease.
ChargeErrorAndKeep(p) ==
  /\ pub[p].pc = "charge" /\ PoolFree
  /\ metrics' = [metrics EXCEPT !.errors = @ + 1]
  /\ pub' = [pub EXCEPT ![p].pc = "idle"]
  /\ UNCHANGED <<epoch, latest, shared, nextSession, slots, budget, ctl>>

\* record_conversion_error, the half under the pool mutex.
ChargeError(p) ==
  /\ pub[p].pc = "charge" /\ PoolFree
  /\ metrics' = [metrics EXCEPT !.errors = @ + 1]
  /\ pub' = [pub EXCEPT ![p].pc = "release"]
  /\ UNCHANGED <<epoch, latest, shared, nextSession, slots, budget, ctl>>

\* A WritableFrameLease dropped without commit.
Abandon(p) ==
  /\ pub[p].pc = "convert"
  /\ pub' = [pub EXCEPT ![p].pc = "release"]
  /\ UNCHANGED <<epoch, latest, shared, nextSession, pool, ctl>>

\* Broken: hands out the frame it replaces, which may be None.
PublishPrevious(p) ==
  /\ pub[p].pc = "convert" /\ Accepts(pub[p].session)
  /\ latest' = pub[p].data
  /\ shared' \in SUBSET (shared \cup {latest})
  /\ pub' = [pub EXCEPT ![p].pc = "settle"]
  /\ UNCHANGED <<epoch, nextSession, pool, ctl>>

\* finish_publish under the watch lock, when the epoch is still the one the
\* storage was reserved for: the frame becomes the latest one, subscribers
\* may take references to it, and those they replace go.
Publish(p) ==
  /\ pub[p].pc = "convert" /\ Accepts(pub[p].session)
  /\ latest' = pub[p].data
  /\ shared' \in SUBSET (shared \cup {pub[p].data})
  /\ pub' = [pub EXCEPT ![p].pc = "settle"]
  /\ UNCHANGED <<epoch, nextSession, pool, ctl>>

\* finish_publish when the epoch was stopped or replaced during conversion.
PublishRejected(p) ==
  /\ pub[p].pc = "convert" /\ ~Accepts(pub[p].session)
  /\ pub' = [pub EXCEPT ![p].pc = "release"]
  /\ UNCHANGED <<epoch, latest, shared, nextSession, pool, ctl>>

\* Broken: counts the frame for whichever epoch is current.
SettleAnywhere(p) ==
  /\ pub[p].pc = "settle" /\ PoolFree
  /\ metrics' = [metrics EXCEPT !.published = @ + 1]
  /\ pub' = [pub EXCEPT ![p].pc = "release"]
  /\ UNCHANGED <<epoch, latest, shared, nextSession, slots, budget, ctl>>

\* finish_publish, the counters, under the pool mutex.
Settle(p) ==
  /\ pub[p].pc = "settle" /\ PoolFree
  /\ metrics' = IF session = pub[p].session
                THEN [metrics EXCEPT !.published = @ + 1] ELSE metrics
  /\ pub' = [pub EXCEPT ![p].pc = "release"]
  /\ UNCHANGED <<epoch, latest, shared, nextSession, slots, budget, ctl>>

\* Drop for Lease.
Release(p) ==
  /\ pub[p].pc = "release" /\ PoolFree
  /\ slots' = [slots EXCEPT ![pub[p].index].data = pub[p].data]
  /\ pub' = [pub EXCEPT ![p] = IdlePub]
  /\ UNCHANGED <<epoch, latest, shared, nextSession, budget, metrics, ctl>>

\* record_input_error and record_input_drop, the epoch test: a backend
\* rejects a frame before it asks for storage.  An error needs an active
\* epoch, a drop only its number.
InputTest(p, pc) ==
  /\ pub[p].pc = "idle" /\ session > 0
  /\ pc = "badInput" => active
  /\ metrics.received < MaxReceived
  /\ pub' = [pub EXCEPT ![p].pc = pc, ![p].session = session]
  /\ UNCHANGED <<epoch, latest, shared, nextSession, pool, ctl>>

\* record_input_error and record_input_drop, the half under the pool mutex.
InputCount(p) ==
  /\ pub[p].pc \in {"badInput", "dropInput"} /\ PoolFree
  /\ metrics' = IF pub[p].pc = "badInput" THEN [Received EXCEPT !.errors = @ + 1]
                ELSE Dropped
  /\ pub' = [pub EXCEPT ![p] = IdlePub]
  /\ UNCHANGED <<epoch, latest, shared, nextSession, slots, budget, ctl>>

-----------------------------------------------------------------------------
(* References: subscribe_with, latest() and next() on one side, Drop on    *)
(* the other.                                                              *)

\* A subscriber or an application takes a reference to the latest frame.
Retain ==
  /\ latest # NoBuf
  /\ shared' = shared \cup {latest}
  /\ UNCHANGED <<epoch, latest, nextSession, pool, pub, ctl>>

\* The last reference to a frame outside the hub goes.
DropFrame(b) ==
  /\ b \in shared
  /\ shared' = shared \ {b}
  /\ UNCHANGED <<epoch, latest, nextSession, pool, pub, ctl>>

-----------------------------------------------------------------------------
ControlStep(c) ==
  \/ StartBegin(c) \/ StartReplace(c) \/ ConfigureCheck(c)
  \/ \E b \in Budgets : ConfigureApply(c, b)

PublisherStep(p) ==
  \/ \E len \in Lengths, rgb \in BOOLEAN : Reserve(p, len, rgb)
  \/ ConvertFail(p) \/ ChargeError(p) \/ Abandon(p)
  \/ Publish(p) \/ PublishRejected(p) \/ Settle(p) \/ Release(p)
  \/ \E pc \in {"badInput", "dropInput"} : InputTest(p, pc)
  \/ InputCount(p)

Next ==
  \/ \E c \in Controllers : ControlStep(c)
  \/ Stop
  \/ \E p \in Publishers : PublisherStep(p)
  \/ Retain
  \/ \E b \in shared : DropFrame(b)

Spec == Init /\ [][Next]_vars

-----------------------------------------------------------------------------
PubPc == {"idle", "convert", "charge", "settle", "release", "badInput", "dropInput"}

\* Every variable ranges over what its declaration in frame.rs allows.
TypeOK ==
  /\ session \in Nat /\ active \in BOOLEAN
  /\ latest \in Buf \cup {NoBuf} /\ shared \subseteq Buf
  /\ nextSession \in Nat \ {0}
  /\ slots \in Seq(Slot) /\ budget \in Budgets
  /\ metrics \in [received : Nat, published : Nat, drops : Nat, errors : Nat]
  /\ pub \in [Publishers -> [pc : PubPc, session : Nat, index : Nat,
                             data : Buf \cup {NoBuf}]]
  /\ ctl \in [Controllers -> [pc : {"idle", "replace", "configure"},
                              session : Nat]]

\* A conversion writes through Arc::get_mut while it holds no lock: no frame
\* anybody can read, no slot and no other lease may refer to its storage, or
\* bytes_mut panics and retained frames change under their readers.
ExclusiveWrite ==
  \A p \in Publishers : pub[p].pc = "convert" =>
    /\ pub[p].data \notin LiveBufs \cup PooledBufs
    /\ \A q \in Leasing \ {p} : pub[q].data # pub[p].data

\* A lease finds its slot by index when it is dropped: neither configure's
\* compaction nor the pop of a refused slot may have moved or removed it,
\* and no two leases share one.
LeaseIndexStable ==
  \A p \in Leasing :
    /\ pub[p].index \in DOMAIN slots
    /\ slots[pub[p].index].data = NoBuf
    /\ slots[pub[p].index].bytes > 0
    /\ \A q \in Leasing \ {p} : pub[q].index # pub[p].index

\* No slot is lost for good: whatever path a publication takes (refused,
\* failed, abandoned, overtaken by a stop or a restart), a slot without
\* storage is one whose lease is still to be dropped.
SlotsRecoverable ==
  \A i \in DOMAIN slots : slots[i].data = NoBuf =>
    \E p \in Leasing : pub[p].index = i

\* Memory is bounded by the budget in force, also across a change of budget
\* with frames retained: the storage of every frame somebody still holds is
\* charged to the pool, and the pool respects both of its limits.
WithinBudget ==
  /\ Len(slots) <= budget.buffers
  /\ Used(slots) <= budget.bytes
  /\ LiveBufs \subseteq PooledBufs \cup LeasedBufs

\* Counters belong to the epoch whose start() reset them: an epoch never
\* reports more frames published and dropped than it received, whatever
\* publications of earlier epochs are still finishing.
MetricsConsistent == metrics.published + metrics.drops <= metrics.received

=============================================================================
